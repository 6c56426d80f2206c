-------------------------------- MODULE RwT2t --------------------------------
(***************************************************************************)
(* The reader and writer of Type 2 tags (nfc/tags/rw_t2t.c, rw_t2t_ndef.c) *)
(* and the tag itself (external).  The first data block holds the length   *)
(* and the first unit of the message, each further block a unit; a         *)
(* terminator goes to the block behind the message.                        *)
(*                                                                         *)
(* A tag may refuse a command with a NACK, and may then halt: it is silent *)
(* until it is put to sleep and woken up.  A command that was refused is   *)
(* sent once more; when that is not answered, the tag is taken for halted. *)
(*                                                                         *)
(* Every block of the message is free of lock and reserved bytes, and in   *)
(* one sector.  A block is written whole or, unless it holds the length,   *)
(* half.  One-time programmable tags and tags of several versions, which   *)
(* are formatted otherwise, are left out.                                  *)
(***************************************************************************)
EXTENDS RwCore

\* fmt: the CC announces NDEF; ver 2: there are dynamic lock bytes; ro: the CC is
\* that of a read-only tag; lock: the lock bits are set; halt: the tag is silent.
T2tNew == [type |-> "t2t", ro |-> FALSE, lock |-> FALSE, halt |-> FALSE, len |-> Len(Old),
           data |-> Old \o [i \in 1..Room - Len(Old) |-> "x"]]

T2tReadable(t) == IF t.fmt THEN SubSeq(t.data, 1, t.len) ELSE <<>>

\* It is woken up.
T2tReset(t) == [t EXCEPT !.halt = FALSE]

-------------------------------------------------------------------------------
(* The tag                                                                   *)

T2tReads == {"read_hdr", "read", "read_locks"}
Ack == Answer("ok", "short", 0, <<>>)
Nack == Answer("nack", "short", 0, <<>>)

T2tRefuses(t, cmd) == t.lock /\ cmd.c \notin T2tReads

T2tAfter(t, cmd) ==
  CASE T2tRefuses(t, cmd) -> t
    [] ~T2tRefuses(t, cmd) /\ cmd.c = "write_first" ->
         [t EXCEPT !.len = cmd.n, !.data[1] = cmd.d[1]]
    [] ~T2tRefuses(t, cmd) /\ cmd.c = "write" -> [t EXCEPT !.data[cmd.n] = cmd.d[1]]
    [] ~T2tRefuses(t, cmd) /\ cmd.c = "write_cc" -> [t EXCEPT !.fmt = TRUE, !.ro = @ \/ cmd.n = 1]
    [] ~T2tRefuses(t, cmd) /\ cmd.c = "write_static" -> [t EXCEPT !.lock = TRUE]
    [] OTHER -> t

\* Refusing, it may halt.
T2tAfters(t, cmd) ==
  IF T2tRefuses(t, cmd) THEN {t, [t EXCEPT !.halt = TRUE]} ELSE {T2tAfter(t, cmd)}

T2tAnswer(t, cmd) ==
  CASE T2tRefuses(t, cmd) -> Nack
    [] cmd.c = "read_hdr" -> Answer("ok", IF t.fmt THEN "cc" ELSE "blank", IF t.ro THEN 1 ELSE 0,
                                    <<IF t.ver = 2 THEN "dynamic" ELSE "static">>)
    [] cmd.c = "read" -> Answer("ok", "block", IF cmd.n = 1 THEN t.len ELSE 0, <<t.data[cmd.n]>>)
    [] cmd.c = "read_locks" -> Answer("ok", "locks", 0, <<"locks">>)
    [] ~T2tRefuses(t, cmd) /\ cmd.c \notin T2tReads -> Ack

T2tTorn(t, cmd) ==
  {t, T2tAfter(t, cmd)}
    \cup (IF cmd.c = "write" THEN {T2tAfter(t, [cmd EXCEPT !.d = <<"torn">>])} ELSE {})

-------------------------------------------------------------------------------
(* Commands and the end of operations                                        *)

\* rw_t2t_send_cmd: the command is kept, to be sent again.
T2tSend(s, sub, cmd) ==
  [Step(s, sub, cmd) EXCEPT !.rw.last = <<cmd>>, !.rw.tries = 0]

\* rw_t2t_read, rw_t2t_write
T2tReadHdr(s) == T2tSend(s, "cc", Cmd("read_hdr", 0, <<>>))
T2tReadBlock(s, sub, n) == T2tSend(s, sub, Cmd("read", n, <<>>))
T2tReadLocks(s, sub) == T2tSend(s, sub, Cmd("read_locks", 0, <<>>))

\* rw_t2t_handle_op_complete
T2tOpComplete(s) ==
  [s EXCEPT !.rw.cache = IF s.rw.st \in {"read", "update"} THEN <<>> ELSE @,
            !.rw.st = IF @ = "halt" THEN @ ELSE "idle",
            !.rw.sub = ""]

T2tDone(s, ok, n, d) == Raise(T2tOpComplete(s), s.rw.st, ok, n, d)

\* The operation has failed; of a detection NFA is told whether it had come to the
\* lock bytes (RW_NDEF_FL_FORMATED).  A tag that refused and is silent has halted.
T2tFail(s, why) ==
  LET locks == s.rw.st = "detect" /\ s.rw.sub = "locks"
      t == IF why = "rejected" THEN [s EXCEPT !.rw.st = "halt"] ELSE s
  IN Raise(T2tOpComplete(t), s.rw.st, FALSE, IF locks THEN 1 ELSE 0, <<why>>)

\* rw_t2t_process_error
T2tProcessError(s) ==
  IF ~s.rw.nack /\ s.rw.tries < MaxRetries
  THEN [Send(s, s.rw.last[1]) EXCEPT !.rw.tries = @ + 1]
  ELSE T2tFail(s, IF s.rw.nack THEN "rejected" ELSE "timeout")

T2tCheckFails(s) == T2tFail(s, IF s.rw.nack THEN "rejected" ELSE "failed")

-------------------------------------------------------------------------------
(* Operations                                                                *)

\* rw_t2t_select
T2tSelect(s) == [s EXCEPT !.rw = [RwOff EXCEPT !.st = "idle"]]

\* RW_T2tDetectNDef, RW_T2tLocateTlv
RW_T2tDetectNDef(s, skip) ==
  LET e == [s EXCEPT !.rw.skip = skip]
      d == [e EXCEPT !.rw.st = "detect", !.rw.det = FALSE, !.rw.len = 0, !.rw.locks = FALSE]
  IN CASE s.rw.st # "idle" -> Refused(e)
       [] s.rw.st = "idle" /\ s.rw.hdr /\ ~s.rw.ccok -> Refused([e EXCEPT !.rw.hdr = FALSE])
       [] s.rw.st = "idle" /\ s.rw.hdr /\ s.rw.ccok -> Started(T2tReadBlock(d, "tlv", 1))
       [] s.rw.st = "idle" /\ ~s.rw.hdr -> Started(T2tReadHdr(d))

\* rw_t2t_handle_ndef_read_rsp: the message is collected in src.
T2tReadRsp(s, a) ==
  LET t == [s EXCEPT !.rw.src = @ \o a.d, !.rw.off = @ + 1]
  IN IF t.rw.off >= s.rw.len THEN T2tDone(t, TRUE, 0, t.rw.src)
     ELSE T2tReadBlock(t, "", t.rw.off + 1)

\* The first block may be known from the detection (tag_data, b_read_data).
Cached(s) == Answer("ok", "block", s.rw.len, s.rw.cache)

RW_T2tReadNDef(s) ==
  LET e == [s EXCEPT !.rw.st = "read", !.rw.sub = "", !.rw.off = 0, !.rw.src = <<>>]
  IN IF s.rw.st # "idle" \/ ~s.rw.det \/ s.nfa.cur < s.rw.len \/ s.rw.len = 0 THEN Refused(s)
     ELSE Started(IF s.rw.cache # <<>> THEN T2tReadRsp(e, Cached(s)) ELSE T2tReadBlock(e, "", 1))

\* rw_t2t_write_ndef_first_block, rw_t2t_update_cb: the length, 0 until the last
\* unit is on the tag, is written with the first unit.
WriteFirst(s, n) ==
  LET m == s.rw.src
      next == CASE n = 0 /\ Len(m) > 1 -> "w_next"
                [] n = 0 /\ Len(m) = 1 -> "w_last"
                [] n > 0 /\ Len(m) < Room -> "w_len"
                [] n > 0 /\ Len(m) = Room -> "w_done"
  IN [T2tSend(s, next, Cmd("write_first", n, <<m[1]>>)) EXCEPT !.rw.cache = <<>>, !.rw.off = 1]

\* rw_t2t_write_ndef_next_block
WriteNext(s) ==
  LET i == s.rw.off + 1
  IN [T2tSend(s, IF i = Len(s.rw.src) THEN "w_last" ELSE "w_next", Cmd("write", i, <<s.rw.src[i]>>))
        EXCEPT !.rw.off = i]

\* rw_t2t_read_ndef_last_block
ReadLast(s) == T2tReadBlock(s, "last", Len(s.rw.src))

RW_T2tWriteNDef(s, m) ==
  LET e == [s EXCEPT !.rw.st = "update", !.rw.src = m]
  IN IF s.rw.st # "idle" \/ ~s.rw.det \/ s.rw.ccro \/ Len(m) > Room THEN Refused(s)
     ELSE Started(IF s.rw.cache # <<>> THEN ReadLast(e) ELSE T2tReadBlock(e, "first", 1))

\* rw_t2t_soft_lock_tag
SoftLock(s) ==
  IF s.rw.ccro \/ (s.rw.hard /\ s.rw.dyn /\ ~s.rw.locks) THEN Refused(s)
  ELSE Started([T2tSend(s, "set_cc", Cmd("write_cc", 1, <<>>)) EXCEPT !.rw.st = "setro",
                                                                       !.rw.hdr = FALSE])

RW_T2tSetTagReadOnly(s, hard) ==
  LET e == [s EXCEPT !.rw.hard = hard]
      r == SoftLock(e)
  IN CASE s.rw.st # "idle" -> Refused(s)
       [] s.rw.st = "idle" /\ ~s.rw.hdr -> Started(T2tReadHdr([e EXCEPT !.rw.st = "setro"]))
       [] s.rw.st = "idle" /\ s.rw.hdr -> IF r.ok THEN r ELSE Refused([e EXCEPT !.rw.hdr = FALSE])

\* rw_t2t_format_tag, rw_t2t_set_cc
FormatTag(s) ==
  [T2tSend(s, "set_cc", Cmd("write_cc", 0, <<>>)) EXCEPT !.rw.st = "format", !.rw.hdr = FALSE]

RW_T2tFormatNDef(s) ==
  CASE s.rw.st # "idle" -> Refused(s)
    [] s.rw.st = "idle" /\ ~s.rw.hdr -> Started(T2tReadHdr([s EXCEPT !.rw.st = "format"]))
    [] s.rw.st = "idle" /\ s.rw.hdr -> Started(FormatTag(s))

RW_T2tPresenceCheck(s) ==
  CheckFirst(s, Started(T2tSend(Enter(s, "check", ""), "", Cmd("read_hdr", 0, <<>>))))

-------------------------------------------------------------------------------
(* Answers                                                                   *)

\* rw_t2t_ntf_tlv_detect_complete
DetectComplete(s, ok) ==
  T2tDone([s EXCEPT !.rw.ro = s.rw.ccro], ok, s.rw.len, IF ok THEN <<>> ELSE <<"failed">>)

\* rw_t2t_handle_tlv_detect_rsp: the block is kept for the read or write that follows.
TlvDetectRsp(s, a) ==
  LET t == [s EXCEPT !.rw.cache = a.d, !.rw.locks = s.rw.dyn]
      f == [t EXCEPT !.rw.det = TRUE, !.rw.len = a.n]
  IN CASE a.b # "block" -> DetectComplete(t, FALSE)
       [] a.b = "block" /\ (~s.rw.dyn \/ s.rw.ccro \/ s.rw.skip) -> DetectComplete(f, TRUE)
       [] a.b = "block" /\ s.rw.dyn /\ ~s.rw.ccro /\ ~s.rw.skip -> T2tReadLocks(f, "locks")

T2tDetectRsp(s, a) ==
  CASE s.rw.sub = "cc" ->
         IF s.rw.ccok THEN T2tReadBlock(s, "tlv", 1) ELSE DetectComplete(s, FALSE)
    [] s.rw.sub = "tlv" -> TlvDetectRsp(s, a)
    [] s.rw.sub = "locks" -> DetectComplete(s, TRUE)

\* rw_t2t_handle_ndef_write_rsp
T2tWriteRsp(s) ==
  CASE s.rw.sub = "first" -> ReadLast(s)
    [] s.rw.sub = "last" /\ Len(s.rw.src) < Room -> T2tReadBlock(s, "term", Len(s.rw.src) + 1)
    [] s.rw.sub = "term" \/ (s.rw.sub = "last" /\ Len(s.rw.src) = Room) -> WriteFirst(s, 0)
    [] s.rw.sub = "w_next" -> WriteNext(s)
    [] s.rw.sub = "w_last" -> WriteFirst(s, Len(s.rw.src))
    [] s.rw.sub = "w_len" -> T2tSend(s, "w_done", Cmd("write_term", 0, <<>>))
    [] s.rw.sub = "w_done" -> T2tDone([s EXCEPT !.rw.len = Len(s.rw.src)], TRUE, 0, <<>>)

SetStaticLocks(s) == T2tSend(s, "set_static", Cmd("write_static", 0, <<>>))

\* rw_t2t_handle_config_tag_readonly: when the header had to be read first, the
\* operation fails whether or not the lock was sent.
ConfigReadonlyRsp(s) ==
  CASE s.rw.sub = "cc" -> T2tDone(SoftLock(s).s, FALSE, 0, <<"failed">>)
    [] s.rw.sub = "set_cc" /\ ~s.rw.hard -> T2tDone([s EXCEPT !.rw.ccro = TRUE], TRUE, 0, <<>>)
    [] s.rw.sub = "set_cc" /\ s.rw.hard ->
         LET t == [s EXCEPT !.rw.ccro = TRUE]
         IN IF s.rw.locks THEN T2tReadLocks(t, "read_dyn") ELSE SetStaticLocks(t)
    [] s.rw.sub = "read_dyn" -> T2tSend(s, "set_dyn", Cmd("write_locks", 0, <<>>))
    [] s.rw.sub = "set_dyn" -> SetStaticLocks(s)
    [] s.rw.sub = "set_static" -> T2tDone(s, TRUE, 0, <<>>)

\* rw_t2t_handle_format_tag_rsp
FormatTagRsp(s) ==
  CASE s.rw.sub = "cc" -> FormatTag(s)
    [] s.rw.sub = "set_cc" ->
         [T2tSend(s, "null", Cmd("write_first", 0, <<"x">>)) EXCEPT !.rw.cache = <<>>]
    [] s.rw.sub = "null" -> T2tDone(s, TRUE, 0, <<>>)

\* rw_t2t_handle_rsp: a header that was waited for is kept.
T2tRsp(s0, a) ==
  LET s == IF s0.rw.sub = "cc"
           THEN [s0 EXCEPT !.rw.hdr = TRUE, !.rw.ccok = (a.b = "cc"), !.rw.ccro = (a.n = 1),
                           !.rw.dyn = (a.d = <<"dynamic">>)]
           ELSE s0
  IN CASE s.rw.st = "detect" -> T2tDetectRsp(s, a)
       [] s.rw.st = "read"   -> T2tReadRsp(s, a)
       [] s.rw.st = "update" -> T2tWriteRsp(s)
       [] s.rw.st = "setro"  -> ConfigReadonlyRsp(s)
       [] s.rw.st = "format" -> FormatTagRsp(s)
       [] s.rw.st = "check"  -> T2tDone(s, TRUE, 0, <<>>)

\* A NACK: the command is sent once more, to find out whether the tag has halted.
T2tNacked(s) ==
  IF s.rw.nack THEN T2tFail([s EXCEPT !.rw.nack = FALSE], "failed")
  ELSE [T2tProcessError(s) EXCEPT !.rw.nack = TRUE]

\* rw_t2t_proc_data.  Data has 16 bytes; an ACK and a NACK are as long as each
\* other, so that either is a NACK to a read.
T2tData(s0, a) ==
  LET reads == s0.rw.last # <<>> /\ s0.rw.last[1].c \in T2tReads
      wrong == ~reads /\ a.b # "short"
      refused == (reads /\ a.b = "short") \/ a.sw = "nack"
      s == [s0 EXCEPT !.rw.timer = FALSE]
      fresh == [s EXCEPT !.rw.tries = 0]
  IN CASE s.rw.st = "off"  -> s0
       [] s.rw.st = "idle" -> Raise(s0, "raw", TRUE, 0, a.d)
       [] s.rw.st = "halt" -> s
       [] s.rw.st \notin {"off", "idle", "halt"} ->
            CASE wrong -> [T2tProcessError(s) EXCEPT !.rw.nack = FALSE]
              [] ~wrong /\ refused -> T2tNacked(fresh)
              [] ~wrong /\ ~refused -> T2tRsp([fresh EXCEPT !.rw.nack = FALSE], a)

\* rw_t2t_conn_cback for NFC_ERROR_CEVT
T2tError(s) ==
  LET t == [s EXCEPT !.rw.timer = FALSE]
  IN CASE s.rw.st = "off" -> s
       [] s.rw.st \in {"idle", "halt"} -> Raise(s, "interface", FALSE, 0, <<>>)
       [] s.rw.st = "check" -> T2tCheckFails(t)
       [] s.rw.st \notin {"off", "idle", "halt", "check"} -> T2tProcessError(t)

\* rw_t2t_process_timeout
T2tTimeout(s) ==
  LET t == [s EXCEPT !.rw.timer = FALSE]
  IN CASE s.rw.st \in {"off", "idle"} -> t
       [] s.rw.st = "check" -> T2tCheckFails(t)
       [] s.rw.st \notin {"off", "idle", "check"} -> T2tProcessError(t)

===============================================================================
