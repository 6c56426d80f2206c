-------------------------------- MODULE RwT1t --------------------------------
(***************************************************************************)
(* The reader and writer of Type 1 tags (nfc/tags/rw_t1t.c,                *)
(* rw_t1t_ndef.c) and the tag itself (external).  A static tag (ver 1) is  *)
(* read in one command and written a byte at a time, a dynamic one (ver 2) *)
(* in segments and blocks; a unit is a byte or a block.  Segment 0 of a    *)
(* dynamic tag holds the first unit.                                       *)
(*                                                                         *)
(* The first byte of the CC, NMN, says that there is a message; it is 0    *)
(* while one is written.  A command is repeated when it is not answered    *)
(* rightly, and the answers to repetitions are then expected and dropped   *)
(* (prev).  A write is answered with an echo, at which nobody looks.       *)
(*                                                                         *)
(* Left out are static tags that take the commands of dynamic ones         *)
(* (RW_T1T_HR1_MIN), reserved memory, long messages and raw commands.      *)
(***************************************************************************)
EXTENDS RwCore

\* nmn: NMN is set; cc: the rest of the CC is valid; tlv: there is an NDEF TLV; lock:
\* the lock bits are set; far: lock bytes of a dynamic tag lie beyond segment 0.
T1tNew(fmt) ==
  [type |-> "t1t", nmn |-> fmt, cc |-> fmt, tlv |-> fmt, ro |-> FALSE, lock |-> FALSE, far |-> fmt,
   len |-> IF fmt THEN Len(Old) ELSE 0, data |-> Old \o [i \in 1..Room - Len(Old) |-> "x"]]

T1tReadable(t) == IF t.nmn /\ t.tlv THEN SubSeq(t.data, 1, t.len) ELSE <<>>

\* Addresses: bytes of a static tag, and blocks of a dynamic one.
NMN == 0
RWA == 1
LEN == 2
Byte(i) == LEN + i
LockByte == 20
CcBlock == 1
Header == 2
Block(i) == IF i = 1 THEN Header ELSE 14 + i
Block0E == 14
FarLocks == 15

WriteByte(addr, v) == Cmd("write_e", addr, <<v>>)
\* With the length of a message, its block takes the first unit.
First(m) == IF m = <<>> THEN "x" ELSE m[1]
WriteBlock(addr, v) == Cmd("write_e8", addr, v)
OrByte(addr, v) == Cmd("write_ne", addr, <<v>>)
OrBlock(addr) == Cmd("write_ne8", addr, <<>>)

-------------------------------------------------------------------------------
(* The tag                                                                   *)

IsByteWrite(cmd) == cmd.c \in {"write_e", "write_ne"}
IsBlockWrite(cmd) == cmd.c \in {"write_e8", "write_ne8"}

T1tAfter(t, cmd) ==
  CASE t.lock \/ ~(IsByteWrite(cmd) \/ IsBlockWrite(cmd)) -> t
    [] ~t.lock /\ IsByteWrite(cmd) ->
         CASE cmd.n = NMN -> [t EXCEPT !.nmn = (cmd.d[1] = "set")]
           [] cmd.n = RWA -> [t EXCEPT !.cc = TRUE, !.ro = (cmd.d[1] = "ro")]
           [] cmd.n = LEN -> [t EXCEPT !.tlv = TRUE, !.len = Len(cmd.d)]
           [] cmd.n >= LockByte -> [t EXCEPT !.lock = TRUE]
           [] OTHER -> [t EXCEPT !.data[cmd.n - LEN] = cmd.d[1]]
    [] ~t.lock /\ IsBlockWrite(cmd) ->
         CASE cmd.n = CcBlock -> [t EXCEPT !.nmn = TRUE, !.cc = TRUE, !.ro = FALSE, !.far = FALSE]
           [] cmd.n = Header -> [t EXCEPT !.tlv = TRUE, !.len = Len(cmd.d), !.data[1] = First(cmd.d)]
           [] cmd.n = Block0E -> [t EXCEPT !.lock = TRUE]
           [] cmd.n = FarLocks -> t
           [] OTHER -> [t EXCEPT !.data[cmd.n - 14] = cmd.d[1]]

\* An answer's code is that of its length; n is the address in it.
Memory(t) ==
  [nmn |-> t.nmn, cc |-> t.cc, tlv |-> t.tlv, ro |-> t.ro, far |-> t.far, len |-> t.len, data |-> t.data]

RspLen(cmd) ==
  CASE cmd.c \in {"rid", "rall", "rseg"} -> cmd.c
    [] IsByteWrite(cmd) -> "byte"
    [] OTHER -> "block"

T1tAnswer(t, cmd) ==
  Answer("ok", RspLen(cmd), cmd.n,
         CASE cmd.c \in {"rall", "rseg"} -> <<Memory(t)>>
           [] cmd.c = "read8" /\ cmd.n > FarLocks -> <<t.data[cmd.n - 14]>>
           [] OTHER -> <<>>)

\* A byte is written or not, a block perhaps in part.
T1tTorn(t, cmd) ==
  {t, T1tAfter(t, cmd)}
    \cup (IF cmd.c = "write_e8" /\ ~t.lock
          THEN {CASE cmd.n = CcBlock -> [t EXCEPT !.nmn = TRUE]
                  [] cmd.n = Header -> [T1tAfter(t, cmd) EXCEPT !.data[1] = "torn"]
                  [] OTHER -> T1tAfter(t, [cmd EXCEPT !.d = <<"torn">>])}
          ELSE {})

-------------------------------------------------------------------------------
(* Commands and the end of operations                                        *)

IsDynamic(s) == s.rw.ver = 2

\* rw_t1t_send_static_cmd, rw_t1t_send_dyn_cmd
T1tSend(s, sub, cmd) ==
  [Step(s, sub, cmd) EXCEPT !.rw.last = <<cmd>>, !.rw.tries = 0]

ReadStart(s, st) ==
  T1tSend([s EXCEPT !.rw.st = st], "",
          IF IsDynamic(s) THEN Cmd("rseg", 0, <<>>) ELSE Cmd("rall", 0, <<>>))

\* rw_t1t_handle_op_complete
T1tOpComplete(s) == [s EXCEPT !.rw.st = "idle", !.rw.sub = ""]

\* The event is that of the state (rw_t1t_info_to_event); n says that a tag without
\* a message can be formatted.
T1tDone(s, ok, n, d) == Raise(T1tOpComplete(s), s.rw.st, ok, n, d)

\* The answers that may still come to repetitions of a command.
Pending(cmd, k) == <<[cmd |-> cmd, pend |-> k]>>

\* rw_t1t_process_error.  The event of a failed detection has no flags: NFA reads what
\* lies behind it (junk).
T1tProcessError(s, junk) ==
  IF s.rw.tries < MaxRetries
  THEN [Send(s, s.rw.last[1]) EXCEPT !.rw.tries = @ + 1]
  ELSE T1tDone([s EXCEPT !.rw.prev = Pending(s.rw.last[1], MaxRetries)], FALSE,
               IF junk THEN 1 ELSE 0, <<>>)

\* rw_t1t_update_tag_state: what the CC says, and the length that is known.
TagAttribute(mem, len) ==
  CASE mem = <<>> \/ (mem # <<>> /\ ~mem[1].cc) -> "unknown"
    [] mem # <<>> /\ mem[1].cc /\ len = 0 -> "init"
    [] mem # <<>> /\ mem[1].cc /\ len > 0 -> IF mem[1].ro THEN "ro" ELSE "rw"

-------------------------------------------------------------------------------
(* Operations                                                                *)

\* rw_t1t_select
T1tSelect(s, ver) == [s EXCEPT !.rw = [RwOff EXCEPT !.st = "idle", !.ver = ver]]

RW_T1tRid(s) ==
  IF s.rw.st # "idle" THEN Refused(s)
  ELSE Started(T1tSend(Enter(s, "codes", ""), "", Cmd("rid", 0, <<>>)))

RW_T1tPresenceCheck(s) ==
  CheckFirst(s, Started(T1tSend(Enter(s, "check", ""), "", Cmd("rid", 0, <<>>))))

\* RW_T1tLocateTlv of the lock bytes, and of the message: RW_T1tDetectNDef.
RW_T1tLocateTlv(s, st) ==
  IF s.rw.st # "idle" THEN Refused(s) ELSE Started(ReadStart([s EXCEPT !.rw.dyn = FALSE], st))

RW_T1tDetectNDef(s) == RW_T1tLocateTlv(s, "detect")

RW_T1tReadNDef(s) ==
  IF s.rw.st # "idle" \/ s.rw.attr \notin {"rw", "ro"} \/ s.nfa.cur < s.rw.len THEN Refused(s)
  ELSE Started(ReadStart(s, "read"))

InvalidateNdef(s) == T1tSend(s, "invalidate", WriteByte(NMN, "zero"))

RW_T1tWriteNDef(s, m) ==
  LET e == [s EXCEPT !.rw.st = "update", !.rw.src = m, !.rw.off = 0]
  IN IF s.rw.st # "idle" \/ s.rw.attr \notin {"rw", "empty"} \/ Len(m) > Room THEN Refused(s)
     ELSE Started(IF IsDynamic(s) THEN T1tSend(e, "final", Cmd("read8", Block(Len(m)), <<>>))
                  ELSE InvalidateNdef(e))

RW_T1tSetTagReadOnly(s, hard) ==
  IF s.rw.st # "idle" \/ s.rw.attr \notin {"rw", "init", "empty"} THEN Refused(s)
  ELSE Started(T1tSend([s EXCEPT !.rw.st = "setro", !.rw.hard = hard, !.rw.upd = s.rw.dyn],
                       "rwa", OrByte(RWA, "ro")))

\* The CC, the other TLVs of a dynamic tag, and an empty message.
RW_T1tFormatNDef(s) ==
  LET e == [s EXCEPT !.rw.st = "format"]
  IN IF s.rw.st # "idle" THEN Refused(s)
     ELSE Started(IF IsDynamic(s) THEN T1tSend(e, "cc", WriteBlock(CcBlock, <<>>))
                  ELSE T1tSend(e, "nmn", WriteByte(NMN, "set")))

-------------------------------------------------------------------------------
(* Answers                                                                   *)

\* The memory that was read is kept (mem).  The attribute of the tag is set from it;
\* with segment 0 before that, from what was there.
Copied(s, a) ==
  LET now == <<[cc |-> a.d[1].cc, ro |-> a.d[1].ro]>>
  IN [s EXCEPT !.rw.cache = now,
               !.rw.attr = TagAttribute(IF a.b = "rall" THEN now ELSE s.rw.cache, s.rw.len)]

\* rw_t1t_read_locks
ReadLocks(s, far, n) ==
  IF far THEN T1tSend(s, "locks", Cmd("read8", FarLocks, <<>>)) ELSE T1tDone(s, TRUE, n, <<>>)

\* rw_t1t_handle_read_rsp, rw_t1t_handle_tlv_detect_rsp: NDEF is looked for if NMN is
\* set.  An empty message is one that was initialised.
T1tDetectRsp(s, a) ==
  LET m == a.d[1]
      t == Copied(s, a)
      found == [t EXCEPT !.rw.len = m.len, !.rw.ro = m.ro, !.rw.dyn = IsDynamic(s),
                         !.rw.attr = IF m.len = 0 THEN "empty" ELSE TagAttribute(t.rw.cache, m.len)]
  IN CASE ~m.nmn -> T1tDone(t, FALSE, 1, <<>>)
       [] m.nmn /\ ~m.tlv -> T1tDone([t EXCEPT !.rw.attr = "init"], FALSE, 1, <<>>)
       [] m.nmn /\ m.tlv -> ReadLocks(found, IsDynamic(s) /\ m.far, m.len)

\* Only a dynamic tag has lock bytes to be found.
LocksRsp(s, a) ==
  LET m == a.d[1]
      found == IsDynamic(s) /\ m.cc
      t == [Copied(s, a) EXCEPT !.rw.dyn = found]
  IN IF found THEN ReadLocks(t, m.far, 0) ELSE T1tDone(t, FALSE, 0, <<>>)

\* rw_t1t_handle_ndef_rall_rsp, rw_t1t_handle_ndef_read_rsp: as much as was detected.
T1tReadRsp(s, a) ==
  LET m == a.d[1]
      t == [Copied(s, a) EXCEPT !.rw.src = <<m.data[1]>>]
  IN CASE a.b = "rall" -> T1tDone(Copied(s, a), TRUE, 0, SubSeq(m.data, 1, s.rw.len))
       [] a.b = "rseg" -> IF s.rw.len = 1 THEN T1tDone(t, TRUE, 0, t.rw.src)
                          ELSE T1tSend(t, "rest", Cmd("read8", Block(2), <<>>))
       [] a.b = "block" -> T1tDone(s, TRUE, 0, s.rw.src \o a.d)

\* rw_t1t_ndef_write_first_block: the length, and what else is in its block.
WriteFirstBlock(s) ==
  LET m == s.rw.src
  IN IF IsDynamic(s)
     THEN [T1tSend(s, IF Len(m) = 1 THEN "updated" ELSE "write", Cmd("write_e8", Header, m))
             EXCEPT !.rw.off = 1]
     ELSE T1tSend(s, "write", Cmd("write_e", LEN, m))

\* rw_t1t_next_ndef_write_block
NextNdefWriteBlock(s) ==
  LET i == s.rw.off + 1
      unit == s.rw.src[i]
  IN [T1tSend(s, IF i = Len(s.rw.src) THEN "updated" ELSE "write",
              IF IsDynamic(s) THEN WriteBlock(Block(i), <<unit>>) ELSE WriteByte(Byte(i), unit))
        EXCEPT !.rw.off = i]

ValidateNdef(s) == T1tSend(s, "validate", WriteByte(NMN, "set"))

\* rw_t1t_handle_ndef_write_rsp
T1tUpdateRsp(s) ==
  CASE s.rw.sub = "final"      -> InvalidateNdef(s)
    [] s.rw.sub = "invalidate" -> WriteFirstBlock(s)
    [] s.rw.sub = "write"      -> NextNdefWriteBlock(s)
    [] s.rw.sub = "updated"    -> ValidateNdef(s)
    [] s.rw.sub = "validate"   ->
         T1tDone([s EXCEPT !.rw.len = Len(s.rw.src), !.rw.attr = "rw"], TRUE, 0, <<>>)

\* rw_t1t_handle_write_rsp: the lock bits are set last.
T1tSetRoRsp(s) ==
  CASE s.rw.sub = "rwa" /\ ~s.rw.hard -> T1tDone(s, TRUE, 0, <<>>)
    [] s.rw.sub = "rwa" /\ s.rw.hard ->
         IF IsDynamic(s) THEN T1tSend(s, "dyn", OrBlock(Block0E))
         ELSE T1tSend(s, "st", OrByte(LockByte, "all"))
    [] s.rw.sub = "st" -> T1tSend(s, "dyn", OrByte(LockByte + 1, "all"))
    [] s.rw.sub = "dyn" /\ s.rw.upd ->
         T1tSend([s EXCEPT !.rw.upd = FALSE], "dyn", OrBlock(FarLocks))
    [] s.rw.sub = "dyn" /\ ~s.rw.upd -> T1tDone(s, TRUE, 0, <<>>)

T1tFormatRsp(s) ==
  CASE s.rw.sub = "cc"   -> T1tSend(s, "null", Cmd("write_e8", Header, <<>>))
    [] s.rw.sub = "nmn"  -> T1tSend(s, "rwa", WriteByte(RWA, "rw"))
    [] s.rw.sub = "rwa"  -> T1tSend(s, "null", Cmd("write_e", LEN, <<>>))
    [] s.rw.sub = "null" -> T1tDone(s, TRUE, 0, <<>>)

\* rw_t1t_handle_rsp, rw_t1t_handle_rid_rsp
T1tRsp(s, a) ==
  CASE s.rw.st = "detect" -> IF s.rw.sub = "locks" THEN T1tDone(s, TRUE, s.rw.len, <<>>)
                             ELSE T1tDetectRsp(s, a)
    [] s.rw.st = "tlv"    -> IF s.rw.sub = "locks" THEN T1tDone(s, TRUE, 0, <<>>) ELSE LocksRsp(s, a)
    [] s.rw.st = "read"   -> T1tReadRsp(s, a)
    [] s.rw.st = "update" -> T1tUpdateRsp(s)
    [] s.rw.st = "setro"  -> T1tSetRoRsp(s)
    [] s.rw.st = "format" -> T1tFormatRsp(s)
    [] s.rw.st \in {"codes", "check"} -> T1tDone(s, TRUE, 0, <<>>)

\* The length and the address are those of the answer to a command.
Fits(a, cmd) == a.b = RspLen(cmd) /\ (cmd.c \notin {"rid", "rall"} => a.n = cmd.n)

FitsPrev(s, a) ==
  s.rw.prev # <<>> /\ s.rw.prev[1].pend > 0 /\ Fits(a, s.rw.prev[1].cmd)

\* Of the answers expected to the command before, and to the one that is answered.
NextPrev(s) ==
  CASE s.rw.tries > 0 -> Pending(s.rw.last[1], s.rw.tries)
    [] s.rw.tries = 0 /\ s.rw.prev # <<>> /\ s.rw.prev[1].pend > 0 -> <<>>
    [] OTHER -> s.rw.prev

\* rw_t1t_data_cback
T1tData(s, a) ==
  LET late == [s EXCEPT !.rw.prev[1].pend = @ - 1]
      stopped == [s EXCEPT !.rw.timer = FALSE]
  IN CASE s.rw.st = "off" -> s
       [] s.rw.st = "idle" -> IF FitsPrev(s, a) THEN late ELSE Raise(s, "raw", TRUE, 0, <<>>)
       [] s.rw.st \notin {"off", "idle"} /\ ~Fits(a, s.rw.last[1]) ->
            IF FitsPrev(s, a) THEN late ELSE T1tProcessError(stopped, FALSE)
       [] s.rw.st \notin {"off", "idle"} /\ Fits(a, s.rw.last[1]) ->
            T1tRsp([stopped EXCEPT !.rw.prev = NextPrev(s), !.rw.tries = 0], a)

\* rw_t1t_handle_presence_check_rsp
T1tCheckFails(s) == T1tDone(s, FALSE, 0, <<>>)

\* rw_t1t_conn_cback for NFC_ERROR_CEVT
T1tError(s, junk) ==
  LET t == [s EXCEPT !.rw.timer = FALSE]
  IN CASE s.rw.st \in {"off", "idle"} -> Raise(s, "interface", FALSE, 0, <<>>)
       [] s.rw.st = "check" -> T1tCheckFails(t)
       [] s.rw.st \notin {"off", "idle", "check"} -> T1tProcessError(t, junk)

\* rw_t1t_process_timeout
T1tTimeout(s, junk) ==
  LET t == [s EXCEPT !.rw.timer = FALSE]
  IN CASE s.rw.st \in {"off", "idle"} -> t
       [] s.rw.st = "check" -> T1tCheckFails(t)
       [] s.rw.st \notin {"off", "idle", "check"} -> T1tProcessError(t, junk)

===============================================================================
