-------------------------------- MODULE RwI93 --------------------------------
(***************************************************************************)
(* The reader and writer of ISO 15693 tags (nfc/tags/rw_i93.c), and the    *)
(* tag itself (external).  Block 0 is the capability container; block 1    *)
(* holds the length and the first unit of the message, each further block  *)
(* a unit.  Blocks can be locked one by one.                               *)
(*                                                                         *)
(* A command that is not answered, or answered by an error of the NFCC, is *)
(* sent again, except in a presence check.                                 *)
(*                                                                         *)
(* One block is read per command.  The length has one byte, the TLV starts *)
(* with a block and does not end with one; DSFID and AFI are as formatting *)
(* leaves them.  Tag-it HF-I tags, which get special treatment, and STM    *)
(* tags that hide their size without an error are left out.                *)
(***************************************************************************)
EXTENDS RwCore

\* ver 1: an STM tag, which gives its size only when asked with the protocol extension,
\* and tells of all locks at once; ver 2: an NXP tag, which tells of a lock with the
\* block.  halt: it was told to stay quiet.
I93New == [type |-> "i93", ro |-> FALSE, locks |-> {}, halt |-> FALSE, len |-> Len(Old),
           data |-> Old \o [i \in 1..Room - Len(Old) |-> "x"]]

I93Readable(t) == IF t.fmt THEN SubSeq(t.data, 1, t.len) ELSE <<>>

I93Reset(t) == [t EXCEPT !.halt = FALSE]

-------------------------------------------------------------------------------
(* The tag                                                                   *)

\* The block that a command alters, if it does.
I93Target(cmd) ==
  CASE cmd.c = "write_cc" -> {0}
    [] cmd.c = "write_first" -> {1}
    [] cmd.c \in {"write", "lock"} -> {cmd.n}
    [] OTHER -> {}

I93Refuses(t, cmd) == I93Target(cmd) \cap t.locks # {}

I93After(t, cmd) ==
  CASE I93Refuses(t, cmd) -> t
    [] ~I93Refuses(t, cmd) /\ cmd.c = "write_cc" -> [t EXCEPT !.fmt = TRUE, !.ro = (cmd.n = 1)]
    [] ~I93Refuses(t, cmd) /\ cmd.c = "write_first" ->
         [t EXCEPT !.len = cmd.n, !.data[1] = cmd.d[1]]
    [] ~I93Refuses(t, cmd) /\ cmd.c = "write" -> [t EXCEPT !.data[cmd.n] = cmd.d[1]]
    [] ~I93Refuses(t, cmd) /\ cmd.c = "lock" -> [t EXCEPT !.locks = @ \cup {cmd.n}]
    [] cmd.c = "quiet" -> [t EXCEPT !.halt = TRUE]
    [] OTHER -> t

I93Lock(t, n) == IF n \in t.locks THEN "locked" ELSE "open"

I93Answer(t, cmd) ==
  CASE I93Refuses(t, cmd) -> Answer("error", "short", 0, <<>>)
    [] cmd.c = "sys" -> IF t.ver = 1 /\ cmd.n = 0 THEN Answer("error", "option", 0, <<>>)
                        ELSE Answer("ok", "sys", 0, <<>>)
    [] cmd.c = "inventory" -> Answer("ok", "uid", 0, <<"uid">>)
    [] cmd.c = "read_cc" -> Answer("ok", IF t.fmt THEN "cc" ELSE "blank", IF t.ro THEN 1 ELSE 0,
                                   <<"cc">>)
    [] cmd.c \in {"read", "block"} ->
         Answer("ok", "block", IF cmd.n = 1 THEN t.len ELSE 0, <<t.data[cmd.n]>>)
    [] cmd.c = "read_sec" -> Answer("ok", "sec", 0, <<I93Lock(t, cmd.n)>>)
    [] cmd.c = "get_sec" -> Answer("ok", "sec", 0, [i \in 1..Room + 1 |-> I93Lock(t, i - 1)])
    [] ~I93Refuses(t, cmd) /\ I93Target(cmd) # {} -> Answer("ok", "short", 0, <<>>)

I93Torn(t, cmd) ==
  {t, I93After(t, cmd)}
    \cup (IF cmd.c = "write" THEN {I93After(t, [cmd EXCEPT !.d = <<"torn">>])} ELSE {})

-------------------------------------------------------------------------------
(* Commands                                                                  *)

\* rw_i93_send_to_lower keeps the command, to send it again.
I93Send(s, sub, cmd) == [Step(s, sub, cmd) EXCEPT !.rw.last = <<cmd>>, !.rw.cmd = cmd.c]

\* rw_i93_send_cmd_get_sys_info; ext: with the protocol extension flag.
GetSysInfo(s, sub, ext) == I93Send(s, sub, Cmd("sys", ext, <<>>))

ReadCc(s) == I93Send(s, "cc", Cmd("read_cc", 0, <<>>))
Inventory(s, sub) == I93Send(s, sub, Cmd("inventory", 0, <<>>))
ReadSingleBlock(s, sub, n) == I93Send(s, sub, Cmd("read", n, <<>>))
WriteCc(s, sub, readOnly) == I93Send(s, sub, Cmd("write_cc", readOnly, <<>>))
WriteLenBlock(s, sub, n, d) == I93Send(s, sub, Cmd("write_first", n, d))
LockBlock(s, sub, n) == I93Send(s, sub, Cmd("lock", n, <<>>))

\* The locks from block n on: of all blocks, or of one that is read for it.
AskLocks(s, sub, n) ==
  [I93Send(s, sub, IF s.rw.ver = 1 THEN Cmd("get_sec", 0, <<>>) ELSE Cmd("read_sec", n, <<>>))
     EXCEPT !.rw.off = n]

-------------------------------------------------------------------------------
(* Operations                                                                *)

\* rw_i93_select; the product is known from the UID.
I93Select(s, ver) == [s EXCEPT !.rw = [RwOff EXCEPT !.st = "idle", !.ver = ver]]

\* RW_I93GetSysInfo, RW_I93ReadSingleBlock, RW_I93StayQuiet and the rest of the
\* commands an application may send by itself.
RW_I93Command(s, c) ==
  IF s.rw.st # "idle" THEN Refused(s)
  ELSE Started([I93Send(s, "", Cmd(c, IF c = "sys" THEN 0 ELSE 1, <<>>)) EXCEPT !.rw.st = "busy"])

\* The size of the tag (hdr) is asked for once.
RW_I93DetectNDef(s) ==
  LET e == [s EXCEPT !.rw.st = "detect", !.rw.ro = FALSE]
  IN IF s.rw.st # "idle" THEN Refused(s)
     ELSE Started(IF s.rw.hdr THEN ReadCc(e) ELSE GetSysInfo(e, "sys", 0))

RW_I93ReadNDef(s) ==
  IF s.rw.st # "idle" \/ ~s.rw.det \/ s.rw.len = 0 THEN Refused(s)
  ELSE Started(ReadSingleBlock([s EXCEPT !.rw.st = "read", !.rw.off = 0], "", 1))

RW_I93UpdateNDef(s, m) ==
  IF s.rw.st # "idle" \/ ~s.rw.det \/ s.rw.ro \/ Len(m) > Room THEN Refused(s)
  ELSE Started(ReadSingleBlock([s EXCEPT !.rw.st = "update", !.rw.len = Len(m), !.rw.src = m,
                                         !.rw.upd = TRUE, !.rw.off = 0], "reset_len", 1))

RW_I93FormatNDef(s) ==
  IF s.rw.st # "idle" THEN Refused(s)
  ELSE Started(Inventory([s EXCEPT !.rw.st = "format", !.rw.ro = FALSE], "uid"))

RW_I93SetTagReadOnly(s) ==
  IF s.rw.st # "idle" \/ ~s.rw.det \/ s.rw.ro THEN Refused(s)
  ELSE Started(ReadCc([s EXCEPT !.rw.st = "setro"]))

RW_I93PresenceCheck(s) ==
  CASE s.rw.st = "off"  -> Started(HandlePresenceCheckRsp(s, FALSE))
    [] s.rw.st = "idle" -> Started([Inventory(s, "") EXCEPT !.rw.st = "check",
                                                            !.rw.tries = MaxRetries])
    [] s.rw.st \notin {"off", "idle"} -> Refused(s)

-------------------------------------------------------------------------------
(* Answers                                                                   *)

\* rw_i93_handle_error.  Nothing answers the command to stay quiet.
I93HandleError(s, status) ==
  LET quiet == s.rw.st = "busy" /\ s.rw.cmd = "quiet"
      e == CASE quiet -> "i93"
             [] ~quiet /\ s.rw.st \in {"idle", "busy"} -> "interface"
             [] s.rw.st = "off" -> "none"
             [] s.rw.st \notin {"off", "idle", "busy"} -> s.rw.st
      ok == quiet \/ (status /\ s.rw.st \in {"detect", "format", "setro", "check"})
  IN Raise([s EXCEPT !.rw.timer = FALSE, !.rw.st = "idle", !.rw.cmd = ""], e, ok, 0, <<>>)

I93Done(s, n, d) == Raise([s EXCEPT !.rw.st = "idle", !.rw.cmd = ""], s.rw.st, TRUE, n, d)

\* rw_i93_check_sys_info_prot_ext
NeedsExtension(s, a) == a.b = "option" /\ s.rw.cmd = "sys" /\ s.rw.ver = 1

\* The error of a tag: the size is asked for once more, or the operation has failed.
I93TagError(s, a) ==
  IF NeedsExtension(s, a) THEN GetSysInfo(s, s.rw.sub, 1) ELSE I93HandleError(s, FALSE)

\* rw_i93_send_to_upper
I93SendToUpper(s, a) ==
  CASE a.sw = "error" /\ NeedsExtension(s, a) -> GetSysInfo(s, s.rw.sub, 1)
    [] a.sw = "error" /\ ~NeedsExtension(s, a) ->
         Raise([s EXCEPT !.rw.st = "idle", !.rw.cmd = ""], "i93", FALSE, 0, <<>>)
    [] a.sw = "ok" -> Raise([s EXCEPT !.rw.st = "idle", !.rw.cmd = "",
                                      !.rw.hdr = @ \/ s.rw.cmd = "sys"], "i93", TRUE, 0, a.d)

\* The locks of the message make the tag read-only.
CheckLocks(s, a) ==
  LET n == s.rw.off
      locked == IF s.rw.ver = 1 THEN \E b \in 1..s.rw.rem : a.d[b + 1] = "locked"
                ELSE n <= s.rw.rem /\ a.d[1] = "locked"
      t == [s EXCEPT !.rw.ro = @ \/ locked]
  IN IF s.rw.ver = 1 \/ a.d[1] = "locked" \/ n = Room THEN I93Done(t, t.rw.len, <<>>)
     ELSE AskLocks(t, "locks", n + 1)

\* rw_i93_sm_detect_ndef; rem: the block in which the message ends.
I93SmDetectNdef(s, a) ==
  CASE a.sw = "error" -> I93TagError(s, a)
    [] a.sw = "ok" /\ s.rw.sub = "sys" -> ReadCc([s EXCEPT !.rw.hdr = TRUE])
    [] a.sw = "ok" /\ s.rw.sub = "cc" ->
         IF a.b = "cc" THEN ReadSingleBlock([s EXCEPT !.rw.ro = (a.n = 1)], "tlv", 1)
         ELSE I93HandleError(s, FALSE)
    [] a.sw = "ok" /\ s.rw.sub = "tlv" ->
         AskLocks([s EXCEPT !.rw.det = TRUE, !.rw.len = a.n, !.rw.rem = IF a.n = 0 THEN 1 ELSE a.n],
                  "locks", 1)
    [] a.sw = "ok" /\ s.rw.sub = "locks" -> CheckLocks(s, a)

\* rw_i93_sm_read_ndef
I93SmReadNdef(s, a) ==
  LET t == [s EXCEPT !.rw.off = @ + 1]
  IN CASE a.sw = "error" -> I93HandleError(s, FALSE)
       [] a.sw = "ok" /\ t.rw.off >= s.rw.len -> I93Done(t, 0, a.d)
       [] a.sw = "ok" /\ t.rw.off < s.rw.len ->
            ReadSingleBlock(Raise(t, "data", TRUE, 0, a.d), "", t.rw.off + 1)

\* The next block of the message (off is the last one written), a terminator behind it
\* if it ends where the last one did, and then the block of the length.
WriteNdefBlock(s) ==
  LET n == s.rw.off + 1
      data == n <= Len(s.rw.src)
      t == [s EXCEPT !.rw.off = n]
  IN CASE n <= Room /\ data ->
            I93Send([t EXCEPT !.rw.rem = IF n = Len(s.rw.src) THEN n ELSE @], "write",
                    Cmd("write", n, <<s.rw.src[n]>>))
       [] n <= Room /\ ~data /\ n = s.rw.rem + 1 -> I93Send(t, "write", Cmd("write", n, <<"x">>))
       [] ~data /\ (n > Room \/ n # s.rw.rem + 1) -> ReadSingleBlock(s, "update_len", 1)
       [] n > Room /\ data -> I93HandleError(s, FALSE)

\* rw_i93_sm_update_ndef: the length is 0 until the last unit is on the tag.
I93SmUpdateNdef(s, a) ==
  CASE a.sw = "error" -> I93HandleError(s, FALSE)
    [] a.sw = "ok" /\ s.rw.sub = "reset_len" ->
         [WriteLenBlock(s, "write", 0, <<s.rw.src[1]>>) EXCEPT !.rw.off = 1]
    [] a.sw = "ok" /\ s.rw.sub = "write" -> WriteNdefBlock(s)
    [] a.sw = "ok" /\ s.rw.sub = "update_len" ->
         IF s.rw.upd THEN [WriteLenBlock(s, "update_len", s.rw.len, a.d) EXCEPT !.rw.upd = FALSE]
         ELSE I93Done(s, 0, <<>>)

\* With a lock found among many the operation is over, but it goes on.
CheckReadOnly(s, a) ==
  LET locked == \E i \in DOMAIN a.d : a.d[i] = "locked"
      t == IF locked THEN I93HandleError(s, FALSE) ELSE s
  IN CASE s.rw.ver = 1 -> WriteCc(t, "write_cc", 0)
       [] s.rw.ver = 2 /\ locked -> t
       [] s.rw.ver = 2 /\ ~locked /\ s.rw.off = Room -> WriteCc(s, "write_cc", 0)
       [] s.rw.ver = 2 /\ ~locked /\ s.rw.off < Room -> AskLocks(s, "locks", s.rw.off + 1)

\* rw_i93_sm_format
I93SmFormat(s, a) ==
  CASE a.sw = "error" -> I93TagError(s, a)
    [] a.sw = "ok" /\ s.rw.sub = "uid" -> GetSysInfo(s, "sys", 0)
    [] a.sw = "ok" /\ s.rw.sub = "sys" -> AskLocks([s EXCEPT !.rw.hdr = TRUE], "locks", 0)
    [] a.sw = "ok" /\ s.rw.sub = "locks" -> CheckReadOnly(s, a)
    [] a.sw = "ok" /\ s.rw.sub = "write_cc" -> WriteLenBlock(s, "write_tlv", 0, <<"x">>)
    [] a.sw = "ok" /\ s.rw.sub = "write_tlv" -> I93Done(s, 0, <<>>)

\* rw_i93_sm_set_read_only: the container, the blocks of the message, its own block.
I93SmSetReadOnly(s, a) ==
  CASE a.sw = "error" -> I93HandleError(s, FALSE)
    [] a.sw = "ok" /\ s.rw.sub = "cc" -> WriteCc(s, "update_cc", 1)
    [] a.sw = "ok" /\ s.rw.sub = "update_cc" -> [LockBlock(s, "lock", 1) EXCEPT !.rw.off = 2]
    [] a.sw = "ok" /\ s.rw.sub = "lock" ->
         IF s.rw.off <= s.rw.rem THEN [LockBlock(s, "lock", s.rw.off) EXCEPT !.rw.off = @ + 1]
         ELSE LockBlock(s, "lock_cc", 0)
    [] a.sw = "ok" /\ s.rw.sub = "lock_cc" -> I93Done([s EXCEPT !.rw.ro = TRUE], 0, <<>>)

\* The command is over: its copy is given up, and the repetitions count anew.
Forget(s) ==
  [s EXCEPT !.rw.timer = FALSE, !.rw.last = <<>>,
            !.rw.tries = IF s.rw.last # <<>> THEN 0 ELSE @]

\* rw_i93_data_cback for NFC_DATA_CEVT
I93Data(s0, a) ==
  LET s == Forget(s0)
  IN CASE s.rw.st = "off"    -> s
       [] s.rw.st = "idle"   -> Raise([s EXCEPT !.rw.cmd = ""], "raw", TRUE, 0, a.d)
       [] s.rw.st = "busy"   -> I93SendToUpper(s, a)
       [] s.rw.st = "detect" -> I93SmDetectNdef(s, a)
       [] s.rw.st = "read"   -> I93SmReadNdef(s, a)
       [] s.rw.st = "update" -> I93SmUpdateNdef(s, a)
       [] s.rw.st = "format" -> I93SmFormat(s, a)
       [] s.rw.st = "setro"  -> I93SmSetReadOnly(s, a)
       [] s.rw.st = "check"  -> Raise([s EXCEPT !.rw.st = "idle", !.rw.cmd = ""], "check",
                                      a.b # "short", 0, <<>>)

\* The last command once more, or the end of the operation.
Repeat(s, again, status) ==
  IF again /\ s.rw.tries < MaxRetries /\ s.rw.last # <<>>
  THEN [Send(s, s.rw.last[1]) EXCEPT !.rw.tries = @ + 1]
  ELSE I93HandleError(Forget(s), status)

\* NFC_ERROR_CEVT, with a status nobody has set; rw_i93_process_timeout
I93Error(s, status) == Repeat(s, TRUE, status)
I93Timeout(s) == Repeat([s EXCEPT !.rw.timer = FALSE], s.rw.cmd # "quiet", FALSE)

===============================================================================
