-------------------------------- MODULE RwT3t --------------------------------
(***************************************************************************)
(* The reader and writer of Type 3 tags (nfc/tags/rw_t3t.c), and the tag   *)
(* itself (external).  Block 0 holds the attributes of the message: its    *)
(* length, whether it may be written, and WriteF, which is on while a      *)
(* write is under way.                                                     *)
(*                                                                         *)
(* A tag is looked for with a poll, which the NFCC carries out and answers *)
(* with a notification; the commands to the tag are repeated when no       *)
(* answer comes.  One block, a unit, is read or written per command.       *)
(***************************************************************************)
EXTENDS RwCore

\* ver 2: a FeliCa Lite tag, which alone can be formatted or made read-only; fmt:
\* it serves NDEF (SYS_OP); sum: the checksum of its attributes is right.
T3tNew(fmt) ==
          [type |-> "t3t", ro |-> FALSE, ver |-> 1, fmt |-> fmt, writef |-> FALSE, sum |-> fmt,
           len |-> Len(Old), data |-> Old \o [i \in 1..Room - Len(Old) |-> "x"]]

T3tReadable(t) == IF t.fmt /\ t.sum /\ ~t.writef THEN SubSeq(t.data, 1, t.len) ELSE <<>>

-------------------------------------------------------------------------------
(* The tag                                                                   *)

T3tOk(b, n, d) == Answer("ok", b, n, d)
T3tFail == Answer("error", "none", 0, <<>>)
Polled(ok) == [k |-> "poll", ok |-> ok]

Attributes(writef, ro, len) == Cmd("write_attr", len, <<writef, ro>>)

T3tAfter(t, cmd) ==
  CASE cmd.c = "write_attr" /\ ~t.ro ->
         [t EXCEPT !.writef = (cmd.d[1] = "on"), !.ro = (cmd.d[2] = "ro"), !.len = cmd.n,
                   !.sum = TRUE]
    [] cmd.c = "write" /\ ~t.ro -> [t EXCEPT !.data[cmd.n] = cmd.d[1]]
    [] cmd.c = "write_mc" -> [t EXCEPT !.fmt = TRUE]
    [] OTHER -> t

T3tAnswer(t, cmd) ==
  CASE cmd.c = "poll" ->
         Polled(CASE cmd.d[1] = "ndef" -> t.fmt [] cmd.d[1] = "lite" -> t.ver = 2 [] OTHER -> TRUE)
    [] cmd.c = "read_attr" -> T3tOk(IF t.sum THEN "attr" ELSE "junk", t.len,
                                    <<IF t.writef THEN "on" ELSE "off", IF t.ro THEN "ro" ELSE "rw">>)
    [] cmd.c = "read" -> T3tOk("data", 0, <<t.data[cmd.n]>>)
    [] cmd.c = "read_mc" -> T3tOk("mc", IF t.fmt THEN 1 ELSE 0, <<"mc">>)
    [] cmd.c \in {"write", "write_attr"} /\ t.ro -> T3tFail
    [] cmd.c \in {"write", "write_attr"} /\ ~t.ro -> T3tOk("none", 0, <<>>)
    [] OTHER -> T3tOk("none", 0, <<>>)

\* A write cut off by the end of the field may leave a block half written.
T3tTorn(t, cmd) ==
  {t, T3tAfter(t, cmd)}
    \cup (IF cmd.c = "write" THEN {T3tAfter(t, [cmd EXCEPT !.d = <<"torn">>])} ELSE {})
    \cup (IF cmd.c = "write_attr" THEN {[t EXCEPT !.sum = FALSE]} ELSE {})

-------------------------------------------------------------------------------
(* Commands                                                                  *)

\* rw_t3t_send_cmd: the command is kept, to be sent again.
SendCmd(s, cur, cmd) ==
  [Send(s, cmd) EXCEPT !.rw.st = cur, !.rw.cmd = cur, !.rw.last = <<cmd>>, !.rw.tries = 0]

\* nci_snd_t3t_polling with one of the flags RW_T3T_FL_W4_..._POLL_RSP.
Poll(s, for, system) ==
  [SendRaw(s, Cmd("poll", 0, <<system>>)) EXCEPT !.rw.st = for, !.rw.poll = for,
                                                 !.rw.ptimer = TRUE]
PollFor(s, cur, system) == Poll([s EXCEPT !.rw.cmd = cur], cur, system)

\* A variant that announces the new length at once.
SendAttributesAtOnce(s, inProgress) ==
  SendCmd(s, "update", Attributes("off", "rw", Len(s.rw.src)))

\* rw_t3t_send_update_ndef_attribute_cmd: the old length until all data is written.
SendAttributes(s, inProgress) ==
  SendCmd(s, "update", IF inProgress THEN Attributes("on", "rw", s.rw.len)
                       ELSE Attributes("off", "rw", Len(s.rw.src)))

SendNextUpdate(s) ==
  SendCmd([s EXCEPT !.rw.off = @ + 1], "update",
          Cmd("write", s.rw.off + 1, <<s.rw.src[s.rw.off + 1]>>))

SendNextCheck(s) == SendCmd(s, "read", Cmd("read", s.rw.off + 1, <<>>))

UpdateBlock(s, sub, cmd) == SendCmd([s EXCEPT !.rw.sub = sub], s.rw.cmd, cmd)
CheckMcBlock(s) == UpdateBlock(s, "check_mc", Cmd("read_mc", 0, <<>>))

-------------------------------------------------------------------------------
(* Operations                                                                *)

\* rw_t3t_select.  The timer of a poll that the end of the last activation left running
\* goes on (rw_t3t_unselect stops the other one).
T3tSelect(s) ==
  [s EXCEPT !.rw = [RwOff EXCEPT !.st = "idle", !.cmd = "detect", !.ptimer = s.rw.ptimer]]

IfIdle(s, started) == IF s.rw.st = "idle" THEN Started(started) ELSE Refused(s)

RW_T3tGetSystemCodes(s) == IfIdle(s, PollFor([s EXCEPT !.rw.sub = "wildcard"], "codes", "any"))
RW_T3tDetectNDef(s) == IfIdle(s, PollFor(s, "detect", "ndef"))
RW_T3tFormatNDef(s) == IfIdle(s, PollFor(s, "format", "lite"))

RW_T3tCheckNDef(s) ==
  IF ~s.rw.det \/ s.rw.len = 0 THEN Refused(s)
  ELSE IfIdle(s, SendNextCheck([s EXCEPT !.rw.off = 0]))

RW_T3tUpdateNDef(s, m) ==
  IF ~s.rw.det \/ Len(m) > Room \/ s.rw.ro THEN Refused(s)
  ELSE IfIdle(s, SendAttributes([s EXCEPT !.rw.off = 0, !.rw.src = m, !.rw.upd = TRUE], TRUE))

\* The command that was last sent stays the current one during the poll.
RW_T3tPresenceCheck(s) ==
  IF s.rw.st # "off" /\ s.rw.poll = "check" THEN Refused(s)
  ELSE CheckFirst(s, Started(Poll(s, "check", "any")))

RW_T3tSetReadOnly(s, hard) ==
  IF s.rw.st # "idle" \/ ~s.rw.det THEN Refused(s)
  ELSE IF ~hard /\ s.rw.ro THEN Started(HandleSetRo(s, TRUE))
  ELSE Started(PollFor([s EXCEPT !.rw.hard = hard], "setro", "lite"))

-------------------------------------------------------------------------------
(* Answers                                                                   *)

Complete(s, e, ok) == Raise([s EXCEPT !.rw.st = "idle"], e, ok, 0, <<>>)

\* rw_t3t_format_cplt
FormatCplt(s, ok) ==
  Complete([s EXCEPT !.rw.det = ok, !.rw.ro = ~ok /\ @, !.rw.wf = ~ok /\ @,
                     !.rw.len = IF ok THEN 0 ELSE @], "format", ok)

\* rw_t3t_act_handle_ndef_detect_rsp: WriteF is noted, and not looked at.
HandleDetectRsp(s, a) ==
  CASE a.sw = "ok" /\ a.b = "attr" ->
         Raise([s EXCEPT !.rw.det = TRUE, !.rw.ro = (a.d[2] = "ro"), !.rw.wf = (a.d[1] = "on"),
                         !.rw.len = a.n, !.rw.st = "idle"], "detect", TRUE, a.n, <<>>)
    [] a.sw = "ok" /\ a.b \notin {"attr", "none"} ->
         Complete([s EXCEPT !.rw.det = FALSE], "detect", FALSE)
    [] a.sw # "ok" \/ a.b = "none" -> Complete(s, "detect", FALSE)

\* rw_t3t_act_handle_check_ndef_rsp
HandleCheckRsp(s, a) ==
  LET t == [s EXCEPT !.rw.off = @ + 1]
  IN CASE a.sw # "ok" \/ a.b = "none" -> Complete(s, "read", FALSE)
       [] a.sw = "ok" /\ a.b # "none" /\ t.rw.off < s.rw.len ->
            SendNextCheck(Raise(t, "data", TRUE, 0, a.d))
       [] a.sw = "ok" /\ a.b # "none" /\ t.rw.off >= s.rw.len ->
            Raise([t EXCEPT !.rw.st = "idle"], "read", TRUE, 0, a.d)

\* rw_t3t_act_handle_update_ndef_rsp
HandleUpdateRsp(s, a) ==
  CASE a.sw # "ok" \/ a.b # "none" -> Complete(s, "update", FALSE)
    [] a.sw = "ok" /\ a.b = "none" /\ ~s.rw.upd ->
         Complete([s EXCEPT !.rw.len = Len(s.rw.src)], "update", TRUE)
    [] a.sw = "ok" /\ a.b = "none" /\ s.rw.upd ->
         IF s.rw.off < Len(s.rw.src) THEN SendNextUpdate(s)
         ELSE SendAttributes([s EXCEPT !.rw.upd = FALSE], FALSE)

\* rw_t3t_act_handle_fmt_rsp
DefaultAttributes(s) == UpdateBlock(s, "attr", Attributes("off", "rw", 0))

HandleFmtRsp(s, a) ==
  CASE a.sw = "ok" /\ s.rw.sub = "check_mc" /\ a.b # "none" ->
         IF a.n = 1 THEN DefaultAttributes(s) ELSE UpdateBlock(s, "update_mc", Cmd("write_mc", 0, <<>>))
    [] a.sw = "ok" /\ s.rw.sub = "update_mc" /\ a.b = "none" -> DefaultAttributes(s)
    [] a.sw = "ok" /\ s.rw.sub = "attr" /\ a.b = "none" -> FormatCplt(s, TRUE)
    [] OTHER -> FormatCplt(s, FALSE)

\* rw_t3t_act_handle_sro_rsp
HandleSroRsp(s, a) ==
  CASE a.sw = "ok" /\ s.rw.sub = "attr" /\ a.b = "none" ->
         LET t == [s EXCEPT !.rw.ro = TRUE]
         IN IF s.rw.hard THEN CheckMcBlock(t) ELSE Complete(t, "setro", TRUE)
    [] a.sw = "ok" /\ s.rw.sub = "check_mc" /\ a.b # "none" /\ a.n = 1 ->
         UpdateBlock(s, "update_mc", Cmd("write_mc", 0, <<>>))
    [] a.sw = "ok" /\ s.rw.sub = "update_mc" /\ a.b = "none" -> Complete(s, "setro", TRUE)
    [] OTHER -> Complete(s, "setro", FALSE)

\* rw_t3t_handle_get_system_codes_cplt: the codes found so far.
CodesCplt(s) == Complete(s, "codes", TRUE)

\* rw_t3t_data_cback: the answer is one to the current command.
T3tData(s0, a) ==
  LET s == [s0 EXCEPT !.rw.timer = FALSE]
  IN CASE s.rw.st \in {"off", "idle"} -> Raise(s, "raw", TRUE, 0, a.d)
       [] s.rw.st \notin {"off", "idle"} ->
            CASE s.rw.cmd = "detect" -> HandleDetectRsp(s, a)
              [] s.rw.cmd = "read"   -> HandleCheckRsp(s, a)
              [] s.rw.cmd = "update" -> HandleUpdateRsp(s, a)
              [] s.rw.cmd = "format" -> HandleFmtRsp(s, a)
              [] s.rw.cmd = "setro"  -> HandleSroRsp(s, a)
              [] s.rw.cmd = "codes"  -> CodesCplt(s)

\* rw_t3t_handle_ndef_detect_poll_rsp and its likes: the tag is there, or not.
DetectPolled(s, ok) ==
  IF ok THEN SendCmd(s, "detect", Cmd("read_attr", 0, <<>>)) ELSE Complete(s, "detect", FALSE)

FormatPolled(s, ok) == IF ok THEN CheckMcBlock(s) ELSE FormatCplt(s, FALSE)

SetRoPolled(s, ok) ==
  CASE ~ok -> Complete(s, "setro", FALSE)
    [] ok /\ ~s.rw.ro ->
         UpdateBlock(s, "attr", Attributes(IF s.rw.wf THEN "on" ELSE "off", "ro", s.rw.len))
    [] ok /\ s.rw.ro -> CheckMcBlock(s)

\* A FeliCa Lite tag is asked for NDEF with a second poll, others for their codes.
CodesPolled(s, ok, lite) ==
  CASE s.rw.sub = "wildcard" /\ ok /\ lite -> PollFor([s EXCEPT !.rw.sub = "ndef"], "codes", "ndef")
    [] s.rw.sub = "wildcard" /\ ok /\ ~lite -> SendCmd(s, "codes", Cmd("codes", 0, <<>>))
    [] s.rw.sub # "wildcard" \/ ~ok -> CodesCplt(s)

\* rw_t3t_handle_nci_poll_ntf; the timeout of a poll is the same with no tag found.
T3tPolled(s0, ok, lite) ==
  LET s == [s0 EXCEPT !.rw.ptimer = FALSE, !.rw.poll = ""]
  IN CASE s0.rw.poll = "check"  -> Complete(s, "check", ok)
       [] s0.rw.poll = "codes"  -> CodesPolled(s, ok, lite)
       [] s0.rw.poll = "format" -> FormatPolled(s, ok)
       [] s0.rw.poll = "setro"  -> SetRoPolled(s, ok)
       [] s0.rw.poll = "detect" -> DetectPolled(s, ok)
       [] s0.rw.poll = ""       -> [s EXCEPT !.rw.st = "idle"]

\* rw_t3t_process_error: the command is repeated, up to MaxRetries times.
ProcessError(s) ==
  CASE s.rw.st \in {"off", "idle"} -> Raise(s, "interface", FALSE, 0, <<>>)
    [] s.rw.st \notin {"off", "idle"} /\ s.rw.cmd = "codes" -> CodesCplt(s)
    [] s.rw.st \notin {"off", "idle"} /\ s.rw.cmd # "codes" ->
         IF s.rw.tries < MaxRetries /\ s.rw.last # <<>>
         THEN [Send(s, s.rw.last[1]) EXCEPT !.rw.tries = @ + 1]
         ELSE Complete(s, s.rw.cmd, FALSE)

\* rw_t3t_conn_cback for NFC_ERROR_CEVT
T3tError(s) == ProcessError([s EXCEPT !.rw.timer = FALSE])

\* rw_t3t_process_timeout
T3tTimeout(s, poll) ==
  IF poll THEN T3tPolled(s, FALSE, FALSE) ELSE ProcessError([s EXCEPT !.rw.timer = FALSE])
===============================================================================
