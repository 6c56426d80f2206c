-------------------------------- MODULE RwT4t --------------------------------
(***************************************************************************)
(* The reader and writer of Type 4 tags (nfc/tags/rw_t4t.c), and the tag   *)
(* itself (external).  Reading and writing are sequences of commands, each *)
(* sent when the answer to the one before arrives; a message is written    *)
(* behind NLEN, which is 0 until the last unit is on the tag.              *)
(*                                                                         *)
(* One unit is read or written per command.  A CC file that does not       *)
(* validate is an answer of another kind.                                  *)
(***************************************************************************)
EXTENDS RwCore

T4tNew == [type |-> "t4t", app |-> "none", file |-> "none", ro |-> FALSE, ver |-> 1,
           fmt |-> TRUE, len |-> Len(Old), cc |-> TRUE,
           data |-> Old \o [i \in 1..Room - Len(Old) |-> "x"]]

T4tReadable(t) == IF t.fmt THEN SubSeq(t.data, 1, t.len) ELSE <<>>

\* Selections are lost with the field.
T4tReset(t) == [t EXCEPT !.app = "none", !.file = "none"]

-------------------------------------------------------------------------------
(* The tag: what it does with a command and what it answers.  Writing to a   *)
(* CC file that was not meant ruins it (cc).                                 *)

IsoOk == Answer("9000", "none", 0, <<>>)
IsoFail == Answer("6A82", "none", 0, <<>>)

T4tSelected(t, f) == t.app = "ndef" /\ t.file = f

T4tWritable(t) == (T4tSelected(t, "ndef") /\ ~t.ro) \/ T4tSelected(t, "cc")

T4tWrite(t, n, d) ==
  IF T4tSelected(t, "ndef") /\ ~t.ro THEN [t EXCEPT !.data[n] = d]
  ELSE IF T4tSelected(t, "cc") THEN [t EXCEPT !.cc = FALSE] ELSE t

T4tWriteLen(t, n) ==
  IF T4tSelected(t, "ndef") /\ ~t.ro THEN [t EXCEPT !.len = n]
  ELSE IF T4tSelected(t, "cc") THEN [t EXCEPT !.cc = FALSE] ELSE t

\* Native commands of a DESFire tag that make the NDEF application of it.
FormatSteps == <<"hw", "sw", "uid", "create_app", "select_app", "create_cc", "create_ndef",
                 "write_cc", "write_ndef">>

T4tAfter(t, cmd) ==
  CASE cmd.c = "select_app" /\ t.fmt /\ cmd.n = t.ver ->
         [t EXCEPT !.app = "ndef", !.file = "none"]
    [] cmd.c = "select_cc" /\ t.app = "ndef" -> [t EXCEPT !.file = "cc"]
    [] cmd.c = "select_ndef" /\ t.app = "ndef" -> [t EXCEPT !.file = "ndef"]
    [] cmd.c = "update" -> T4tWrite(t, cmd.n, cmd.d[1])
    [] cmd.c = "update_len" -> T4tWriteLen(t, cmd.n)
    [] cmd.c = "update_cc" /\ T4tSelected(t, "cc") -> [t EXCEPT !.ro = TRUE]
    [] cmd.c = "n_select_app" -> [t EXCEPT !.app = "native", !.file = "none"]
    [] cmd.c = "n_write_cc" /\ t.app = "native" -> [t EXCEPT !.cc = TRUE]
    [] cmd.c = "n_write_ndef" /\ t.app = "native" -> [t EXCEPT !.fmt = TRUE, !.len = 0]
    [] OTHER -> t

T4tAnswer(t, cmd) ==
  CASE cmd.c = "select_app" -> IF t.fmt /\ cmd.n = t.ver THEN IsoOk ELSE IsoFail
    [] cmd.c \in {"select_cc", "select_ndef"} -> IF t.app = "ndef" THEN IsoOk ELSE IsoFail
    [] cmd.c = "read_cc" /\ T4tSelected(t, "cc") ->
         IF t.cc THEN Answer("9000", "cc", IF t.ro THEN 1 ELSE 0, <<"cc">>)
         ELSE Answer("9000", "junk", 0, <<"cc">>)
    [] cmd.c = "read_len" /\ T4tSelected(t, "ndef") -> Answer("9000", "nlen", t.len, <<"len">>)
    [] cmd.c = "read" /\ T4tSelected(t, "ndef") -> Answer("9000", "data", 0, <<t.data[cmd.n]>>)
    [] cmd.c = "read" /\ T4tSelected(t, "cc") -> Answer("9000", "data", 0, <<"cc">>)
    [] cmd.c \in {"update", "update_len"} ->
         IF T4tWritable(t) THEN IsoOk ELSE IsoFail
    [] cmd.c = "update_cc" -> IF T4tSelected(t, "cc") THEN IsoOk ELSE IsoFail
    [] cmd.c = "check" -> Answer("9000", "data", 0, <<"x">>)
    [] cmd.c = "iblock" -> Answer("none", "none", 0, <<>>)
    [] cmd.c \in {"n_hw", "n_sw"} -> Answer("AF", "none", 0, <<>>)
    [] cmd.c = "n_create_app" /\ t.fmt -> Answer("91DE", "none", 0, <<>>)
    [] cmd.c = "n_uid" \/ t.app = "native" -> Answer("9100", "none", 0, <<>>)
    [] cmd.c \in {"n_create_app", "n_select_app"} -> Answer("9100", "none", 0, <<>>)
    [] OTHER -> IsoFail

\* A command cut off by the end of the field: a unit may be left half written.
T4tTorn(t, cmd) ==
  {t, T4tAfter(t, cmd)}
    \cup (IF cmd.c = "update" THEN {T4tWrite(t, cmd.n, "torn")} ELSE {})

-------------------------------------------------------------------------------
(* Commands                                                                  *)

SelectApp(s) == Step(s, "select_app", Cmd("select_app", s.rw.ver, <<>>))
SelectCc(s) == Step(s, "select_cc", Cmd("select_cc", 0, <<>>))
SelectNdef(s) == Step(s, "select_ndef", Cmd("select_ndef", 0, <<>>))

\* rw_t4t_read_file: one unit of the message, from where reading has come to.
ReadFile(s) == Step(s, "read", Cmd("read", s.rw.off + 1, <<>>))

UpdateNlen(s, n) == Step(s, "update_len", Cmd("update_len", n, <<>>))

\* rw_t4t_update_file counts the unit as soon as it is sent.
UpdateFile(s) ==
  [Step(s, "update", Cmd("update", s.rw.off + 1, <<s.rw.src[s.rw.off + 1]>>))
     EXCEPT !.rw.off = @ + 1, !.rw.rem = @ - 1]

FormatStep(s, i) == Step(s, FormatSteps[i], Cmd("n_" \o FormatSteps[i], 0, <<>>))

-------------------------------------------------------------------------------
(* Operations                                                                *)

\* rw_t4t_select
T4tSelect(s) == [s EXCEPT !.rw = [RwOff EXCEPT !.st = "idle"]]

RW_T4tDetectNDef(s) ==
  IF s.rw.st # "idle" THEN Refused(s)
  ELSE LET e == [s EXCEPT !.rw.st = "detect"]
       IN Started(IF s.rw.det THEN SelectCc(e) ELSE SelectApp(e))

RW_T4tReadNDef(s) ==
  IF s.rw.st # "idle" \/ ~s.rw.det THEN Refused(s)
  ELSE Started(ReadFile([s EXCEPT !.rw.st = "read", !.rw.off = 0, !.rw.rem = s.rw.len]))

\* The message is announced empty before any of its data is written.
RW_T4tUpdateNDef(s, m) ==
  IF s.rw.st # "idle" \/ ~s.rw.det \/ s.rw.ro \/ Len(m) > Room THEN Refused(s)
  ELSE Started(UpdateNlen([s EXCEPT !.rw.st = "update", !.rw.len = Len(m), !.rw.src = m,
                                    !.rw.upd = TRUE, !.rw.off = 0, !.rw.rem = Len(m)], 0))

\* An empty I-block is sent without the response timer.
RW_T4tPresenceCheck(s, opt) ==
  LET e == Enter(s, "check", "")
  IN CheckFirst(s, Started(IF opt = "iblock" THEN SendRaw(e, Cmd("iblock", 0, <<>>))
                           ELSE Send([e EXCEPT !.rw.off = 0, !.rw.rem = 1],
                                     Cmd("check", 0, <<>>))))

RW_T4tSetNDefReadOnly(s) ==
  IF s.rw.st # "idle" \/ ~s.rw.det THEN Refused(s)
  ELSE IF s.rw.ro THEN Started(HandleSetRo(s, TRUE))
  ELSE Started(SelectCc([s EXCEPT !.rw.st = "setro"]))

RW_T4tFormatNDef(s) ==
  IF s.rw.st # "idle" THEN Refused(s)
  ELSE Started(FormatStep([s EXCEPT !.rw.st = "format"], 1))

-------------------------------------------------------------------------------
(* Answers                                                                   *)

\* rw_t4t_handle_error; status is OK only for an interface error, where the
\* code passes a status it never set, and then nothing else of the event is set.
HandleError(s, status) ==
  LET e == IF s.rw.st \in {"off", "idle"} THEN "none" ELSE s.rw.st
      ok == status /\ s.rw.st \in {"detect", "setro"}
  IN Raise([s EXCEPT !.rw.timer = FALSE, !.rw.st = "idle"], e, ok, 0, <<>>)

NotNdef(s) == HandleError([s EXCEPT !.rw.det = FALSE], FALSE)

\* rw_t4t_sm_detect_ndef: the application of mapping version 2.0 is tried first.
SmDetectNdef(s, a) ==
  CASE a.sw # "9000" /\ s.rw.sub = "select_app" /\ s.rw.ver = 2 ->
         SelectApp([s EXCEPT !.rw.ver = 1])
    [] a.sw # "9000" /\ ~(s.rw.sub = "select_app" /\ s.rw.ver = 2) -> NotNdef(s)
    [] a.sw = "9000" /\ s.rw.sub = "select_app" -> SelectCc(s)
    [] a.sw = "9000" /\ s.rw.sub = "select_cc" -> Step(s, "cc", Cmd("read_cc", 0, <<>>))
    [] a.sw = "9000" /\ s.rw.sub = "cc" ->
         IF a.b = "cc" THEN SelectNdef([s EXCEPT !.rw.ccro = (a.n = 1)]) ELSE NotNdef(s)
    [] a.sw = "9000" /\ s.rw.sub = "select_ndef" -> Step(s, "nlen", Cmd("read_len", 0, <<>>))
    [] a.sw = "9000" /\ s.rw.sub = "nlen" ->
         IF a.b = "nlen" /\ a.n <= Room
         THEN Raise([s EXCEPT !.rw.det = TRUE, !.rw.ro = s.rw.ccro, !.rw.len = a.n,
                              !.rw.st = "idle"], "detect", TRUE, a.n, <<>>)
         ELSE NotNdef(s)
    [] OTHER -> HandleError(s, FALSE)

\* rw_t4t_sm_read_ndef
SmReadNdef(s, a) ==
  LET n == Len(a.d)
      t == [s EXCEPT !.rw.off = @ + n, !.rw.rem = @ - n]
  IN CASE a.sw # "9000" \/ n = 0 \/ n > s.rw.rem -> HandleError(s, FALSE)
       [] a.sw = "9000" /\ n \in 1..s.rw.rem - 1 -> ReadFile(Raise(t, "data", TRUE, 0, a.d))
       [] a.sw = "9000" /\ n > 0 /\ n = s.rw.rem ->
            Raise([t EXCEPT !.rw.st = "idle"], "read", TRUE, 0, a.d)

\* A variant that takes the last unit for the end of the operation.
SmUpdateNdefEarly(s, a) ==
  CASE a.sw # "9000" -> HandleError(s, FALSE)
    [] a.sw = "9000" /\ s.rw.sub = "update_len" /\ s.rw.upd -> UpdateFile(s)
    [] a.sw = "9000" /\ (s.rw.sub = "update" \/ ~s.rw.upd) ->
         IF s.rw.rem > 0 THEN UpdateFile(s)
         ELSE Raise([s EXCEPT !.rw.st = "idle", !.rw.upd = FALSE], "update", TRUE, 0, <<>>)

\* rw_t4t_sm_update_ndef
SmUpdateNdef(s, a) ==
  CASE a.sw # "9000" -> HandleError(s, FALSE)
    [] a.sw = "9000" /\ s.rw.sub = "update_len" ->
         IF s.rw.upd THEN UpdateFile(s)
         ELSE Raise([s EXCEPT !.rw.st = "idle"], "update", TRUE, 0, <<>>)
    [] a.sw = "9000" /\ s.rw.sub = "update" ->
         IF s.rw.rem > 0 THEN UpdateFile(s)
         ELSE UpdateNlen([s EXCEPT !.rw.upd = FALSE], s.rw.len)

\* rw_t4t_sm_set_readonly
SmSetReadonly(s, a) ==
  CASE a.sw # "9000" -> HandleError(s, FALSE)
    [] a.sw = "9000" /\ s.rw.sub = "select_cc" -> Step(s, "cc", Cmd("update_cc", 0, <<>>))
    [] a.sw = "9000" /\ s.rw.sub = "cc" -> SelectNdef([s EXCEPT !.rw.ro = TRUE, !.rw.ccro = TRUE])
    [] a.sw = "9000" /\ s.rw.sub = "select_ndef" ->
         Raise([s EXCEPT !.rw.st = "idle"], "setro", TRUE, 0, <<>>)

\* rw_t4t_sm_ndef_format; a version it does not know (bad) is reported as an
\* error, and the next command is sent all the same.
SmNdefFormat(s, a) ==
  LET i == CHOOSE j \in 1..9 : FormatSteps[j] = s.rw.sub
      good == a.sw = IF i <= 2 THEN "AF" ELSE "9100"
  IN CASE ~good -> HandleError(s, FALSE)
       [] good /\ a.b = "bad" /\ i = 2 -> FormatStep(HandleError(s, FALSE), 3)
       [] good /\ ~(a.b = "bad" /\ i = 2) /\ i < 9 -> FormatStep(s, i + 1)
       [] good /\ i = 9 -> Raise([s EXCEPT !.rw.st = "idle"], "format", TRUE, 0, <<>>)

\* rw_t4t_data_cback for NFC_DATA_CEVT
T4tData(s0, a) ==
  LET s == [s0 EXCEPT !.rw.timer = FALSE]
  IN CASE s.rw.st = "off" -> s
       [] s.rw.st = "idle" -> Raise(s, "raw", TRUE, 0, a.d)
       [] s.rw.st = "detect" -> SmDetectNdef(s, a)
       [] s.rw.st = "read" -> SmReadNdef(s, a)
       [] s.rw.st = "update" -> SmUpdateNdef(s, a)
       [] s.rw.st = "check" -> Raise([s EXCEPT !.rw.st = "idle"], "check", TRUE, 0, <<>>)
       [] s.rw.st = "setro" -> SmSetReadonly(s, a)
       [] s.rw.st = "format" -> SmNdefFormat(s, a)

\* rw_t4t_data_cback for NFC_ERROR_CEVT: status is what the stack's garbage says.
T4tError(s, status) ==
  IF s.rw.st \in {"off", "idle"}
  THEN [s EXCEPT !.rw.timer = FALSE,
                 !.ev = IF s.rw.st = "idle" THEN Event("interface", FALSE, 0, <<>>) ELSE @]
  ELSE HandleError(s, status)

\* A variant that stops the response timer and does not start it again.
T4tWtxStops(s) ==
  IF s.rw.st = "idle" THEN Raise([s EXCEPT !.rw.timer = FALSE], "wtx", TRUE, 0, <<>>)
  ELSE [s EXCEPT !.rw.timer = FALSE]

\* rw_t4t_data_cback for NFC_RF_WTX_CEVT: the tag asks for more time.
T4tWtx(s) ==
  IF s.rw.st = "idle" THEN Raise([s EXCEPT !.rw.timer = FALSE], "wtx", TRUE, 0, <<>>)
  ELSE [s EXCEPT !.rw.timer = TRUE]

\* rw_t4t_process_timeout
T4tTimeout(s) == HandleError(s, FALSE)

===============================================================================
