--------------------------------- MODULE NfaRw ---------------------------------
(***************************************************************************)
(* The reader and writer of tags: NFA RW (nfa_rw_act.c) over the RW module *)
(* of the tag that is active, the application's requests through NFA's     *)
(* mailbox, the timers, and a tag that may leave in the middle of          *)
(* anything.                                                               *)
(*                                                                         *)
(* NFC_TASK handles one message or timer at a time, so each handler is one *)
(* action, with the RW module and the events it raises inside it.  The     *)
(* NFCC and the device manager are external: the NFCC forwards commands    *)
(* and answers in order, and ends the activation when it is told to.       *)
(***************************************************************************)
EXTENDS RwT1t, RwT2t, RwT3t, RwT4t, RwI93

Cases == {"late",          \* a timer may expire with the answer on its way
          "stale_timer",   \* other messages come between an NFA timer and its message
          "double_check",  \* the RW module goes on after NFA gave a check up
          "error_status",  \* the status nobody sets reads as NFC_STATUS_OK
          "reread",        \* its write failed, and the application reads, or locks a T3T
          "unfinished",    \* it reads a T3T, or writes a T1T, on which a write was not finished
          "eager",         \* it asks before its last request has been answered
          "busy_check",    \* a check that was asked for is handled in an operation
          "bad_version",   \* a DESFire tag of a version that is not known
          "stray",         \* it asks with the answer to a command of a failed operation on its way
          "undetected",    \* it locks a T1T before NDEF was looked for
          "locked",        \* it writes, or formats, a T1T with its lock bits set
          "stack_flags",   \* the flags nobody sets read as those of an empty T1T
          "halted"}        \* it deactivates a T2T that has refused a command

ASSUME BoundAssumption ==
  \A b \in Bounds :
    /\ b.type \in {"t1t", "t2t", "t3t", "t4t", "i93"} /\ b.excl \in BOOLEAN /\ b.auto \in BOOLEAN
    /\ b.asks \in Nat /\ b.act \in Nat /\ b.lost \in Nat
    /\ b.ops \subseteq Ops /\ b.cases \subseteq Cases

-------------------------------------------------------------------------------
(* The RW module of the tag that is active                                   *)

IsT1t == lim.type = "t1t"
IsT2t == lim.type = "t2t"
IsT3t == lim.type = "t3t"
IsT4t == lim.type = "t4t"
IsI93 == lim.type = "i93"

\* What is done of each type.
Of(t1t, t2t, t3t, t4t, i93) ==
  CASE IsT1t -> t1t [] IsT2t -> t2t [] IsT3t -> t3t [] IsT4t -> t4t [] IsI93 -> i93

RwSelect(s) ==
  Of(T1tSelect(s, tag.ver), T2tSelect(s), T3tSelect(s), T4tSelect(s), I93Select(s, tag.ver))
RwDetect(s) ==
  Of(RW_T1tDetectNDef(s), RW_T2tDetectNDef(s, s.nfa.skip), RW_T3tDetectNDef(s),
     RW_T4tDetectNDef(s), RW_I93DetectNDef(s))
RwRead(s) ==
  Of(RW_T1tReadNDef(s), RW_T2tReadNDef(s), RW_T3tCheckNDef(s), RW_T4tReadNDef(s),
     RW_I93ReadNDef(s))
RwUpdate(s, m) ==
  Of(RW_T1tWriteNDef(s, m), RW_T2tWriteNDef(s, m), RW_T3tUpdateNDef(s, m),
     RW_T4tUpdateNDef(s, m), RW_I93UpdateNDef(s, m))
RwCheck(s, opt) ==
  Of(RW_T1tPresenceCheck(s), RW_T2tPresenceCheck(s), RW_T3tPresenceCheck(s),
     RW_T4tPresenceCheck(s, opt), RW_I93PresenceCheck(s))
RwSetRo(s, hard) ==
  Of(RW_T1tSetTagReadOnly(s, hard), RW_T2tSetTagReadOnly(s, hard), RW_T3tSetReadOnly(s, hard),
     RW_T4tSetNDefReadOnly(s), RW_I93SetTagReadOnly(s))
RwFormat(s) ==
  Of(RW_T1tFormatNDef(s), RW_T2tFormatNDef(s), RW_T3tFormatNDef(s), RW_T4tFormatNDef(s),
     RW_I93FormatNDef(s))
RwData(s, a) == Of(T1tData(s, a), T2tData(s, a), T3tData(s, a), T4tData(s, a), I93Data(s, a))

\* stray: the status of an error, or the flags of a detection, that nobody sets.
RwError(s, stray) ==
  Of(T1tError(s, stray), T2tError(s), T3tError(s), T4tError(s, stray), I93Error(s, stray))
RwTimeout(s, poll, stray) ==
  Of(T1tTimeout(s, stray), T2tTimeout(s), T3tTimeout(s, poll), T4tTimeout(s), I93Timeout(s))

TagNew(type, fmt) ==
  CASE type = "t1t" -> T1tNew(fmt) [] type = "t2t" -> T2tNew [] type = "t3t" -> T3tNew(fmt)
    [] type = "t4t" -> T4tNew [] type = "i93" -> I93New
TagReset(t) == Of(t, T2tReset(t), t, T4tReset(t), I93Reset(t))
TagAfters(t, cmd) ==
  Of({T1tAfter(t, cmd)}, T2tAfters(t, cmd), {T3tAfter(t, cmd)}, {T4tAfter(t, cmd)},
     {I93After(t, cmd)})
TagAnswer(t, cmd) ==
  Of(T1tAnswer(t, cmd), T2tAnswer(t, cmd), T3tAnswer(t, cmd), T4tAnswer(t, cmd),
     I93Answer(t, cmd))
TagTorn(t, cmd) ==
  Of(T1tTorn(t, cmd), T2tTorn(t, cmd), T3tTorn(t, cmd), T4tTorn(t, cmd), I93Torn(t, cmd))
Readable(t) ==
  Of(T1tReadable(t), T2tReadable(t), T3tReadable(t), T4tReadable(t), I93Readable(t))

-------------------------------------------------------------------------------
(* Requests                                                                  *)

Fail(s, op) == Tell(CommandComplete(s), op, FALSE, <<>>)
Done(s, op, ok, m) == EndOp(Tell(CommandComplete(s), op, ok, m))

\* nfa_rw_start_ndef_read: an empty message is read without the tag, and so is that of
\* a Type 2 tag in one block that is known, of which the RW module tells in the call.
StartNdefRead(s) ==
  LET r == RwRead([s EXCEPT !.nfa.buf = <<>>])
  IN CASE s.nfa.cur = 0 -> Started(Tell(CommandComplete(s), "read", TRUE, <<>>))
       [] s.nfa.cur # 0 /\ r.s.ev = NoEvent -> r
       [] s.nfa.cur # 0 /\ r.s.ev # NoEvent ->
            Started(Done([r.s EXCEPT !.ev = NoEvent], "read", TRUE, r.s.ev.d))

\* nfa_rw_start_ndef_write
StartNdefWrite(s) ==
  IF s.nfa.ro \/ Len(s.nfa.wr) > Room THEN Refused(s) ELSE RwUpdate(s, s.nfa.wr)

OrFail(r, op) == IF r.ok THEN r.s ELSE Fail(r.s, op)

\* nfa_rw_read_ndef
ReadNdef(s) ==
  OrFail(CASE s.nfa.st = "unknown" -> RwDetect(s)
           [] s.nfa.st = "false"   -> Refused(s)
           [] s.nfa.st = "true"    -> StartNdefRead(s), "read")

\* nfa_rw_write_ndef: a Type 1 tag without a message may have been formatted since.
WriteNdef(s, m) ==
  LET w == [s EXCEPT !.nfa.wr = m]
  IN OrFail(CASE s.nfa.st = "unknown" -> RwDetect(w)
              [] s.nfa.st = "false"   -> IF IsT1t THEN RwDetect(w) ELSE Refused(w)
              [] s.nfa.st = "true"    -> StartNdefWrite(w), "write")

\* nfa_rw_presence_check.  The timer is started after the RW module has returned,
\* also when it has answered already.  A tag cannot be put to sleep that is already
\* being deactivated.
PresenceCheck(s, opt) ==
  IF opt = "sleep"
  THEN IF s.deact THEN HandlePresenceCheckRsp(s, FALSE) ELSE [s EXCEPT !.sleep = TRUE]
  ELSE LET r == RwCheck(s, opt)
       IN IF r.ok THEN [r.s EXCEPT !.nfa.tle = "timeout"]
          ELSE HandlePresenceCheckRsp(r.s, FALSE)

\* NFA_RW_PRES_CHK_DEFAULT
DefaultOption(s) == IF s.nfa.ndefOk THEN "read" ELSE "iblock"

\* nfa_rw_config_tag_ro.  The lock TLV of a Type 1 tag is looked for first; if that
\* cannot begin, nobody is told.
ConfigTagRo(s, hard) ==
  LET looks == IsT1t /\ ~s.nfa.tlv
      e == [s EXCEPT !.nfa.hard = hard]
      r == IF looks THEN RW_T1tLocateTlv(e, "tlv") ELSE RwSetRo(e, hard)
  IN CASE looks -> r
       [] ~looks /\ r.ok -> Started([r.s EXCEPT !.nfa.st = "unknown"])
       [] ~looks /\ ~r.ok -> Refused(Fail(r.s, "setro"))

\* nfa_rw_op_req_while_busy: there is no such answer to a presence check.
OpReqWhileBusy(s, op) == IF op = "check" THEN s ELSE Tell(s, op, FALSE, <<>>)

\* A variant that starts the operation although another one is under way.
HandleOpReqBusy(s, req) ==
  LET e == [s EXCEPT !.nfa.busy = TRUE, !.nfa.tle = "off", !.nfa.op = req.op]
  IN CASE ~s.nfa.active -> [s EXCEPT !.owed[req.op] = @ - 1]
       [] s.nfa.active /\ s.nfa.auto -> [s EXCEPT !.nfa.pend = <<req>>, !.nfa.busy = TRUE]
       [] OTHER ->
            CASE req.op = "detect" -> OrFail(RwDetect([e EXCEPT !.nfa.skip = FALSE]), "detect")
              [] req.op = "read"   -> ReadNdef(e)
              [] req.op = "write"  -> WriteNdef(e, req.msg)
              [] req.op = "check"  -> PresenceCheck(e, req.opt)
              [] req.op = "format" -> OrFail(RwFormat(e), "format")
              [] req.op = "setro"  -> ConfigTagRo(e, req.opt = "hard").s
              [] req.op = "i93"    -> OrFail(RW_I93Command(e, req.opt), "i93")

\* nfa_rw_handle_op_req
HandleOpReq(s, req) ==
  LET e == [s EXCEPT !.nfa.busy = TRUE, !.nfa.tle = "off", !.nfa.op = req.op]
  IN CASE ~s.nfa.active -> [s EXCEPT !.owed[req.op] = @ - 1]
       [] s.nfa.active /\ s.nfa.busy -> OpReqWhileBusy(s, req.op)
       [] s.nfa.active /\ ~s.nfa.busy /\ s.nfa.auto ->
            [s EXCEPT !.nfa.pend = <<req>>, !.nfa.busy = TRUE]
       [] OTHER ->
            CASE req.op = "detect" -> OrFail(RwDetect([e EXCEPT !.nfa.skip = FALSE]), "detect")
              [] req.op = "read"   -> ReadNdef(e)
              [] req.op = "write"  -> WriteNdef(e, req.msg)
              [] req.op = "check"  -> PresenceCheck(e, req.opt)
              [] req.op = "format" -> OrFail(RwFormat(e), "format")
              [] req.op = "setro"  -> ConfigTagRo(e, req.opt = "hard").s
              [] req.op = "i93"    -> OrFail(RW_I93Command(e, req.opt), "i93")

\* The request that waited for the end of an automatic check.
HandlePending(s) ==
  IF s.now = <<>> THEN s ELSE HandleOpReq([s EXCEPT !.now = <<>>], s.now[1])

-------------------------------------------------------------------------------
(* Events of the RW module                                                   *)

\* nfa_rw_handle_ndef_detect: a read or a write that asked for the detection goes on.
HandleNdefDetect(s, e) ==
  LET ok == [s EXCEPT !.nfa.st = "true", !.nfa.ndefOk = TRUE, !.nfa.cur = e.n,
                      !.nfa.ro = s.rw.ro, !.stale = FALSE]
      no == [CommandComplete(s) EXCEPT !.nfa.st = "false", !.nfa.op = "none"]
  IN CASE e.ok /\ s.nfa.op = "read"  -> OrFail(StartNdefRead(ok), "read")
       [] e.ok /\ s.nfa.op = "write" -> OrFail(StartNdefWrite(ok), "write")
       [] e.ok /\ s.nfa.op \notin {"read", "write"} -> Done(ok, "detect", TRUE, <<>>)
       [] ~e.ok /\ s.nfa.op \in {"read", "write", "detect"} ->
            Tell(no, s.nfa.op, FALSE, <<>>)
       [] ~e.ok /\ s.nfa.op \notin {"read", "write", "detect"} -> no

\* Data of the message; without a read under way it goes to the application raw.
StoreNdef(s, d) == IF s.nfa.op = "read" THEN [s EXCEPT !.nfa.buf = @ \o d] ELSE s

HandleReadCplt(s, e) ==
  LET b == StoreNdef(s, e.d)
  IN Done(b, "read", e.ok, IF s.nfa.op = "read" THEN b.nfa.buf ELSE <<"raw">>)

\* NFA takes the length it asked for as written whether or not the write failed.
HandleWriteCplt(s, e) ==
  LET c == IF s.nfa.op = "write" THEN [s EXCEPT !.nfa.cur = Len(s.nfa.wr)] ELSE s
  IN [Done(c, "write", e.ok, s.nfa.wr) EXCEPT !.stale = ~e.ok]

\* The length is taken for 0 after a Type 4 tag was formatted, only there.
HandleFormatCplt(s, e) ==
  LET t == Done(s, "format", e.ok, <<>>) IN IF IsT3t THEN t ELSE [t EXCEPT !.nfa.cur = 0]

HandleInterface(s) == IF IsT3t THEN s ELSE EndOp(CommandComplete(s))

\* nfa_rw_handle_t3t_evt, nfa_rw_handle_t4t_evt
HandleT34tEvt(s, e) ==
  CASE e.e = "none"   -> s
    [] e.e = "detect" -> HandleNdefDetect(s, e)
    [] e.e = "data"   -> StoreNdef(s, e.d)
    [] e.e = "read"   -> HandleReadCplt(s, e)
    [] e.e = "update" -> HandleWriteCplt(s, e)
    [] e.e = "check"  -> HandlePresenceCheckRsp(s, e.ok)
    [] e.e = "setro"  -> HandleSetRo(s, e.ok)
    [] e.e = "format" -> HandleFormatCplt(s, e)
    [] e.e = "codes"  -> Tell(CommandComplete(s), "codes", e.ok, <<>>)
    [] e.e = "raw"    -> EndOp(CommandComplete(s))
    [] e.e = "interface" -> HandleInterface(s)
    [] e.e = "wtx"    -> [s EXCEPT !.nfa.tle = IF lim.auto /\ ~lim.excl THEN "tick" ELSE "off"]

\* nfa_rw_handle_tlv_detect, in an operation that makes the tag read-only.  Found or
\* not, it goes on; a refusal is told twice.
HandleTlvDetect(s, ok) ==
  LET t == [s EXCEPT !.nfa.tlv = TRUE]
      r == ConfigTagRo(IF ok THEN t ELSE CommandComplete(t), s.nfa.hard)
  IN IF r.ok THEN r.s ELSE Tell(r.s, "setro", FALSE, <<>>)

\* The end of a format.  If it was part of a write, NDEF is looked for once more.
HandleT1tFormat(s, ok) ==
  LET t == IF ok THEN [s EXCEPT !.nfa.st = "unknown"] ELSE s
      d == RW_T1tDetectNDef(t)
      done == Done(t, "format", ok, <<>>)
  IN CASE s.nfa.op # "write" -> [done EXCEPT !.stale = ~ok]
       [] s.nfa.op = "write" /\ ok /\ d.ok -> d.s
       [] s.nfa.op = "write" /\ ~(ok /\ d.ok) -> [Fail(t, "write") EXCEPT !.nfa.st = "false"]

\* nfa_rw_handle_t1t_evt.  A tag to write on that can be formatted is formatted.
HandleT1tEvt(s, e) ==
  LET t == [s EXCEPT !.nfa.tlv = TRUE]
      formats == ~e.ok /\ e.n = 1 /\ s.nfa.op = "write"
      f == RW_T1tFormatNDef(t)
      w == IF e.ok THEN t ELSE [t EXCEPT !.nfa.st = "unknown"]
  IN CASE e.e = "detect" -> IF formats /\ f.ok THEN f.s ELSE HandleNdefDetect(t, e)
       [] e.e = "read"   -> Done(t, "read", e.ok, e.d)
       [] e.e = "update" -> [HandleWriteCplt(w, e) EXCEPT !.stale = FALSE]
       [] e.e = "format" -> HandleT1tFormat(s, e.ok)
       [] e.e = "tlv"    -> HandleTlvDetect(s, e.ok)
       [] e.e = "interface" -> s
       [] e.e \notin {"detect", "read", "update", "format", "tlv", "interface"} ->
            HandleT34tEvt(s, e)

\* nfa_rw_handle_t2t_evt.  A tag that has halted is put to sleep and woken up before
\* the event is handled, unless it is being deactivated.  A detection that failed at
\* the lock bytes, or otherwise than by its answers, starts again without them.
HandleT2tEvt(s, e) ==
  LET halts == e.d = <<"rejected">> /\ ~s.deact
      over == e.ok \/ s.nfa.skip \/ (e.d = <<"failed">> /\ (e.n = 0 \/ s.nfa.halt = NoEvent))
      formatted == Done(s, "format", e.ok, <<>>)
  IN CASE halts -> [s EXCEPT !.nfa.halt = e, !.sleep = TRUE]
       [] ~halts /\ e.e = "detect" ->
            IF over THEN HandleNdefDetect([s EXCEPT !.nfa.skip = FALSE], e)
            ELSE OrFail(RwDetect([s EXCEPT !.nfa.skip = TRUE]), "detect")
       [] ~halts /\ e.e = "read"   -> Done(s, "read", e.ok, e.d)
       [] ~halts /\ e.e = "format" ->
            IF e.ok THEN [formatted EXCEPT !.nfa.st = "unknown"] ELSE [formatted EXCEPT !.stale = TRUE]
       [] ~halts /\ e.e = "interface" -> s
       [] ~halts /\ e.e \notin {"detect", "read", "format", "interface"} -> HandleT34tEvt(s, e)

\* nfa_rw_handle_i93_evt.  A command that was sent for the activation reports the tag,
\* however it ends.
HandleI93Command(s, ok) ==
  LET c == CommandComplete(s)
      op == IF s.owed["codes"] > 0 THEN "codes" ELSE "i93"
  IN EndOp(IF op = "codes" \/ s.nfa.op = "i93" THEN Tell(c, op, ok \/ op = "codes", <<>>) ELSE c)

HandleI93Evt(s, e) ==
  LET formatted == Done(s, "format", e.ok, <<>>)
  IN CASE e.e \in {"i93", "interface"} -> HandleI93Command(s, e.ok)
       [] e.e = "format" -> IF e.ok THEN [formatted EXCEPT !.nfa.st = "unknown"]
                            ELSE [formatted EXCEPT !.stale = TRUE]
       [] e.e = "setro"  -> [HandleSetRo(s, e.ok) EXCEPT !.nfa.ro = TRUE]
       [] e.e = "raw"    -> CommandComplete(s)
       [] e.e \notin {"i93", "interface", "format", "setro", "raw"} -> HandleT34tEvt(s, e)

HandleEvent(s, e) ==
  CASE IsT1t -> HandleT1tEvt(s, e)
    [] IsT2t -> HandleT2tEvt(s, e)
    [] IsI93 -> HandleI93Evt(s, e)
    [] IsT3t \/ IsT4t -> HandleT34tEvt(s, e)

\* The rest of a handler when the RW module is done: its event, a request that waited.
Upward(s) ==
  \E t \in {s} : nfc' = HandlePending(HandleEvent([t EXCEPT !.ev = NoEvent], t.ev))

\* nfa_rw_handle_sleep_wakeup_rsp: the operation in which a Type 2 tag halted has
\* failed; otherwise it was a check.
HandleSleepWakeup(s, ok) ==
  LET h == s.nfa.halt
      w == IF ok THEN T2tSelect(s)
           ELSE [s EXCEPT !.nfa.halt = IF h.e = "detect" THEN NoEvent ELSE @]
      t == HandleT2tEvt(w, [h EXCEPT !.ok = (ok /\ s.nfa.op = "check"), !.d = <<"failed">>])
      u == [t EXCEPT !.nfa.halt = NoEvent]
  IN CASE h = NoEvent -> HandlePresenceCheckRsp(s, ok)
       [] h # NoEvent -> IF ~ok /\ ~lim.excl THEN Deactivate(u) ELSE u

-------------------------------------------------------------------------------
(* Steps of NFC_TASK                                                         *)

\* Each step of the task starts with nothing told.
Fresh == [nfc EXCEPT !.told = <<>>]

TimerWaits == \E i \in DOMAIN box : box[i].k # "req"
TakesBack(k) ==
  /\ back # <<>> /\ Head(back).k = k /\ back' = Tail(back)
  /\ TimerWaits => "stale_timer" \in lim.cases
  /\ UNCHANGED <<tag, box, used>>

\* NFC_DATA_CEVT
TakeAnswer == TakesBack("data") /\ Upward(RwData(Fresh, Head(back)))

\* What may be read where nothing was set.
Strays == {FALSE} \cup (IF {"error_status", "stack_flags"} \cap lim.cases # {} THEN {TRUE} ELSE {})

\* NFC_ERROR_CEVT
TakeError ==
  /\ TakesBack("error")
  /\ \E stray \in Strays : Upward(RwError(Fresh, stray))

\* NFC_RF_WTX_CEVT
TakeWtx == TakesBack("wtx") /\ Upward(T4tWtx(Fresh))

\* RF_T3T_POLLING_NTF
TakePolled ==
  TakesBack("poll") /\ Upward(T3tPolled(Fresh, Head(back).ok, tag.ver = 2))

\* NFC_DEACTIVATE_CEVT to the RW module, then nfa_rw_deactivate_ntf.  The
\* application is told, and expects no answer to what it asked before.  A tag that
\* was being put to sleep does not wake up.
Waiting(op) == Len(SelectSeq(box, LAMBDA b : b.k = "req" /\ b.op = op))

TakeDeactivation ==
  /\ TakesBack("deactivate")
  /\ LET s == IF nfc.sleep THEN HandleSleepWakeup(Fresh, FALSE) ELSE Fresh
     IN nfc' = [s EXCEPT !.rw.st = "off", !.rw.timer = FALSE, !.nfa.active = FALSE,
                         !.nfa.buf = <<>>, !.nfa.pend = <<>>, !.nfa.tle = "off",
                         !.air = <<>>, !.deact = FALSE, !.sleep = FALSE,
                         !.owed = [op \in Ops |-> Waiting(op)]]

\* nfa_rw_activate_ntf, RW_SetActivatedTagType: both control blocks start anew.
Activate(s) ==
  [RwSelect(s) EXCEPT !.nfa = [NfaOff EXCEPT !.active = TRUE], !.stale = FALSE]

\* The activation of a Type 1 tag is reported when its identification is known, that
\* of a Type 3 tag when its system codes are, of an ISO 15693 tag when its size is.
TakeActivation ==
  /\ TakesBack("activate")
  /\ LET s == Activate(Fresh)
         due == [s EXCEPT !.owed["codes"] = @ + 1]
         ask == [due EXCEPT !.nfa.busy = TRUE, !.nfa.op = "codes"]
     IN nfc' = CASE IsT1t -> RW_T1tRid(ask).s
                 [] IsT3t -> RW_T3tGetSystemCodes(ask).s
                 [] IsI93 -> RW_I93Command(due, "sys").s
                 [] IsT2t \/ IsT4t -> CommandComplete(s)

TakesBox(k) ==
  /\ box # <<>> /\ Head(box).k = k /\ box' = Tail(box)
  /\ UNCHANGED <<tag, back, used>>

TakeRequest == TakesBox("req") /\ nfc' = HandleOpReq(Fresh, Head(box))

\* nfa_rw_presence_check_tick does not look whether the task is busy.
TakeTick ==
  /\ TakesBox("tick")
  /\ nfc' = HandlePending(PresenceCheck([Fresh EXCEPT !.nfa.op = "check", !.nfa.auto = TRUE],
                                        DefaultOption(nfc)))

\* nfa_rw_presence_check_timeout
TakeTimeout ==
  TakesBox("timeout") /\ nfc' = HandlePending(HandlePresenceCheckRsp(Fresh, FALSE))

Silent == nfc.air = <<>> /\ back = <<>>

\* The timers of the RW module, for a command and for a poll.  That of a Type 4 tag
\* is longer than the timeout of a presence check, and all are longer than a
\* deactivation takes.
CheckIsLong == IsT4t

RwTimerExpires ==
  /\ (Silent \/ "late" \in lim.cases)
  /\ \/ /\ nfc.rw.st # "off" /\ ~nfc.deact /\ ~TimerWaits
        /\ CheckIsLong => nfc.rw.st # "check" /\ nfc.nfa.tle # "timeout"
     \/ "double_check" \in lim.cases
  /\ \E poll \in BOOLEAN :
       /\ IF poll THEN nfc.rw.ptimer ELSE nfc.rw.timer
       /\ \E stray \in Strays : Upward(RwTimeout(Fresh, poll, stray))
  /\ UNCHANGED <<tag, back, box, used>>

\* nfa_sys_ptim: the timer's message goes to the mailbox.  The timeout of a check
\* also runs, and expires, when the RW module answered at once.
NfaTimerExpires ==
  /\ nfc.nfa.tle # "off"
  /\ nfc.nfa.tle = "timeout" =>
       \/ Silent /\ (nfc.nfa.busy \/ nfc.nfa.auto) /\ CheckIsLong
       \/ "double_check" \in lim.cases
  /\ (box = <<>> \/ "stale_timer" \in lim.cases)
  /\ box' = Append(box, [k |-> nfc.nfa.tle])
  /\ nfc' = [Fresh EXCEPT !.nfa.tle = "off"]
  /\ UNCHANGED <<tag, back, used>>

-------------------------------------------------------------------------------
(* The application, the NFCC and the tag                                     *)

\* An NFA_Rw... call.  The application asks one thing at a time, and does not
\* read what it has failed to write, or make a Type 3 tag read-only with it.
AppAsks(op, m, opt) ==
  /\ used.ask < lim.asks /\ op \in lim.ops /\ nfc.nfa.active /\ nfc.owed["codes"] = 0
  /\ op = "write" => m \in New
  /\ op # "write" => m = <<>>
  /\ CASE op = "check" /\ IsT4t -> opt \in {"read", "iblock", "sleep"}
       [] op = "setro" /\ (IsT1t \/ IsT2t \/ IsT3t) -> opt \in {"", "hard"}
       [] op = "i93" -> IsI93 /\ opt \in {"block", "quiet"}
       [] OTHER -> opt = ""
  /\ (\E o \in Ops : nfc.owed[o] > 0) =>
       /\ "eager" \in lim.cases
       /\ op = "check" => "busy_check" \in lim.cases
  /\ ((op = "read" \/ (op = "setro" /\ IsT3t)) /\ (nfc.stale \/ nfc.owed["write"] + nfc.owed["format"] > 0))
       => "reread" \in lim.cases
  /\ ((IsT2t \/ IsI93) /\ nfc.rw.st = "idle" /\ ~Silent) => "stray" \in lim.cases
  /\ (op = "setro" /\ IsT1t /\ ~nfc.nfa.tlv) => "undetected" \in lim.cases
  /\ (op \in {"write", "format"} /\ IsT1t) =>
       /\ (~tag.nmn /\ tag.tlv) => "unfinished" \in lim.cases
       /\ tag.lock => "locked" \in lim.cases
  /\ (op = "read" /\ IsT3t) => (~tag.writef \/ "unfinished" \in lim.cases)
  /\ box' = Append(box, Request(op, m, opt))
  /\ nfc' = [Fresh EXCEPT !.owed[op] = @ + 1]
  /\ used' = [used EXCEPT !.ask = @ + 1]
  /\ UNCHANGED <<tag, back>>

\* NFA_Deactivate
AppDeactivates ==
  /\ used.act < lim.act /\ nfc.nfa.active /\ ~nfc.deact
  /\ (nfc.rw.nack \/ \E i \in DOMAIN back : back[i] = Nack) => "halted" \in lim.cases
  /\ nfc' = [Deactivate(Fresh) EXCEPT !.nfa.tle = "off"]
  /\ UNCHANGED <<tag, back, box, used>>

Answers(a) == back' = Append(back, a)

\* The tag is there and says nothing.
Halted == (IsT2t \/ IsI93) /\ tag.halt

\* The NFCC forwards a command and the tag's answer.
TagAnswers ==
  /\ nfc.air # <<>> /\ tag.near /\ tag.link /\ ~Halted /\ Head(nfc.air).c # "quiet"
  /\ LET cmd == Head(nfc.air)
     IN /\ tag' \in TagAfters(tag, cmd)
        /\ (nfc.deact /\ TagAnswer(tag, cmd) = Nack) => "halted" \in lim.cases
        /\ \E a \in {TagAnswer(tag, cmd)} \cup
                    (IF "bad_version" \in lim.cases /\ cmd.c = "n_sw"
                     THEN {Answer("AF", "bad", 0, <<>>)} ELSE {}) : Answers(a)
  /\ nfc' = [Fresh EXCEPT !.air = Tail(@)]
  /\ UNCHANGED <<box, used>>

\* The field breaks down in a command: no answer, or the NFCC reports an error, or
\* that a poll found nothing.
Breaks ==
  /\ nfc.air # <<>> /\ tag.link
  /\ LET gone == ~tag.near \/ Halted
     IN /\ ~gone => used.lost < lim.lost
        /\ tag' \in IF gone THEN {tag} ELSE TagTorn(tag, Head(nfc.air))
        /\ used' = IF gone THEN used ELSE [used EXCEPT !.lost = @ + 1]
  /\ \/ UNCHANGED back
     \/ Answers(IF Head(nfc.air).c = "poll" THEN Polled(FALSE) ELSE [k |-> "error"])
  /\ nfc' = [Fresh EXCEPT !.air = Tail(@)]
  /\ UNCHANGED box

\* A Type 2 tag gets a command it does not understand, refuses it, and may halt.
Refuses ==
  /\ nfc.air # <<>> /\ tag.near /\ tag.link /\ IsT2t /\ ~tag.halt /\ used.lost < lim.lost
  /\ nfc.deact => "halted" \in lim.cases
  /\ Answers(Nack)
  /\ \E h \in BOOLEAN : tag' = [tag EXCEPT !.halt = h]
  /\ nfc' = [Fresh EXCEPT !.air = Tail(@)]
  /\ used' = [used EXCEPT !.lost = @ + 1]
  /\ UNCHANGED box

\* An ISO 15693 tag is told to stay quiet.
FallsSilent ==
  /\ nfc.air # <<>> /\ tag.near /\ tag.link /\ ~Halted /\ Head(nfc.air).c = "quiet"
  /\ tag' \in TagAfters(tag, Head(nfc.air))
  /\ nfc' = [Fresh EXCEPT !.air = Tail(@)]
  /\ UNCHANGED <<back, box, used>>

\* An ISO-DEP tag asks for more time.
AsksForTime ==
  /\ nfc.air # <<>> /\ tag.near /\ tag.link /\ IsT4t /\ used.lost < lim.lost
  /\ Answers([k |-> "wtx"])
  /\ used' = [used EXCEPT !.lost = @ + 1]
  /\ nfc' = Fresh
  /\ UNCHANGED <<tag, box>>

TagLeaves ==
  /\ tag.near /\ tag' = [tag EXCEPT !.near = FALSE]
  /\ nfc' = Fresh
  /\ UNCHANGED <<back, box, used>>

\* RF_DEACTIVATE_NTF: the device manager asked for it, or the NFCC gave up.
Deactivated ==
  /\ tag.link /\ ~nfc.sleep /\ (nfc.deact \/ ~tag.near)
  /\ tag' = [tag EXCEPT !.link = FALSE]
  /\ Answers([k |-> "deactivate"])
  /\ nfc' = [Fresh EXCEPT !.air = <<>>]
  /\ UNCHANGED <<box, used>>

\* RF_INTF_ACTIVATED_NTF
Activated ==
  /\ ~tag.link /\ used.act < lim.act
  /\ \A i \in DOMAIN back : back[i].k # "deactivate"
  /\ ((IsT1t \/ IsT3t) /\ Waiting("check") > 0) => "busy_check" \in lim.cases
  /\ (IsT1t /\ Waiting("setro") > 0) => "undetected" \in lim.cases
  /\ tag' = [TagReset(tag) EXCEPT !.link = TRUE, !.near = TRUE]
  /\ Answers([k |-> "activate"])
  /\ nfc' = [Fresh EXCEPT !.air = <<>>]
  /\ used' = [used EXCEPT !.act = @ + 1]
  /\ UNCHANGED box

\* nfa_dm_disc_sleep_wakeup puts the tag to sleep, which the RW module takes for
\* the end of the activation.  A tag that wakes up again is activated anew, without
\* a word to the application, before the check is answered, but not one that had
\* halted.  With a deactivation waiting it may be taken as woken when it is asleep.
SleptAndWoken ==
  /\ nfc.sleep /\ tag.link /\ back = <<>>
  /\ LET s == [Fresh EXCEPT !.sleep = FALSE, !.rw.st = "off", !.rw.timer = FALSE, !.air = <<>>]
         woken == IF s.nfa.halt = NoEvent THEN CommandComplete(Activate(s)) ELSE s
     IN \/ nfc' = HandlePending(HandleSleepWakeup(IF tag.near THEN woken ELSE s, tag.near))
        \/ nfc.deact /\ nfc' = HandlePending(HandleSleepWakeup(s, TRUE))
  /\ tag' = TagReset(tag)
  /\ UNCHANGED <<back, box, used>>

-------------------------------------------------------------------------------
Init ==
  /\ used \in [ask : {0}, act : {0}, lost : {0}, lim : Bounds]
  /\ nfc = [rw |-> RwOff, nfa |-> NfaOff, air |-> <<>>, told |-> <<>>, now |-> <<>>,
            ev |-> NoEvent, owed |-> [op \in Ops |-> 0], deact |-> FALSE, sleep |-> FALSE,
            stale |-> FALSE]
  /\ \E fmt \in BOOLEAN, ver \in {1, 2} :
       tag = [fmt |-> fmt, ver |-> ver, link |-> FALSE, near |-> FALSE]
             @@ TagNew(lim.type, fmt)
  /\ back = <<>> /\ box = <<>>

TaskNext ==
  \/ TakeAnswer \/ TakeError \/ TakeWtx \/ TakePolled \/ TakeDeactivation \/ TakeActivation
  \/ TakeRequest \/ TakeTick \/ TakeTimeout \/ RwTimerExpires \/ NfaTimerExpires

AirNext == TagAnswers \/ Breaks \/ Refuses \/ FallsSilent \/ AsksForTime \/ TagLeaves \/ Deactivated \/ Activated
           \/ SleptAndWoken

Next ==
  \/ TaskNext \/ AirNext \/ AppDeactivates
  \/ \E op \in Ops \ {"codes"}, m \in New \cup {<<>>}, opt \in {"", "read", "iblock", "sleep", "hard", "block", "quiet"} :
       AppAsks(op, m, opt)

Spec == Init /\ [][Next]_vars

\* The task runs, timers expire, and a deactivation that was asked for takes
\* place, as does the end of sleep.  The tag need not answer.
FairSpec ==
  /\ Spec
  /\ WF_vars(TakeAnswer \/ TakeError \/ TakeWtx \/ TakePolled \/ TakeDeactivation \/ TakeActivation)
  /\ WF_vars(TakeRequest \/ TakeTick \/ TakeTimeout)
  /\ WF_vars(RwTimerExpires) /\ WF_vars(NfaTimerExpires)
  /\ WF_vars(TagAnswers \/ FallsSilent \/ Breaks)
  /\ WF_vars(Deactivated /\ nfc.deact) /\ WF_vars(SleptAndWoken)

-------------------------------------------------------------------------------
(* What the reader and writer promise                                        *)

\* What is readable on the tag changes in two ways only: the message is withdrawn,
\* or, once it is withdrawn, a whole one appears, that of a write or the one that was
\* there.  Whoever reads the tag next, wherever the sequence broke off, never finds a
\* part of a message or a mixture of two.
MessageWhole ==
  [][Readable(tag') # Readable(tag) =>
       \/ Readable(tag') = <<>>
       \/ Readable(tag) = <<>> /\ Readable(tag') \in {Old} \cup New]_vars

\* A success reported to the application is one: what was written is on the tag,
\* what was read is the message of the tag, a read-only tag is read-only.
ReportsTrue ==
  \A i \in DOMAIN nfc.told :
    LET e == nfc.told[i]
    IN e.ok => CASE e.op \in {"write", "read"} -> Readable(tag) = e.msg
                 [] e.op = "setro" -> tag.ro
                 [] e.op = "format" -> Readable(tag) = <<>>
                 [] OTHER -> TRUE

\* A message that was read is a whole one, as it was written.  Of a Type 3 tag the
\* comment on the attributes says "WriteFlag: 00h if writing data finished; 0Fh if
\* writing data in progress" (rw_t3t.c:1333).
ReadsWhole ==
  \A i \in DOMAIN nfc.told :
    nfc.told[i].op = "read" /\ nfc.told[i].ok => nfc.told[i].msg \in {Old, <<>>} \cup New

\* No request is answered twice, and none that was not made.
AnsweredOnce == \A op \in Ops : nfc.owed[op] >= 0

\* Every request is answered, or ended by the deactivation the application hears
\* of, whatever the tag does.
RequestsEnd == (\E op \in Ops : nfc.owed[op] > 0) ~> (\A op \in Ops : nfc.owed[op] <= 0)

===============================================================================
