-------------------------------- MODULE RwCore --------------------------------
(***************************************************************************)
(* What the modules of the tag reader and writer share: the control blocks *)
(* of NFA RW (nfa_rw_act.c) and of the RW module of the tag that is        *)
(* active (nfc/tags), the way to the tag and back, and the parts of NFA RW *)
(* that an RW module calls before it returns.                              *)
(*                                                                         *)
(* RW and NFA RW run on NFC_TASK and call each other directly, so a        *)
(* handler is a function from the task's state to the task's state, and    *)
(* one action of NfaRw applies it.  A message is a sequence of units; a    *)
(* unit is what one command reads or writes.                               *)
(***************************************************************************)
EXTENDS Integers, Sequences, FiniteSets, SequencesExt

CONSTANTS
  Old,          \* the NDEF message the tag holds at first
  New,          \* the messages the application writes
  Room,         \* units of NDEF data the tag has room for
  MaxRetries,   \* RW_MAX_RETRIES
  Bounds        \* what a behaviour may do; each takes one of these records:
                \*   type, excl  the tag, and whether RF control is exclusive
                \*   auto        nfa_dm_cfg.auto_presence_check
                \*   asks, ops   calls of the application: how many, and of what
                \*   act, lost   activations; commands lost, torn or in error
                \*   cases       the rare cases included, named where they are used

ASSUME MessageAssumption ==
  /\ Room \in Nat /\ MaxRetries \in Nat
  /\ \A m \in New \cup {Old} : m \in Seq(STRING) /\ m # <<>> /\ Len(m) <= Room
  /\ Old \notin New

VARIABLES
  nfc,          \* NFC_TASK: NFA RW, the RW module, and what they have given out
  tag,          \* the tag and the link to it (external)
  back,         \* what the NFCC has for NFC_TASK
  box,          \* NFA's mailbox: requests of the application, and timers
  used          \* how much of each bound is used, and the bounds (lim)

vars == <<nfc, tag, back, box, used>>

lim == used.lim

\* Requests of the application (i93: a command of ISO 15693), and what an activation
\* is reported with (codes).
Ops == {"detect", "read", "write", "check", "format", "setro", "codes", "i93"}

Request(op, m, opt) == [k |-> "req", op |-> op, msg |-> m, opt |-> opt]

\* A command to the tag and an answer of it: its status word or code, the kind
\* of its body, and the units in the body; n is an offset, a length or a flag.
Cmd(c, n, d) == [c |-> c, n |-> n, d |-> d]
Answer(sw, b, n, d) == [k |-> "data", sw |-> sw, b |-> b, n |-> n, d |-> d]

\* An event of the RW module for NFA RW.
Event(e, ok, n, d) == [e |-> e, ok |-> ok, n |-> n, d |-> d]
NoEvent == Event("none", TRUE, 0, <<>>)

-------------------------------------------------------------------------------
(* rw_cb and nfa_rw_cb                                                       *)

\* The fields every tag type has; sub is the step of the operation under way.
\*   det, ro   NDEF was detected, the tag is read-only
\*   len       length of the message; off, rem: progress of a transfer
\*   src       the message to write; upd: there is data of it to send
\*   last, tries  the command to repeat, and how often it was
\* Of Type 1, Type 4 and ISO 15693 tags ver; of ISO 15693 and Type 3 tags cmd, the current
\* command; of Type 3 tags poll, the poll under way (its timer is ptimer), and wf,
\* WriteF; of Type 2 tags hdr (the header has been read; of ISO 15693 tags, the size is
\* known), ccok (it announces NDEF), dyn (it has dynamic lock bytes), locks (they are
\* known), skip (they are not to be read), nack (the tag has refused the command) and
\* cache, the first block.  ccro: the tag says it is read-only; hard: a hard lock.
\* Of Type 1 tags attr, the state of the tag, prev, the answers that may come to
\* repetitions of an earlier command, dyn (lock bytes were looked for), cache, the CC.
RwOff == [st |-> "off", sub |-> "", det |-> FALSE, ro |-> FALSE, len |-> 0, off |-> 0,
          rem |-> 0, src |-> <<>>, upd |-> FALSE, timer |-> FALSE, last |-> <<>>, tries |-> 0,
          ver |-> 2, ccro |-> FALSE,
          cmd |-> "", poll |-> "", ptimer |-> FALSE, wf |-> FALSE, hard |-> FALSE,
          hdr |-> FALSE, ccok |-> FALSE, dyn |-> FALSE, locks |-> FALSE, skip |-> FALSE,
          nack |-> FALSE, cache |-> <<>>, attr |-> "unknown", prev |-> <<>>]

\*   st        what is known of NDEF on the tag: unknown, true or false
\*   tle       nfa_rw_cb.tle: off, a tick (start a check) or the check's timeout
\*   pend      the request that waits for the end of an automatic check
\*   halt      the event that waits until a halted Type 2 tag is woken up
\*   skip      the dynamic lock bytes of a Type 2 tag are not to be read
\*   tlv, hard TLVs were looked for on a Type 1 tag; the lock asked for is a hard one
NfaOff == [active |-> FALSE, busy |-> FALSE, auto |-> FALSE, ndefOk |-> FALSE, ro |-> FALSE,
           st |-> "unknown", op |-> "none", cur |-> 0, wr |-> <<>>, buf |-> <<>>,
           pend |-> <<>>, tle |-> "off", halt |-> NoEvent, skip |-> FALSE, tlv |-> FALSE, hard |-> FALSE]

\* nfa_rw_command_complete, nfa_rw_check_start_presence_check_timer
CommandComplete(s) ==
  [s EXCEPT !.nfa.busy = FALSE,
            !.nfa.tle = IF lim.auto /\ ~lim.excl THEN "tick" ELSE @]

\* nfa_dm_act_conn_cback_notify: an event that answers a request of the application.
Tell(s, op, ok, d) ==
  [s EXCEPT !.told = Append(@, [op |-> op, ok |-> ok, msg |-> d]),
            !.owed[op] = @ - 1]

\* nfa_dm_rf_deactivate (NFA_DEACTIVATE_TYPE_DISCOVERY)
Deactivate(s) == [s EXCEPT !.deact = TRUE]

\* The handlers of some types clear cur_op when an operation is over.
EndOp(s) == IF lim.type \in {"t4t", "i93"} THEN [s EXCEPT !.nfa.op = "none"] ELSE s

\* nfa_rw_handle_presence_check_rsp.  A request that waited is handled at once,
\* which NfaRw does (now); with the tag gone it is dropped.
HandlePresenceCheckRsp(s, ok) ==
  LET off == [s EXCEPT !.nfa.tle = "off"]
      s1 == IF ok THEN CommandComplete(off) ELSE [off EXCEPT !.nfa.busy = FALSE]
      s2 == [s1 EXCEPT !.nfa.auto = FALSE, !.nfa.pend = <<>>]
      s3 == IF s.nfa.pend = <<>> THEN s2
            ELSE IF s.nfa.pend[1].op = "check" THEN Tell(s2, "check", ok, <<>>)
            ELSE IF ok THEN [s2 EXCEPT !.now = s.nfa.pend] ELSE s2
  IN IF s.nfa.auto THEN IF ok THEN s3 ELSE Deactivate(s3)
     ELSE LET t == Tell(s1, "check", ok, <<>>)
          IN IF ~lim.excl /\ ~ok THEN Deactivate(t) ELSE t

\* The RW_T?T_SET_..._RO_EVT of every tag type: nfa_rw_handle_t4t_evt and its likes.
HandleSetRo(s, ok) == EndOp(CommandComplete(Tell(s, "setro", ok, <<>>)))

-------------------------------------------------------------------------------
(* RW modules: what all of them do alike                                     *)

\* What a start function returns: the state, and whether the operation began.
Started(s) == [s |-> s, ok |-> TRUE]
Refused(s) == [s |-> s, ok |-> FALSE]

\* NFC_SendData with the response timer, and without it.
SendRaw(s, cmd) == [s EXCEPT !.air = Append(@, cmd)]
Send(s, cmd) == [SendRaw(s, cmd) EXCEPT !.rw.timer = TRUE]

Enter(s, st, sub) == [s EXCEPT !.rw.st = st, !.rw.sub = sub]
Step(s, sub, cmd) == Send([s EXCEPT !.rw.sub = sub], cmd)
Raise(s, e, ok, n, d) == [s EXCEPT !.ev = Event(e, ok, n, d)]

\* The presence checks of every RW module begin with these cases.
CheckFirst(s, started) ==
  CASE s.rw.st = "off"  -> Started(HandlePresenceCheckRsp(s, FALSE))
    [] s.rw.st = "idle" -> started
    [] OTHER            -> Started(HandlePresenceCheckRsp(s, TRUE))

===============================================================================
