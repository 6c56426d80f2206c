-------------------------------- MODULE NciCmd --------------------------------
(***************************************************************************)
(* The command plane of libnfc-nci's NFC task (nfc_ncif.c, nfc_main.c,     *)
(* nfc_task.c, nfc_vs.c, nci_hrcv.c): the NCI command window and transmit  *)
(* queue, the matching of responses, the vendor callbacks, the pending     *)
(* discovery, the response timer with its recovery, and the life cycle of  *)
(* the stack from NFC_Enable to NFC_Disable.                               *)
(*                                                                         *)
(* Three actors take steps.  The NFC task owns the control block nfc and   *)
(* handles one event at a time.  The HAL's client thread takes the         *)
(* messages of nfc.halq in order and calls back into the stack, which      *)
(* posts to the task's mailbox mbox.  The NFCC answers the commands of     *)
(* nfc.wire in order and sends notifications.                              *)
(***************************************************************************)
EXTENDS Naturals, Sequences, FiniteSets

CONSTANTS
  Kinds,        \* the kinds of command the application sends
  Cases,        \* what else the run includes:
                \*   "rf"       the application starts and stops RF discovery
                \*   "late"     the response timer may expire with the answer on its way
                \*   "restart"  the HAL recovers the NFCC with no command due
                \*   "give_up"  the HAL's initialization or recovery may fail for good
                \*   "cycle"    NFC_PowerCycleNFCC is called
                \*   "overtaken" the application calls while the start event is pending
  MaxIds,       \* bound: the application sends no command past this number
  MaxNtf,       \* bound: notifications the NFCC sends
  MaxFaults,    \* bound: lost commands, resets, bad responses, bus errors
  MaxPower      \* bound: power-off, power-cycle and disable requests

ASSUME KindsAssumption == Kinds \subseteq {"plain", "vsc", "nxp"}
ASSUME CasesAssumption == Cases \subseteq {"rf", "late", "restart", "give_up", "cycle", "overtaken"}
ASSUME BoundAssumption ==
  MaxIds \in Nat /\ MaxNtf \in Nat /\ MaxFaults \in Nat /\ MaxPower \in Nat

-------------------------------------------------------------------------------
(* Data.  A command keeps its identity (its number of issue), the group and  *)
(* opcode a response is matched on, and which callback its buffer carries.   *)

MaxWindow == 1                                  \* NCI_MAX_CMD_WINDOW
MaxInitRetry == 2                               \* NFC_NFCC_INIT_MAX_RETRY

Header == {"CORE_RESET", "CORE_INIT", "DISCOVER_MAP", "DISCOVER", "DEACTIVATE",
           "SET_CONFIG", "PROP", "SCREEN", "NONE"}
Command == [id : Nat, hdr : Header, kind : {"plain", "vsc", "nxp"}]
NoCommand == [id |-> 0, hdr |-> "NONE", kind |-> "plain"]

\* LISTEN_ACTIVATED: activated as an NFC-DEP target (listen F).
Notification == {"RESET", "ACTIVATED", "LISTEN_ACTIVATED", "DEACTIVATED"}
HalEvent == {"OPEN_CPLT", "OPEN_FAILED", "POST_INIT_CPLT", "CLOSE_CPLT", "ERROR"}
Result == {"ok", "bad", "corrupt", "mute"}
Message == [type : {"RSP"}, hdr : Header, id : Nat, res : Result]
             \cup [type : {"NTF"}, hdr : Notification, id : {0}, res : {"ok"}]
             \cup [type : {"HAL"}, hdr : HalEvent, id : {0}, res : {"ok"}]

\* What reaches the task's mailbox: an open that succeeded comes as an event instead.
Posted == {m \in Message : m.type = "HAL" => m.hdr # "OPEN_CPLT"}

Rsp(h, i, r) == [type |-> "RSP", hdr |-> h, id |-> i, res |-> r]
Ntf(h) == [type |-> "NTF", hdr |-> h, id |-> 0, res |-> "ok"]
Hal(e) == [type |-> "HAL", hdr |-> e, id |-> 0, res |-> "ok"]

State == {"NONE", "W4_HAL_OPEN", "CORE_INIT", "W4_POST_INIT_CPLT", "IDLE", "OPEN",
          "CLOSING", "W4_HAL_CLOSE", "NFCC_POWER_OFF_SLEEP", "CRASHED"}
BeforeIdle == {"NONE", "W4_HAL_OPEN", "CORE_INIT", "W4_POST_INIT_CPLT"}
Up == {"IDLE", "OPEN", "CLOSING"}
Flag == {"RESTARTING", "POWER_OFF_SLEEP", "POWER_CYCLE_NFCC", "CONTROL_REQUESTED",
         "DISCOVER_PENDING"}
Event == {"ENABLE", "DISABLE", "RESTART", "POWER_OFF"}

Nfc == [st : State,                   \* nfc_state
        window : Nat,                 \* nci_cmd_window
        q : Seq(Command),             \* nci_cmd_xmit_q
        flags : SUBSET Flag,          \* flags
        last : Command,               \* last_hdr, last_cmd
        cback : Nat,                  \* p_vsc_cback: the command that gave it, 0 for NULL
        nxp : BOOLEAN,                \* nxpCbflag
        timer : BOOLEAN,              \* nci_wait_rsp_timer is running
        listen : BOOLEAN,             \* listen_activation_timer_list is running
        conn : BOOLEAN,               \* conn_id[] maps nfcc_dh_conn_id to a control block
        init : BOOLEAN,               \* p_nci_init_rsp is set
        retry : Nat,                  \* retry_cnt of nfc_ncif_proc_init_rsp
        resp : BOOLEAN,               \* p_resp_cback is set
        owed : SUBSET Event,          \* ghost: events the application waits for
        reports : SUBSET [cb : Nat, rsp : Nat],  \* ghost: vendor callbacks made
        next : Nat,                   \* ghost: number of the next command
        wire : Seq(Command),          \* commands the HAL wrote and the NFCC holds
        open : BOOLEAN,               \* the HAL reads and writes the NFCC
        tml : BOOLEAN,                \* gpphTmlNfc_Context is allocated
        halq : Seq(Message)]          \* the client thread's message queue

VARIABLES
  nfc,      \* nfc_cb, with what the NFC task has handed to the HAL
  mbox,     \* the NFC task's mailbox
  ready,    \* NFC_TASK_EVT_TRANSPORT_READY is set for the NFC task
  checked,  \* the client thread has tested nfc_state and not yet sent that event
  rf,       \* what the NFCC's RF interface is doing
  budget    \* what is left of the bounds

vars == <<nfc, mbox, ready, checked, rf, budget>>

-------------------------------------------------------------------------------
(* The command window.  Every operator maps a control block to the control   *)
(* block the C function leaves behind.                                       *)

\* Mutant: the window is not counted down.
TransmitKeepsWindow(n, c) ==
  [n EXCEPT !.last = c,
            !.cback = IF c.kind = "plain" THEN @ ELSE c.id,
            !.nxp = @ \/ c.kind = "nxp",
            !.wire = IF n.open THEN Append(@, c) ELSE @,
            !.timer = TRUE]

\* The part of nfc_ncif_check_cmd_queue that hands one command to the HAL.
Transmit(n, c) ==
  [n EXCEPT !.last = c,
            !.cback = IF c.kind = "plain" THEN @ ELSE c.id,
            !.nxp = @ \/ c.kind = "nxp",
            !.wire = IF n.open THEN Append(@, c) ELSE @,
            !.window = @ - 1,
            !.timer = TRUE]

\* nci_snd_discover_cmd for the parameters kept in p_disc_pending: the queue is
\* empty and the window open, so the command goes straight out.
IssuePendingDiscover(n) ==
  Transmit([n EXCEPT !.flags = @ \ {"CONTROL_REQUESTED", "DISCOVER_PENDING"},
                     !.listen = FALSE,
                     !.next = @ + 1],
           [id |-> n.next, hdr |-> "DISCOVER", kind |-> "plain"])

\* Mutant: a new command overtakes the queue.
CheckCmdQueueNewFirst(n, cs) ==
  LET all  == cs \o n.q
      sent == IF n.window > 0 /\ all # <<>>
                THEN Transmit([n EXCEPT !.q = Tail(all)], Head(all))
                ELSE [n EXCEPT !.q = all]
  IN  IF sent.window = MaxWindow /\ {"CONTROL_REQUESTED", "DISCOVER_PENDING"} \subseteq sent.flags
        THEN IssuePendingDiscover(sent)
        ELSE sent

\* nfc_ncif_check_cmd_queue; cs is <<c>> for a new command and <<>> for NULL.
\* The HAL's prediscover always returns 0, so it never keeps the window.
CheckCmdQueue(n, cs) ==
  LET all  == n.q \o cs
      sent == IF n.window > 0 /\ all # <<>>
                THEN Transmit([n EXCEPT !.q = Tail(all)], Head(all))
                ELSE [n EXCEPT !.q = all]
  IN  IF sent.window = MaxWindow /\ {"CONTROL_REQUESTED", "DISCOVER_PENDING"} \subseteq sent.flags
        THEN IssuePendingDiscover(sent)
        ELSE sent

NewCommand(n, h, k) == <<[id |-> n.next, hdr |-> h, kind |-> k]>>

\* nfc_ncif_send_cmd for a command an nci_snd_* function built.
SendCmd(n, h) ==
  CheckCmdQueue([n EXCEPT !.next = @ + 1, !.listen = FALSE], NewCommand(n, h, "plain"))

\* Mutant: the command is queued and the queue not looked at.
SendVendorCmdQueues(n, h, k) ==
  [n EXCEPT !.next = @ + 1, !.q = @ \o NewCommand(n, h, k)]

\* NFC_SendVsCommand and NFC_SendNxpNciCommand queue their buffer themselves.
SendVendorCmd(n, h, k) ==
  CheckCmdQueue([n EXCEPT !.next = @ + 1], NewCommand(n, h, k))

\* Mutants: the timer is stopped after the next command is sent; the queue is looked
\* at only when it holds a command; the window is opened whatever it is.
UpdateWindowStopsLate(n) ==
  IF n.window = MaxWindow
    THEN n
    ELSE [CheckCmdQueue([n EXCEPT !.cback = 0, !.window = @ + 1], <<>>) EXCEPT !.timer = FALSE]
UpdateWindowOnlyQueue(n) ==
  IF n.window = MaxWindow
    THEN n
    ELSE LET o == [n EXCEPT !.timer = FALSE, !.cback = 0, !.window = @ + 1]
         IN  IF n.q = <<>> THEN o ELSE CheckCmdQueue(o, <<>>)
UpdateWindowUntested(n) ==
  CheckCmdQueue([n EXCEPT !.timer = FALSE, !.cback = 0, !.window = @ + 1], <<>>)

\* nfc_ncif_update_window
UpdateWindow(n) ==
  IF n.window = MaxWindow
    THEN n
    ELSE CheckCmdQueue([n EXCEPT !.timer = FALSE, !.cback = 0, !.window = @ + 1], <<>>)

-------------------------------------------------------------------------------
(* Start-up, shut-down and recovery.                                         *)

\* phNxpNciHal_close: nothing more is read or written, the client thread gets
\* the completion behind what it already has.  It reads the transport's context
\* through a pointer it does not test.
HalClose(n) ==
  IF n.tml
    THEN [n EXCEPT !.open = FALSE, !.tml = FALSE, !.wire = <<>>,
                   !.halq = Append(@, Hal("CLOSE_CPLT"))]
    ELSE [n EXCEPT !.st = "CRASHED"]

\* phNxpNciHal_open.  phTmlNfc_Init refuses a transport that was not closed, and
\* without its callbacks the HAL drops what the client thread still has.
HalOpened(n) ==
  [n EXCEPT !.open = TRUE, !.tml = TRUE, !.halq = Append(@, Hal("OPEN_CPLT"))]
HalOpenFailed(n) == [n EXCEPT !.open = FALSE, !.wire = <<>>, !.halq = <<>>]

\* p_resp_cback is called with event e.
Report(n, e) == IF n.resp THEN [n EXCEPT !.owed = @ \ {e}] ELSE n

\* nfc_main_notify_enable_status
NotifyEnableStatus(n, ok) ==
  IF ~n.resp THEN n
  ELSE IF n.flags \cap {"RESTARTING", "POWER_CYCLE_NFCC"} # {}
    THEN Report([n EXCEPT !.flags = (@ \ {"RESTARTING", "POWER_CYCLE_NFCC"})
                                     \cup (IF ok THEN {} ELSE {"POWER_OFF_SLEEP"})],
                "RESTART")
    ELSE Report(n, "ENABLE")

\* nfc_enabled with NCI_STATUS_OK: map the RF interfaces, then tell the application.
EnabledOk(n) ==
  NotifyEnableStatus(SendCmd([n EXCEPT !.st = "IDLE", !.conn = TRUE], "DISCOVER_MAP"), TRUE)

\* nfc_enabled with a failure
EnabledFailed(n) ==
  IF "RESTARTING" \in n.flags
    THEN NotifyEnableStatus([n EXCEPT !.st = "NFCC_POWER_OFF_SLEEP"], FALSE)
  ELSE IF n.st = "CORE_INIT"
    THEN HalClose([n EXCEPT !.conn = FALSE])
    ELSE NotifyEnableStatus([n EXCEPT !.conn = FALSE, !.st = "NONE"], FALSE)

\* Mutant: the window is not restored.
GenCleanupKeepsWindow(n) ==
  [n EXCEPT !.flags = @ \ {"DISCOVER_PENDING", "CONTROL_REQUESTED"},
            !.conn = FALSE, !.init = FALSE, !.timer = FALSE, !.q = <<>>]

\* nfc_gen_cleanup with nfc_main_flush_cmd_queue.  p_vsc_cback and nxpCbflag stay.
GenCleanup(n) ==
  [n EXCEPT !.flags = @ \ {"DISCOVER_PENDING", "CONTROL_REQUESTED"},
            !.conn = FALSE, !.init = FALSE,
            !.window = MaxWindow, !.timer = FALSE, !.q = <<>>]

\* nfc_task_shutdown_nfcc, without its flush of the mailbox.  A power cycle resets
\* the NFCC and the HAL reports it as an open.
ShutdownNfcc(n) ==
  LET c == GenCleanup(n)
  IN  IF "POWER_OFF_SLEEP" \in c.flags THEN HalClose([c EXCEPT !.st = "W4_HAL_CLOSE"])
      ELSE IF "POWER_CYCLE_NFCC" \in c.flags
        THEN [c EXCEPT !.st = "W4_HAL_OPEN", !.wire = <<>>,
                       !.halq = Append(@, Hal("OPEN_CPLT"))]
      ELSE HalClose([c EXCEPT !.st = "W4_HAL_CLOSE", !.listen = FALSE])

\* nfc_ncif_cmd_timeout: the window is left as it is.  It reads the connection
\* control block of nfcc_dh_conn_id through a pointer it does not test.
CmdTimeoutRecovery(n) ==
  IF n.conn THEN [n EXCEPT !.timer = FALSE, !.wire = <<>>]
            ELSE [n EXCEPT !.st = "CRASHED"]

\* Mutant: the buffer injected is the answer to another command of the same kind.
RecoveryAnswerStale(n, discovering) == Rsp(n.last.hdr, 0, "ok")

\* The response phNxpNciHal_core_initialized injects when its recovery ends: the
\* answer to the last command it wrote.  It writes the stack's last command again,
\* except a deactivation, and a discovery where RF was discovering.
RecoveryAnswer(n, discovering) ==
  CASE n.last.hdr = "DEACTIVATE" ->
         Rsp(IF discovering THEN "DISCOVER" ELSE "SCREEN", 0, "ok")
    [] OTHER -> Rsp(n.last.hdr, n.last.id, "ok")

\* What reaches the mailbox: nothing when the HAL gives up, or drops it on the way.
RecoveryPost(n, discovering, ok) ==
  IF n.conn /\ ok /\ n.st # "W4_HAL_CLOSE" THEN <<RecoveryAnswer(n, discovering)>> ELSE <<>>

-------------------------------------------------------------------------------
(* Handling of what the NFCC sent: nfc_ncif_process_event.                   *)

Vendor(n, r) == [n EXCEPT !.reports = IF n.cback = 0 THEN @
                                      ELSE @ \cup {[cb |-> n.cback, rsp |-> r]}]

\* nfc_ncif_proc_reset_rsp for a response
ProcResetRsp(n, r) ==
  LET c == IF n.flags \cap {"RESTARTING", "POWER_CYCLE_NFCC"} # {}
             THEN [n EXCEPT !.conn = FALSE] ELSE n
  IN  IF r.res = "ok" THEN SendCmd(c, "CORE_INIT") ELSE EnabledFailed(c)

\* nfc_ncif_proc_init_rsp.  "bad" is an error status, "corrupt" a response too
\* short to hold the firmware version.  phNxpNciHal_core_initialized runs its own
\* exchanges and then queues the completion.  With an NFCC that fails them ("mute") it
\* returns after its retries, and nothing is queued: its result is not looked at.
ProcInitRsp(n, r) ==
  CASE r.res \in {"ok", "mute"} ->
         [n EXCEPT !.st = "W4_POST_INIT_CPLT", !.retry = 0, !.init = TRUE,
                   !.halq = IF r.res = "ok" THEN Append(@, Hal("POST_INIT_CPLT")) ELSE @]
    [] r.res = "corrupt" /\ n.retry < MaxInitRetry -> [n EXCEPT !.retry = @ + 1]
    [] OTHER -> EnabledFailed([n EXCEPT !.retry = 0])

RetriesInit(n, r) == r.hdr = "CORE_INIT" /\ r.res = "corrupt" /\ n.retry < MaxInitRetry

\* nci_proc_core_rsp, nci_proc_rf_management_rsp, nci_proc_prop_rsp
DispatchRsp(n, r) ==
  CASE r.hdr = "CORE_RESET" -> ProcResetRsp(n, r)
    [] r.hdr = "CORE_INIT"  -> ProcInitRsp(n, r)
    [] r.hdr = "DEACTIVATE" -> [n EXCEPT !.st = "IDLE"]
    [] r.hdr \in {"PROP", "SCREEN"} -> Vendor(n, r.id)
    [] OTHER -> n

Matches(n, r) == r.hdr = n.last.hdr

\* The response branch of nfc_ncif_process_event.
ProcessRsp(n, r) == IF Matches(n, r) THEN UpdateWindow(DispatchRsp(n, r)) ELSE n

\* nci_proc_prop_nxp_rsp, then the flag is cleared.  Every response and every
\* notification modelled here passes nfc_ncif_proc_proprietary_rsp.
ProcessNxpRsp(n, i) ==
  [UpdateWindow([Vendor(n, i) EXCEPT !.cback = 0]) EXCEPT !.nxp = FALSE]

\* Mutant: a deactivation counts only if the stack asked for it.
ProcessNtfClosingOnly(n, h) ==
  CASE h = "ACTIVATED" -> [n EXCEPT !.st = "OPEN"]
    [] h = "LISTEN_ACTIVATED" -> [n EXCEPT !.st = "OPEN", !.listen = TRUE]
    [] h = "DEACTIVATED" -> IF n.st = "CLOSING" THEN [n EXCEPT !.st = "IDLE"] ELSE n

\* The notification branch, but for CORE_RESET_NTF (nfc_ncif_proc_activate and
\* nfc_ncif_proc_deactivate).
ProcessNtf(n, h) ==
  CASE h = "ACTIVATED" -> [n EXCEPT !.st = "OPEN"]
    [] h = "LISTEN_ACTIVATED" -> [n EXCEPT !.st = "OPEN", !.listen = TRUE]
    [] h = "DEACTIVATED" -> [n EXCEPT !.st = "IDLE"]

\* nfc_main_handle_hal_evt
HandleHalEvt(n, e) ==
  CASE e = "OPEN_FAILED" -> EnabledFailed(n)
    [] e = "CLOSE_CPLT" ->
         IF ~n.resp THEN n
         ELSE IF n.st # "W4_HAL_CLOSE"
           THEN NotifyEnableStatus([n EXCEPT !.st = "NONE"], FALSE)
         ELSE IF "POWER_OFF_SLEEP" \in n.flags
           THEN Report([n EXCEPT !.flags = @ \ {"POWER_OFF_SLEEP"},
                                 !.st = "NFCC_POWER_OFF_SLEEP"], "POWER_OFF")
           ELSE [Report([n EXCEPT !.st = "NONE"], "DISABLE") EXCEPT !.resp = FALSE]
    [] e = "POST_INIT_CPLT" ->
         LET c == IF n.init /\ n.st = "W4_POST_INIT_CPLT" THEN EnabledOk(n) ELSE n
         IN  [c EXCEPT !.init = FALSE]
    [] e = "ERROR" ->
         IF n.st \in BeforeIdle THEN EnabledFailed(n) ELSE n

-------------------------------------------------------------------------------
(* Actions of the NFC task.                                                  *)

Running == nfc.st # "CRASHED"
NoStartPending == "overtaken" \in Cases \/ ~(checked \/ ready)
Spend(k) == budget[k] > 0 /\ budget' = [budget EXCEPT ![k] = @ - 1]

\* A response on its way to the NFC task that the last command is matched with.
AnswerOnItsWay ==
  \E m \in {nfc.halq[i] : i \in DOMAIN nfc.halq} \cup {mbox[i] : i \in DOMAIN mbox} :
    m.type = "RSP" /\ m.hdr = nfc.last.hdr

\* The task takes NFC_TASK_EVT_TRANSPORT_READY (nfc_task).
TransportReady ==
  /\ Running /\ ready
  /\ ready' = FALSE
  /\ nfc' = SendCmd([nfc EXCEPT !.st = "CORE_INIT"], "CORE_RESET")
  /\ UNCHANGED <<mbox, checked, rf, budget>>

Arrived(n) == [n EXCEPT !.listen = FALSE]

\* The task takes a response from its mailbox.
HandleRsp ==
  /\ Running /\ mbox # <<>> /\ Head(mbox).type = "RSP"
  /\ LET r == Head(mbox)
         n == Arrived(nfc)
     IN  /\ nfc' = IF n.nxp THEN ProcessNxpRsp(n, r.id) ELSE ProcessRsp(n, r)
         /\ ready' = (ready \/ (~n.nxp /\ Matches(n, r) /\ RetriesInit(n, r)))
  /\ mbox' = Tail(mbox)
  /\ UNCHANGED <<checked, rf, budget>>

\* The task takes a notification other than CORE_RESET_NTF.
HandleNtf ==
  /\ Running /\ mbox # <<>> /\ Head(mbox).type = "NTF"
  /\ nfc.nxp \/ Head(mbox).hdr # "RESET"
  /\ LET n == Arrived(nfc)
     IN  nfc' = IF n.nxp THEN ProcessNxpRsp(n, 0) ELSE ProcessNtf(n, Head(mbox).hdr)
  /\ mbox' = Tail(mbox)
  /\ UNCHANGED <<ready, checked, rf, budget>>

\* nfc_ncif_cmd_timeout ends in the HAL's recovery: reset, init, configuration and
\* the last command again; or the HAL gives up after its retries.
Recover(n, rest) ==
  \E discovering \in BOOLEAN, ok \in BOOLEAN :
    /\ IF n.open THEN ok \/ "give_up" \in Cases ELSE ~ok
    /\ discovering => "rf" \in Cases
    /\ nfc' = CmdTimeoutRecovery(n)
    /\ mbox' = rest \o RecoveryPost(n, discovering, ok)
    /\ rf' = IF discovering /\ ok THEN "discovery" ELSE "idle"

\* The task takes CORE_RESET_NTF (nfc_ncif_proc_reset_rsp for a notification).
HandleResetNtf ==
  /\ Running /\ mbox # <<>> /\ Head(mbox).type = "NTF"
  /\ ~nfc.nxp /\ Head(mbox).hdr = "RESET"
  /\ "late" \in Cases \/ ~AnswerOnItsWay
  /\ Recover(Arrived(nfc), Tail(mbox))
  /\ UNCHANGED <<ready, checked, budget>>

\* nci_wait_rsp_timer expires (nfc_process_timer_evt).
CmdTimeout ==
  /\ Running /\ nfc.timer
  /\ \/ nfc.wire = <<>> /\ ~AnswerOnItsWay
     \/ "late" \in Cases
  /\ Recover([nfc EXCEPT !.timer = FALSE], mbox)
  /\ UNCHANGED <<ready, checked, budget>>

\* listen_activation_timer_list expires: the same recovery, with no command due.
ListenTimeout ==
  /\ Running /\ nfc.listen /\ "restart" \in Cases
  /\ "late" \in Cases \/ ~AnswerOnItsWay
  /\ Recover([nfc EXCEPT !.listen = FALSE], mbox)
  /\ UNCHANGED <<ready, checked, budget>>

\* The task takes a HAL event.
HandleHal ==
  /\ Running /\ mbox # <<>> /\ Head(mbox).type = "HAL"
  /\ nfc' = HandleHalEvt(nfc, Head(mbox).hdr)
  /\ mbox' = Tail(mbox)
  /\ UNCHANGED <<ready, checked, rf, budget>>

-------------------------------------------------------------------------------
(* Calls of the application layer (NFA), which runs on the NFC task too.     *)

Fresh(n) ==
  [n EXCEPT !.window = MaxWindow, !.q = <<>>, !.flags = {}, !.last = NoCommand,
            !.cback = 0, !.nxp = FALSE, !.timer = FALSE, !.listen = FALSE,
            !.conn = FALSE, !.init = FALSE]

\* NFC_Init, then NFC_Enable.  phNxpNciHal_open completes through the client
\* thread, or reports its failure before it returns.
Enable ==
  /\ nfc.st = "NONE" /\ nfc.owed = {} /\ nfc.halq = <<>>   \* one user at a time
  /\ NoStartPending
  /\ Spend("power")
  /\ LET n == [Fresh(nfc) EXCEPT !.st = "W4_HAL_OPEN", !.resp = TRUE, !.owed = {"ENABLE"}]
     IN  \/ ~n.tml /\ nfc' = HalOpened(n) /\ mbox' = mbox
         \/ nfc' = HalOpenFailed(n) /\ mbox' = Append(mbox, Hal("OPEN_FAILED"))
  /\ UNCHANGED <<ready, checked, rf>>

\* NFC_Disable
Disable ==
  /\ Running /\ nfc.resp /\ NoStartPending
  /\ nfc.owed \cap {"DISABLE", "POWER_OFF"} = {}    \* NFA disables once
  /\ Spend("power")
  /\ IF nfc.st \in {"NONE", "NFCC_POWER_OFF_SLEEP"}
       THEN /\ nfc' = [nfc EXCEPT !.st = "NONE", !.resp = FALSE, !.owed = {}]
            /\ mbox' = mbox
       ELSE /\ nfc' = [ShutdownNfcc(nfc) EXCEPT !.owed = {"DISABLE"}]
            /\ mbox' = <<>>
  /\ rf' = "idle"
  /\ UNCHANGED <<ready, checked>>

\* NFC_SetPowerOffSleep(TRUE) and NFC_PowerCycleNFCC
PowerDown ==
  /\ nfc.st = "IDLE" /\ nfc.resp
  /\ Spend("power")
  /\ \E f \in {"POWER_OFF_SLEEP"} \cup (IF "cycle" \in Cases THEN {"POWER_CYCLE_NFCC"} ELSE {}) :
       nfc' = [ShutdownNfcc([nfc EXCEPT !.flags = @ \cup {f}])
                EXCEPT !.owed = {IF f = "POWER_OFF_SLEEP" THEN "POWER_OFF" ELSE "RESTART"}]
  /\ mbox' = <<>>
  /\ rf' = "idle"
  /\ UNCHANGED <<ready, checked>>

\* NFC_SetPowerOffSleep(FALSE)
PowerUp ==
  /\ nfc.st = "NFCC_POWER_OFF_SLEEP" /\ nfc.resp /\ NoStartPending
  /\ LET n == [nfc EXCEPT !.st = "W4_HAL_OPEN", !.flags = @ \cup {"RESTARTING"},
                          !.owed = {"RESTART"}]
     IN  \/ ~n.tml /\ nfc' = HalOpened(n) /\ mbox' = mbox /\ budget' = budget
         \/ /\ IF n.tml THEN budget' = budget ELSE Spend("faults")
            /\ nfc' = HalOpenFailed(n) /\ mbox' = Append(mbox, Hal("OPEN_FAILED"))
  /\ UNCHANGED <<ready, checked, rf>>

\* NFC_SetConfig and the other commands with no state of their own, NFC_SendVsCommand
\* and NFC_SendNxpNciCommand.
Send ==
  /\ nfc.st \in Up /\ nfc.next <= MaxIds
  /\ \/ "plain" \in Kinds /\ nfc' = SendCmd(nfc, "SET_CONFIG")
     \/ "vsc" \in Kinds /\ nfc' = SendVendorCmd(nfc, "PROP", "vsc")
     \/ "nxp" \in Kinds /\ \E h \in {"SET_CONFIG", "PROP"} :
                             nfc' = SendVendorCmd(nfc, h, "nxp")
  /\ UNCHANGED <<mbox, ready, checked, rf, budget>>

\* NFC_DiscoveryStart (NFC_STATUS_BUSY leaves everything alone)
DiscoveryStart ==
  /\ "rf" \in Cases /\ nfc.st = "IDLE" /\ nfc.next <= MaxIds
  /\ "DISCOVER_PENDING" \notin nfc.flags
  /\ nfc' = CheckCmdQueue(
              [nfc EXCEPT !.flags = @ \cup {"DISCOVER_PENDING", "CONTROL_REQUESTED"}], <<>>)
  /\ UNCHANGED <<mbox, ready, checked, rf, budget>>

\* NFC_Deactivate with no data credit out: cancel the pending discovery, or ask
\* the NFCC.
Deactivate ==
  /\ "rf" \in Cases /\ nfc.st \in {"IDLE", "OPEN"} /\ nfc.next <= MaxIds
  /\ nfc' = IF "DISCOVER_PENDING" \in nfc.flags
              THEN [nfc EXCEPT !.flags = @ \ {"DISCOVER_PENDING", "CONTROL_REQUESTED"}]
              ELSE SendCmd([nfc EXCEPT !.st = IF @ = "OPEN" THEN "CLOSING" ELSE @],
                           "DEACTIVATE")
  /\ UNCHANGED <<mbox, ready, checked, rf, budget>>

-------------------------------------------------------------------------------
(* The HAL's client thread: nfc_main_hal_cback and nfc_main_hal_data_cback.  *)

DropHead == [nfc EXCEPT !.halq = Tail(@)]
Next1 == ~checked /\ nfc.halq # <<>>

\* HAL_NFC_OPEN_CPLT_EVT: the state is read here and the event sent in a later step.
ClientOpenCplt ==
  /\ Next1 /\ Head(nfc.halq) = Hal("OPEN_CPLT")
  /\ nfc' = DropHead
  /\ checked' = (nfc.st = "W4_HAL_OPEN")
  /\ UNCHANGED <<mbox, ready, rf, budget>>

ClientSendReady ==
  /\ checked
  /\ checked' = FALSE
  /\ ready' = TRUE
  /\ UNCHANGED <<nfc, mbox, rf, budget>>

\* The other HAL events go to the mailbox as they are.
ClientHalEvent ==
  /\ Next1 /\ Head(nfc.halq).type = "HAL" /\ Head(nfc.halq) # Hal("OPEN_CPLT")
  /\ nfc' = DropHead
  /\ mbox' = Append(mbox, Head(nfc.halq))
  /\ UNCHANGED <<ready, checked, rf, budget>>

\* What the NFCC sent is dropped while the stack waits for the HAL to close.
ClientData ==
  /\ Next1 /\ Head(nfc.halq).type # "HAL"
  /\ nfc' = DropHead
  /\ mbox' = IF nfc.st = "W4_HAL_CLOSE" THEN mbox ELSE Append(mbox, Head(nfc.halq))
  /\ UNCHANGED <<ready, checked, rf, budget>>

-------------------------------------------------------------------------------
(* The NFCC, seen through the HAL's reader (external to src/: NCI 1.0).      *)

\* A discovery is refused outside RFST_IDLE.
RfAfter(h) == CASE h = "DISCOVER" /\ rf = "idle" -> "discovery"
                [] h \in {"DEACTIVATE", "CORE_RESET"} -> "idle"
                [] OTHER -> rf

\* An active link is reported down behind the answer to the deactivation.
NtfAfter(h) == IF h = "DEACTIVATE" /\ rf = "active" THEN <<Ntf("DEACTIVATED")>> ELSE <<>>

\* The NFCC answers the oldest command it holds.
NfccRespond ==
  /\ nfc.open /\ nfc.wire # <<>>
  /\ LET c == Head(nfc.wire)
     IN  /\ \E r \in Result :
              /\ \/ r = "ok" /\ budget' = budget
                 \/ /\ r = "bad" /\ c.hdr \in {"CORE_RESET", "CORE_INIT"} /\ Spend("faults")
                 \/ /\ r = "corrupt" /\ c.hdr = "CORE_INIT" /\ Spend("faults")
                 \/ /\ r = "mute" /\ c.hdr = "CORE_INIT" /\ "give_up" \in Cases
                    /\ Spend("faults")
              /\ nfc' = [nfc EXCEPT !.wire = Tail(@),
                                    !.halq = Append(@, Rsp(c.hdr, c.id, r))
                                             \o NtfAfter(c.hdr)]
         /\ rf' = RfAfter(c.hdr)
  /\ UNCHANGED <<mbox, ready, checked>>

\* The NFCC, or the transport, loses every command it holds.
NfccLose ==
  /\ nfc.open /\ nfc.wire # <<>>
  /\ Spend("faults")
  /\ nfc' = [nfc EXCEPT !.wire = <<>>]
  /\ UNCHANGED <<mbox, ready, checked, rf>>

\* The NFCC restarts by itself and says so (or the HAL does, when its write
\* retries are exhausted).
NfccReset ==
  /\ nfc.open /\ "restart" \in Cases
  /\ Spend("faults")
  /\ nfc' = [nfc EXCEPT !.wire = <<>>, !.halq = Append(@, Ntf("RESET"))]
  /\ rf' = "idle"
  /\ UNCHANGED <<mbox, ready, checked>>

\* The NFCC activates or loses a remote device.
NfccNotify ==
  /\ nfc.open
  /\ Spend("ntf")
  /\ \/ /\ rf = "discovery" /\ rf' = "active"
        /\ \E h \in {"ACTIVATED", "LISTEN_ACTIVATED"} :
             nfc' = [nfc EXCEPT !.halq = Append(@, Ntf(h))]
     \/ /\ rf = "active" /\ rf' = "discovery"
        /\ nfc' = [nfc EXCEPT !.halq = Append(@, Ntf("DEACTIVATED"))]
  /\ UNCHANGED <<mbox, ready, checked>>

\* The bus fails: phNxpNciHal_read_complete reports it and reads no more.
TransportError ==
  /\ nfc.open
  /\ Spend("faults")
  /\ nfc' = [nfc EXCEPT !.open = FALSE, !.wire = <<>>, !.halq = Append(@, Hal("ERROR"))]
  /\ UNCHANGED <<mbox, ready, checked, rf>>

-------------------------------------------------------------------------------
Init ==
  /\ nfc = [st |-> "NONE", window |-> MaxWindow, q |-> <<>>, flags |-> {},
            last |-> NoCommand, cback |-> 0, nxp |-> FALSE, timer |-> FALSE,
            listen |-> FALSE, conn |-> FALSE, init |-> FALSE, retry |-> 0,
            resp |-> FALSE, owed |-> {}, reports |-> {}, next |-> 1, wire |-> <<>>,
            open |-> FALSE, tml |-> FALSE, halq |-> <<>>]
  /\ mbox = <<>>
  /\ ready = FALSE /\ checked = FALSE
  /\ rf = "idle"
  /\ budget = [ntf |-> MaxNtf, faults |-> MaxFaults, power |-> MaxPower]

Task == TransportReady \/ HandleRsp \/ HandleNtf \/ HandleResetNtf \/ HandleHal
Timers == CmdTimeout \/ ListenTimeout
Application == \/ Enable \/ Disable \/ PowerDown \/ PowerUp
               \/ Send \/ DiscoveryStart \/ Deactivate
Client == ClientOpenCplt \/ ClientSendReady \/ ClientHalEvent \/ ClientData
Nfcc == NfccRespond \/ NfccLose \/ NfccReset \/ NfccNotify \/ TransportError

Next == Task \/ Timers \/ Application \/ Client \/ Nfcc

Spec == Init /\ [][Next]_vars

\* The task and the client thread run while they have something to do, a running
\* timer expires when no answer stops it, and an NFCC that holds a command
\* answers it or loses it.
Fairness ==
  /\ WF_vars(Task) /\ WF_vars(CmdTimeout) /\ WF_vars(Client)
  /\ WF_vars(NfccRespond \/ NfccLose \/ NfccReset)

FairSpec == Spec /\ Fairness

-------------------------------------------------------------------------------
(* Properties.                                                               *)

\* Every field keeps its type; nci_cmd_window never exceeds NCI_MAX_CMD_WINDOW,
\* whatever responses nfc_ncif_update_window is called for.
TypeOK ==
  /\ nfc \in Nfc
  /\ nfc.window <= MaxWindow
  /\ mbox \in Seq(Posted)
  /\ ready \in BOOLEAN /\ checked \in BOOLEAN
  /\ rf \in {"idle", "discovery", "active"}
  /\ budget \in [ntf : Nat, faults : Nat, power : Nat]

InFlight(c) == Cardinality({i \in DOMAIN nfc.halq : nfc.halq[i].type = "RSP" /\ nfc.halq[i].id = c.id})
             + Cardinality({i \in DOMAIN mbox : mbox[i].type = "RSP" /\ mbox[i].id = c.id})

\* NCI flow control: while the transport is up, the window, the commands the NFCC
\* holds and the answers on their way to nfc_ncif_process_event never add up to
\* more than the window the NFCC granted.
OneOutstanding ==
  nfc.open /\ nfc.st \in Up \cup {"CORE_INIT", "W4_POST_INIT_CPLT"}
    => nfc.window + Len(nfc.wire) + InFlight(nfc.last) <= MaxWindow

\* nfc_ncif_check_cmd_queue leaves nothing behind: with the window open, no command
\* waits in nci_cmd_xmit_q and no pending discovery waits to be issued, whoever
\* opened the window or queued the command.
NoStrandedCommand ==
  nfc.window = MaxWindow
    => nfc.q = <<>> /\ ~({"CONTROL_REQUESTED", "DISCOVER_PENDING"} \subseteq nfc.flags)

\* p_vsc_cback: a callback given to NFC_SendVsCommand or NFC_SendNxpNciCommand gets
\* the response to its own command, never that of another or a notification.
CallbackOwn ==
  \A r \in nfc.reports : r.rsp = r.cb

\* No command was lost, no answer bad and no bus error so far.
Faultless == budget.faults = MaxFaults

\* nci_wait_rsp_timer runs exactly while a command is out.
TimerGuardsWindow ==
  Faultless /\ Running => (nfc.timer <=> nfc.window = 0)

\* Once everything sent has been handled, nfc_state says that a remote device is
\* active exactly when the NFCC says so: activations, deactivations and responses
\* that cross each other leave the two in agreement.
AgreesWithNfcc ==
  Faultless /\ nfc.open /\ nfc.st \in Up /\ ~checked /\ ~ready
    /\ nfc.halq = <<>> /\ mbox = <<>> /\ nfc.wire = <<>>
    => (nfc.st = "OPEN" <=> rf = "active")

\* Commands reach the HAL in the order the application issued them, also when the
\* recovery answers one and sends the next.
InOrder ==
  [][Len(nfc'.wire) > Len(nfc.wire) => nfc'.last.id > nfc.last.id]_vars

\* RF_DISCOVER_CMD or RF_DEACTIVATE_CMD went out last. phNxpNciHal_core_initialized
\* does not replay a lost deactivation, whose answer then never comes.
RfCommandLast == nfc.last.hdr \in {"DISCOVER", "DEACTIVATE"}

\* A closed window opens again: the answer comes, or the recovery stands in for it
\* (of every command but those of RfCommandLast).
WindowReopens ==
  nfc.window = 0
    ~> nfc.window = MaxWindow \/ ~Running \/ ~nfc.open \/ RfCommandLast

\* A discovery NFC_DiscoveryStart left pending is issued, cancelled or flushed,
\* unless the transport fails or the window stays closed on a lost RF command.
DiscoveryIssued ==
  "DISCOVER_PENDING" \in nfc.flags
    ~> \/ "DISCOVER_PENDING" \notin nfc.flags
       \/ ~nfc.open
       \/ RfCommandLast /\ nfc.window = 0

\* Both: what waits for the window goes out.
CommandsGoOut == WindowReopens /\ DiscoveryIssued

\* The event the application waits for comes, unless the stack crashes.
Answered(e) == e \in nfc.owed ~> e \notin nfc.owed \/ ~Running

\* NFC_Enable, NFC_Disable, power-off and power-up each get their own event, with lost
\* commands, bad start-up answers and bus errors on the way, as long as no call overtakes
\* the start event, the HAL does not give up, and no NFC_Disable meets a restart behind
\* one that failed (nfc_main.c:431).
RequestsAnswered == \A e \in Event : Answered(e)

\* Where a call overtakes the start event, or a restart failed before, a request other
\* than NFC_Disable still gets its event. NFC_Disable gets it or leaves the stack down:
\* the close completes in a state nfc_main_handle_hal_evt takes for a failed start
\* (nfc_main.c:444) or with the flag of a power-off still set (:431).
OvertakenEnd ==
  /\ \A e \in Event \ {"DISABLE"} : Answered(e)
  /\ "DISABLE" \in nfc.owed
       ~> "DISABLE" \notin nfc.owed \/ nfc.st \in {"NONE", "NFCC_POWER_OFF_SLEEP"} \/ ~Running

\* nfc_ncif_cmd_timeout recovers from a lost CORE_RESET or CORE_INIT as well.
Survives == Running
===============================================================================
