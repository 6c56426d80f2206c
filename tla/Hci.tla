--------------------------------- MODULE Hci ---------------------------------
(***************************************************************************)
(* The HCI of NFA (nfa/hci): start-up over the administration pipe, gates  *)
(* and pipes of the device host (DH), the application's requests one at a  *)
(* time, the commands of the host controller and of the other hosts, and   *)
(* the response timer.  The build is that of Makefile.am                   *)
(* (NFC_NXP_NOT_OPEN_INCLUDED, without GEMALTO_SE_SUPPORT).                *)
(*                                                                         *)
(* NFC_TASK handles one packet of the HCI connection or one message of     *)
(* NFA's mailbox at a time; a timer that expires posts a message there,    *)
(* which stopping the timer does not take back.  The host controller and   *)
(* the hosts behind it are external (hc): they answer commands in order    *)
(* and keep their own table of the pipes.                                  *)
(***************************************************************************)
EXTENDS Naturals, Sequences, FiniteSets, SequencesExt

CONSTANT
  Bounds        \* what a behaviour may do; each takes one of these records:
                \*   start      NV memory: "known" (valid) or "empty" (unreadable)
                \*   nee        NFCEEs that NFA_EeGetInfo counts
                \*   asks       requests of the application after registering
                \*   kinds      which ones
                \*   peer       commands and events of the host controller
                \*   acts       which ones
                \*   lost       answers that are lost, or come after their timer
                \*   down       power-mode changes, crashes, disables
                \*   cases      "low_power", "crash", "disable" may happen; "late":
                \*              an answer may come after its timer

\* The application's pipes, the connectivity pipe of the UICC, and the APDU pipe
\* of the eSE (NFA_HCI_APDU_PIPE), which is added as a static one.
Dynamic == {"p1", "p2", "cpipe"}
Pipes == Dynamic \cup {"apdu"}
\* dyn_gates: the application's proprietary gate and the connectivity gate.
Gates == {"app", "conn"}
Hosts == {"uicc", "ese"}
Kinds == {"DEREGISTER", "ALLOC", "DEALLOC", "HOSTS", "CREATE", "OPEN", "CLOSE", "DELETE",
          "GET", "SET", "CMD", "EVENT", "STATIC"}
Acts == {"created", "deleted", "cleared", "hc_cleared", "hot_plug", "open", "close",
         "admin_close"}

ASSUME BoundAssumption ==
  Bounds \subseteq [start : {"known", "empty"}, nee : {1, 2}, asks : Nat,
                    kinds : SUBSET Kinds, peer : Nat, acts : SUBSET Acts, lost : Nat,
                    down : Nat,
                    cases : SUBSET {"low_power", "crash", "disable", "late"}]

VARIABLES
  hci,          \* nfa_hci_cb, NFA's mailbox, and what the application was told
  hc,           \* the host controller and the hosts behind it
  in,           \* packets on their way to the DH
  used          \* how much of each bound is used, and the bounds (lim)

vars == <<hci, hc, in, used>>

lim == used.lim

-------------------------------------------------------------------------------
(* Data.                                                                    *)

NoPipe == [gate |-> "none", host |-> "none", open |-> FALSE]

\* nfa_hci_cb.cfg, kept in NV memory.  A gate is not allocated ("none"), without
\* an owner ("zero") or the application's.  Session identities are numbered; 0 is
\* the default one.
NoCfg == [name |-> FALSE, gates |-> [g \in Gates |-> "none"],
          pipes |-> [p \in Pipes |-> NoPipe], admin |-> FALSE, link |-> FALSE, session |-> 0]

Req(k, p) == [k |-> k, p |-> p]
Msg(m) == Req(m, "none")
Pkt(pipe, type, inst, arg) == [pipe |-> pipe, type |-> type, inst |-> inst, arg |-> arg]
NoArg == [t |-> "none"]

Starting == {"STARTUP", "RESTORE"}
WaitingNetwk == {"WAIT_NETWK_ENABLE", "RESTORE_NETWK_ENABLE"}

Exists(h, p) == h.cfg.pipes[p] # NoPipe

\* nfa_hciu_get_pipe_owner
PipeOwner(h, p) == IF Exists(h, p) THEN h.cfg.gates[h.cfg.pipes[p].gate] ELSE "none"

IsActiveHost(h, host) == host \notin h.inactive

\* The requests that wait in the mailbox or in a queue.
Waiting(h) == ToSet(h.mbox) \cup ToSet(h.q) \cup ToSet(h.resetq)

\* The application's callback is told of a request.
Tell(h, k, p, ok) ==
  IF ~h.cb THEN h
  ELSE [h EXCEPT !.tells = Append(@, [r |-> Req(k, p), ok |-> ok]),
                 !.owed = IF Req(k, p) \in Waiting(h) THEN @ ELSE @ \ {Req(k, p)}]

\* nfa_hciu_send_to_app with app_in_use
TellUser(h, k, p, ok) == IF h.app = "app" THEN Tell(h, k, p, ok) ELSE h

-------------------------------------------------------------------------------
(* Messages.  A command opens the wait for its response.                    *)

SendMsg(h, pipe, type, inst, arg) ==
  LET sent == IF h.conn THEN [h EXCEPT !.out = Append(@, Pkt(pipe, type, inst, arg))] ELSE h
  IN IF type # "cmd" THEN sent
     ELSE [sent EXCEPT !.cmd = inst, !.timer = TRUE,
                       !.st = IF @ = "IDLE" THEN "WAIT_RSP" ELSE @]

SendOpenPipeCmd(h, p) == SendMsg([h EXCEPT !.pipe = p], p, "cmd", "OPEN", NoArg)
SendClosePipeCmd(h, p) == SendMsg([h EXCEPT !.pipe = p], p, "cmd", "CLOSE", NoArg)
SendDeletePipeCmd(h, p) ==
  SendMsg([h EXCEPT !.pipe = p], "admin", "cmd", "DELETE", [t |-> "pipe", p |-> p])
SendCreatePipeCmd(h, host) ==
  SendMsg(h, "admin", "cmd", "CREATE", [t |-> "host", host |-> host])
SendClearAllPipeCmd(h) == SendMsg(h, "admin", "cmd", "CLEAR_ALL", NoArg)
SendGetParamCmd(h, p, index) ==
  [SendMsg(h, p, "cmd", "GET", [t |-> index]) EXCEPT !.param = index]
SendSetParamCmd(h, p, index, v) ==
  [SendMsg(h, p, "cmd", "SET", [t |-> index, v |-> v]) EXCEPT !.param = index]

Respond(h, p, inst) == SendMsg(h, p, "rsp", inst, NoArg)

\* A new session identity, from the tick count, sent to the host controller.
SetNewSession(h) ==
  SendSetParamCmd([h EXCEPT !.serial = @ + 1, !.cfg.session = h.serial + 1],
                  "admin", "SESSION", h.serial + 1)

-------------------------------------------------------------------------------
(* Gates and pipes.                                                         *)

AllocGate(h, g, owner) ==
  IF h.cfg.gates[g] # "none" THEN h
  ELSE [h EXCEPT !.cfg.gates[g] = owner, !.nvWrite = TRUE]

ReleaseGate(h, g) == [h EXCEPT !.cfg.gates[g] = "none", !.nvWrite = TRUE]

\* nfa_hciu_add_pipe_to_gate; a pipe of the same identifier is released first.
AddPipeToGate(h, p, g, host) ==
  [h EXCEPT !.cfg.pipes[p] = [gate |-> g, host |-> host, open |-> FALSE], !.nvWrite = TRUE]

PipeBetween(h, g, host) ==
  \E p \in Pipes : Exists(h, p) /\ h.cfg.pipes[p].gate = g /\ h.cfg.pipes[p].host = host

\* Mutant: only the pipes of an application are released.
ReleasePipeOfApp(h, p) ==
  IF p \notin Pipes \/ PipeOwner(h, p) # "app" THEN h
  ELSE [h EXCEPT !.cfg.pipes[p] = NoPipe, !.nvWrite = TRUE]

ReleasePipe(h, p) ==
  IF p \notin Pipes \/ ~Exists(h, p) THEN h
  ELSE [h EXCEPT !.cfg.pipes[p] = NoPipe, !.nvWrite = TRUE]

\* nfa_hciu_remove_all_pipes_from_host, of every host for host 0
RemoveAllPipes(h, hosts) ==
  FoldLeft(LAMBDA a, p :
             ReleasePipe(IF PipeOwner(a, p) = "app" THEN Tell(a, "PEER_DELETED", p, TRUE) ELSE a, p),
           h, SetToSeq({p \in Pipes : h.cfg.pipes[p].host \in hosts}))

ActivePipes(h, S) == {p \in S : Exists(h, p) /\ IsActiveHost(h, h.cfg.pipes[p].host)}
OwnPipes(h) == {p \in Pipes : PipeOwner(h, p) = "app"}
PipesOn(h, g) == {p \in Pipes : Exists(h, p) /\ h.cfg.pipes[p].gate = g}

SetPipe(h, p, open) == [h EXCEPT !.cfg.pipes[p].open = open]

-------------------------------------------------------------------------------
(* Start-up and restoring.                                                  *)

\* nfa_hci_startup: the connection to the HCI network, once the NV memory is read
\* and NFCEEs are discovered.
Startup(h) ==
  IF h.nvRead /\ h.disc /\ ~h.conn THEN [h EXCEPT !.connecting = TRUE, !.timer = TRUE] ELSE h

\* Mutant: a start-up that fails does not tell anyone.
StartupCompleteIfOk(h, ok) ==
  LET done == IF h.st \in {"RESTORE", "RESTORE_NETWK_ENABLE"} \/ ~ok THEN h
              ELSE [h EXCEPT !.enabled = @ + 1]
  IN [done EXCEPT !.timer = FALSE, !.st = IF ok THEN "IDLE" ELSE "DISABLED"]

StartupComplete(h, ok) ==
  LET done == IF h.st \in {"RESTORE", "RESTORE_NETWK_ENABLE"} THEN h
              ELSE [h EXCEPT !.enabled = @ + 1]
  IN [done EXCEPT !.timer = FALSE, !.st = IF ok THEN "IDLE" ELSE "DISABLED"]

GetHostList(h) == SendGetParamCmd(h, "admin", "HOSTS")

\* nfa_hci_dh_startup_complete: the DH is ready; wait for the other hosts, or ask
\* for the host list.
DhStartupComplete(h) ==
  LET a == IF h.off /\ h.st = "STARTUP" /\ h.nee >= 1
             THEN GetHostList([h EXCEPT !.w4init = FALSE]) ELSE h
  IN IF a.w4init
       THEN CASE a.st = "STARTUP" -> [a EXCEPT !.st = "WAIT_NETWK_ENABLE", !.timer = TRUE]
              [] a.st = "RESTORE" -> [a EXCEPT !.st = "RESTORE_NETWK_ENABLE", !.timer = TRUE]
              [] OTHER -> a
     ELSE IF a.nee > 1 /\ a.reqs # a.nee - 1
       THEN [a EXCEPT !.off = @ \/ a.st = "RESTORE", !.timer = TRUE]
     ELSE GetHostList(a)

\* nfa_hci_ee_info_cback: NFCEE discovery has begun,
EeDiscOn(h) ==
  IF ~h.disc /\ h.st \in Starting
    THEN Startup([h EXCEPT !.disc = TRUE, !.reqs = 0, !.hots = 0, !.conn = FALSE])
    ELSE h

\* is complete,
EeDiscOff(h, nee) ==
  IF h.off THEN h
  ELSE LET a == [h EXCEPT !.off = TRUE, !.nee = nee]
       IN IF a.st \in WaitingNetwk
            THEN IF ~(nee <= 1 \/ a.reqs = nee - 1 \/ a.hots = nee - 1) THEN a
                 ELSE IF nee > 1 /\ a.reqs # nee - 1 THEN [a EXCEPT !.timer = TRUE]
                 ELSE GetHostList([a EXCEPT !.timer = FALSE, !.w4init = FALSE])
          ELSE [a EXCEPT !.w4init = @ /\ nee > 1]

\* an NFCEE asks for discovery.
EeDiscReq(h) ==
  LET a == [h EXCEPT !.reqs = @ + 1, !.timer = @ \/ h.st \in WaitingNetwk]
      last == a.off /\ a.reqs + 1 = a.nee
  IN IF last /\ a.st \in WaitingNetwk
       THEN GetHostList([a EXCEPT !.timer = FALSE, !.w4init = FALSE])
     ELSE IF last /\ a.st \in Starting THEN [a EXCEPT !.w4init = FALSE]
     ELSE a

\* NFC_CONN_CREATE_CEVT
ConnCreateEvt(h) ==
  LET a == [h EXCEPT !.conn = TRUE, !.connecting = FALSE]
      b == IF a.st = "STARTUP" THEN AllocGate([a EXCEPT !.w4init = TRUE], "conn", "zero") ELSE a
  IN IF b.cfg.admin THEN SendSetParamCmd(b, "admin", "WHITELIST", 0)
     ELSE SendOpenPipeCmd(b, "admin")

\* nfa_hci_is_valid_cfg.  The session is not a default one, every gate but the
\* connectivity gate has a registered owner, and as many pipes end at allocated
\* gates as there are gates.
ValidCfg(c) ==
  LET gates == {g \in Gates : c.gates[g] # "none"}
  IN /\ c.session # 0
     /\ c.gates["app"] \in {"none", "app"} /\ (c.gates["app"] = "app" => c.name)
     /\ Cardinality({p \in Pipes : c.pipes[p].gate \in gates}) = Cardinality(gates)

\* nfa_hci_handle_nv_read
NvRead(h) ==
  LET a == [h EXCEPT !.timer = FALSE, !.nvRead = TRUE]
  IN Startup(IF h.nv.ok /\ ValidCfg(h.nv.cfg) THEN [a EXCEPT !.cfg = h.nv.cfg]
             ELSE [a EXCEPT !.netReset = TRUE, !.serial = @ + 1, !.nvWrite = TRUE,
                            !.cfg = [NoCfg EXCEPT !.session = h.serial + 1]])

-------------------------------------------------------------------------------
(* Requests of the application (nfa_hci_act.c).                             *)

Idle(h, from) == [h EXCEPT !.st = IF @ = from THEN "IDLE" ELSE @]

\* nfa_hci_api_deregister: the pipes are deleted one by one, then the gates.
Deregister(h) ==
  LET a == Idle(h, "APP_DEREGISTER")
      over(ok) == [Tell(a, "DEREGISTER", "none", ok)
                     EXCEPT !.cb = FALSE, !.nvWrite = TRUE, !.owed = {}]
      active == ActivePipes(h, OwnPipes(h))
  IN IF OwnPipes(h) = {}
       THEN [over(TRUE) EXCEPT !.cfg.name = FALSE,
                               !.cfg.gates["app"] = IF @ = "app" THEN "none" ELSE @]
     ELSE IF active = {} THEN over(FALSE)
     ELSE SendDeletePipeCmd([h EXCEPT !.st = "APP_DEREGISTER"], CHOOSE p \in active : TRUE)

\* nfa_hci_api_dealloc_gate
DeallocGate(h) ==
  LET a == Idle(h, "REMOVE_GATE")
      active == ActivePipes(h, PipesOn(h, "app"))
  IN IF h.app # "app" \/ h.cfg.gates["app"] # "app" THEN TellUser(h, "DEALLOC", "none", FALSE)
     ELSE IF PipesOn(h, "app") = {}
       THEN TellUser(ReleaseGate(a, "app"), "DEALLOC", "none", TRUE)
     ELSE IF active = {} THEN TellUser([a EXCEPT !.nvWrite = TRUE], "DEALLOC", "none", FALSE)
     ELSE SendDeletePipeCmd([h EXCEPT !.st = "REMOVE_GATE"], CHOOSE p \in active : TRUE)

\* nfa_hci_api_create_pipe
CreatePipe(h, host) ==
  IF h.cfg.gates["app"] # "app" \/ PipeBetween(h, "app", host)
    THEN Tell(h, "CREATE", host, FALSE)
    ELSE SendCreatePipeCmd([h EXCEPT !.gate = "app", !.host = host], host)

Usable(h, p) == PipeOwner(h, p) = "app" /\ IsActiveHost(h, h.cfg.pipes[p].host)

OpenPipe(h, p) ==
  IF ~Usable(h, p) THEN Tell(h, "OPEN", p, FALSE)
  ELSE IF h.cfg.pipes[p].open THEN Tell(h, "OPEN", p, TRUE) ELSE SendOpenPipeCmd(h, p)

ClosePipe(h, p) ==
  IF ~Usable(h, p) THEN Tell(h, "CLOSE", p, FALSE)
  ELSE IF ~h.cfg.pipes[p].open THEN Tell(h, "CLOSE", p, TRUE) ELSE SendClosePipeCmd(h, p)

DeletePipe(h, p) ==
  IF Usable(h, p) THEN SendDeletePipeCmd(h, p) ELSE Tell(h, "DELETE", p, FALSE)

\* nfa_hci_api_get_reg_value, _set_reg_value, _send_cmd, _send_event: not on a
\* pipe to a host that is resetting, which keeps the request.
OnPipe(h, r, may, sent) ==
  IF ~may THEN Tell(h, r.k, r.p, FALSE)
  ELSE IF h.cfg.pipes[r.p].host \in h.reset THEN [h EXCEPT !.resetq = Append(@, r)]
  ELSE IF ~h.cfg.pipes[r.p].open THEN Tell(h, r.k, r.p, FALSE)
  ELSE sent

\* Of NFA_HciSendEvent, on the APDU pipe: with a buffer for the answer and a timeout.
SendEvent(h, p) ==
  IF ~h.conn THEN Tell(h, "EVENT", p, FALSE) ELSE
  LET a == SendMsg(h, p, "evt", "DATA", NoArg)
      b == IF p # "apdu" THEN a
           ELSE [a EXCEPT !.pipe = p, !.w4evt = TRUE, !.st = "WAIT_RSP", !.timer = TRUE,
                          !.owed = @ \cup {Req("ANSWER", p)}]
  IN Tell(b, "EVENT", p, TRUE)

AddStaticPipe(h, p) ==
  LET a == [AllocGate(h, "app", "app") EXCEPT !.cfg.gates["app"] = "app"]
  IN Tell(SetPipe(AddPipeToGate(a, p, "app", "ese"), p, TRUE), "STATIC", p, TRUE)

\* A registered name keeps its gates and pipes.
Register(h) ==
  Tell([h EXCEPT !.cb = TRUE, !.cfg.name = TRUE, !.nvWrite = @ \/ ~h.cfg.name],
       "REGISTER", "none", TRUE)

MayCommand(h, p) ==
  Exists(h, p) /\ IsActiveHost(h, h.cfg.pipes[p].host) /\
  (PipeOwner(h, p) = "app" \/ h.cfg.pipes[p].gate = "conn")

\* One request.  "HOT_PLUG" is the host list the DH asks for itself.
Serve(h, r) ==
  LET a == [h EXCEPT !.app = IF r.k = "HOT_PLUG" THEN "none" ELSE "app"]
  IN CASE r.k = "REGISTER" -> Register(a)
       [] r.k = "DEREGISTER" -> IF a.cfg.name THEN Deregister(a) ELSE a
       [] r.k = "ALLOC" ->
            LET b == AllocGate(a, "app", "app")
            IN Tell([b EXCEPT !.cfg.gates["app"] = "app"], "ALLOC", "none", TRUE)
       [] r.k = "DEALLOC" -> DeallocGate(a)
       [] r.k = "HOT_PLUG" -> GetHostList(a)
       [] r.k = "HOSTS" -> IF a.cb THEN GetHostList(a) ELSE a
       [] r.k = "CREATE" -> CreatePipe(a, r.p)
       [] r.k = "OPEN" -> OpenPipe(a, r.p)
       [] r.k = "CLOSE" -> ClosePipe(a, r.p)
       [] r.k = "DELETE" -> DeletePipe(a, r.p)
       [] r.k = "GET" -> OnPipe(a, r, Usable(a, r.p), SendGetParamCmd(a, r.p, "REG"))
       [] r.k = "SET" -> OnPipe(a, r, Usable(a, r.p), SendSetParamCmd(a, r.p, "REG", 0))
       [] r.k = "CMD" -> OnPipe(a, r, MayCommand(a, r.p),
                                SendMsg([a EXCEPT !.pipe = r.p], r.p, "cmd", "CMD", NoArg))
       [] r.k = "EVENT" -> OnPipe(a, r, MayCommand(a, r.p), SendEvent(a, r.p))
       [] r.k = "STATIC" -> AddStaticPipe(a, r.p)

\* Mutant: a response that is awaited does not hold up the next request.
CheckApiRequestsBusy(h) ==
  FoldLeft(LAMBDA a, r : IF a.st \in {"IDLE", "WAIT_RSP"} THEN Serve(a, r)
                         ELSE [a EXCEPT !.q = Append(@, r)],
           [h EXCEPT !.q = <<>>], h.q)

\* nfa_hci_check_api_requests: as long as no response is awaited
CheckApiRequests(h) ==
  FoldLeft(LAMBDA a, r : IF a.st = "IDLE" THEN Serve(a, r) ELSE [a EXCEPT !.q = Append(@, r)],
           [h EXCEPT !.q = <<>>], h.q)

\* nfa_hci_check_pending_api_requests: one that waited for a host
CheckPendingApiRequests(h) ==
  IF h.reset # {} \/ h.st # "IDLE" \/ h.resetq = <<>> THEN h
  ELSE Serve([h EXCEPT !.resetq = Tail(@)], Head(h.resetq))

-------------------------------------------------------------------------------
(* What the host controller and the other hosts send.                       *)

\* The DH gave a pipe back, or a command that takes several came to an end.
Continue(h) ==
  CASE h.st = "APP_DEREGISTER" -> Deregister([h EXCEPT !.timer = FALSE])
    [] h.st = "REMOVE_GATE" -> DeallocGate([h EXCEPT !.timer = FALSE])
    [] OTHER -> h

UpdateHosts(h, arg) ==
  LET there == IF arg.t = "hosts" THEN arg.v ELSE {}
  IN [h EXCEPT !.inactive = Hosts \ there, !.reset = @ \ there]

\* Every pipe is gone with the host controller's table; the administration pipe is
\* opened again.
ClosedByClear(h) ==
  [RemoveAllPipes(h, Hosts) EXCEPT !.cfg.admin = FALSE, !.cfg.link = FALSE]
ClearAllDone(h) == SendOpenPipeCmd([ClosedByClear(h) EXCEPT !.nvWrite = TRUE], "admin")

\* nfa_hci_handle_admin_gate_cmd
PipeCreated(h, a) ==
  LET ok(x) == Respond(x, "admin", "OK")
      added(x) == AddPipeToGate(x, a.p, a.gate, a.host)
  IN IF h.cfg.gates[a.gate] = "none"
       THEN IF a.gate = "conn" THEN Respond(h, "admin", "NOK")
            ELSE ok(added(AllocGate(h, a.gate, "zero")))
     ELSE IF PipeBetween(h, a.gate, a.host) THEN Respond(h, "admin", "NOK")
     ELSE IF h.cfg.gates[a.gate] = "app"
       THEN ok(Tell(added(h), "PEER_CREATED", a.p, TRUE))
     ELSE ok(added(h))

HandleAdminGateCmd(h, m) ==
  CASE m.inst = "OPEN" -> Respond([h EXCEPT !.cfg.admin = TRUE], "admin", "OK")
    [] m.inst = "CLOSE" ->
         SendOpenPipeCmd([Respond([h EXCEPT !.cfg.admin = FALSE], "admin", "OK")
                            EXCEPT !.app = "none"], "admin")
    [] m.inst = "CREATED" -> PipeCreated(h, m.arg)
    [] m.inst = "DELETED" ->
         Respond(ReleasePipe(h, m.arg.p), "admin", IF Exists(h, m.arg.p) THEN "OK" ELSE "NOK")
    [] m.inst = "CLEARED" ->
         IF m.arg.host = "hc"
           THEN SendOpenPipeCmd([ClosedByClear(h) EXCEPT !.app = "none"], "admin")
           ELSE Respond([RemoveAllPipes(h, {m.arg.host}) EXCEPT !.reset = @ \cup {m.arg.host}],
                        "admin", "OK")

\* nfa_hci_handle_admin_gate_rsp, of a start-up
StartupRsp(h, m) ==
  CASE m.inst = "NOT_OPENED" -> SendOpenPipeCmd(h, "admin")
    [] m.inst = "NOK" -> StartupComplete(h, FALSE)
    [] OTHER ->
       CASE h.cmd = "SET" /\ h.param = "WHITELIST" ->
              IF h.netReset THEN SetNewSession([h EXCEPT !.netReset = FALSE])
              ELSE SendGetParamCmd(h, "admin", "SESSION")
         [] h.cmd = "SET" /\ h.param = "SESSION" ->
              IF h.st \in Starting THEN DhStartupComplete(h) ELSE h
         [] h.cmd = "GET" /\ h.param = "HOSTS" -> StartupComplete(UpdateHosts(h, m.arg), TRUE)
         [] h.cmd = "GET" /\ h.param = "SESSION" ->
              IF m.arg # [t |-> "session", v |-> h.cfg.session] THEN SetNewSession(h)
              ELSE IF h.st \in Starting THEN DhStartupComplete(h) ELSE h
         [] h.cmd = "OPEN" ->
              SendSetParamCmd([h EXCEPT !.cfg.admin = TRUE], "admin", "WHITELIST", 0)
         [] h.cmd = "CLEAR_ALL" -> ClearAllDone(h)
         [] OTHER -> h

CreateRsp(h, m) ==
  LET told == TellUser(h, "CREATE", h.host, m.inst = "OK")
  IN IF m.inst # "OK" THEN told
     ELSE IF m.arg.t # "pipe" \/ h.gate # m.arg.gate THEN h
     ELSE TellUser(AddPipeToGate(h, m.arg.p, m.arg.gate, m.arg.host),
                   "CREATE", m.arg.host, TRUE)

\* The pipe is released when it is deleted; when it could not be, only as part of
\* a request that takes several deletions.
DeleteRsp(h, m) ==
  LET gone == ReleasePipe(h, h.pipe)
  IN IF h.st = "IDLE"
       THEN TellUser(IF m.inst = "OK" THEN gone ELSE h, "DELETE", h.pipe, m.inst = "OK")
     ELSE IF h.st \in {"APP_DEREGISTER", "REMOVE_GATE"} THEN Continue(gone)
     ELSE IF m.inst = "OK" THEN gone ELSE h

\* nfa_hci_handle_admin_gate_rsp, after start-up
RequestRsp(h, m) ==
  LET ok == m.inst = "OK" IN
  CASE h.cmd = "SET" -> Continue(h)
    [] h.cmd = "GET" /\ h.param = "SESSION" ->
         IF m.arg = [t |-> "session", v |-> 0] THEN SetNewSession([h EXCEPT !.nvWrite = TRUE])
         ELSE Continue(h)
    [] h.cmd = "GET" /\ h.param = "HOSTS" ->
         TellUser(CheckPendingApiRequests(UpdateHosts(h, m.arg)), "HOSTS", "none", ok)
    [] h.cmd = "CREATE" -> CreateRsp(h, m)
    [] h.cmd = "DELETE" -> DeleteRsp(h, m)
    [] h.cmd = "OPEN" ->
         LET a == [h EXCEPT !.cfg.admin = ok, !.nvWrite = TRUE]
         IN IF ok THEN SendGetParamCmd(a, "admin", "SESSION") ELSE a
    [] h.cmd = "CLEAR_ALL" -> ClearAllDone(h)
    [] OTHER -> h

HandleAdminGateRsp(h, m) ==
  IF h.st \in Starting \cup WaitingNetwk THEN StartupRsp(h, m) ELSE RequestRsp(h, m)

\* nfa_hci_handle_admin_gate_evt: a host says that it is there.
HandleHotPlug(h) ==
  LET a == [h EXCEPT !.hots = @ + 1]
      awaited == a.off /\ a.hots = a.nee - 1 /\ a.reqs < a.nee - 1
  IN CASE h.st \in WaitingNetwk -> [a EXCEPT !.timer = @ \/ awaited]
       [] h.st \in Starting -> [a EXCEPT !.w4init = @ /\ ~awaited]
       [] OTHER -> [a EXCEPT !.mbox = Append(@, Msg("HOT_PLUG"))]

\* nfa_hci_handle_generic_gate_cmd and _connectivity_gate_pkt
HandleGateCmd(h, m) ==
  LET opens == m.inst = "OPEN"
      a == Respond(SetPipe(h, m.pipe, opens), m.pipe, "OK")
  IN IF PipeOwner(h, m.pipe) # "app" THEN a
     ELSE Tell(a, IF opens THEN "PEER_OPENED" ELSE "PEER_CLOSED", m.pipe, TRUE)

\* nfa_hci_handle_generic_gate_rsp
HandleGateRsp(h, m) ==
  LET ok == m.inst = "OK"
      saved == [h EXCEPT !.nvWrite = TRUE]
  IN CASE h.cmd = "OPEN" ->
            TellUser(IF ok THEN SetPipe(saved, m.pipe, TRUE) ELSE saved, "OPEN", m.pipe, ok)
       [] h.cmd = "CLOSE" -> TellUser(SetPipe(saved, m.pipe, FALSE), "CLOSE", m.pipe, ok)
       [] h.cmd \in {"GET", "SET"} -> TellUser(h, h.cmd, m.pipe, ok)
       [] OTHER -> TellUser(h, "CMD", m.pipe, TRUE)

\* nfa_hci_handle_generic_gate_evt, on the APDU pipe
HandleGateEvt(h, m) ==
  IF h.w4evt /\ m.inst # "WTX" THEN Tell(h, "ANSWER", m.pipe, TRUE) ELSE h

\* nfa_hci_handle_dyn_pipe_pkt.  Pipes of the connectivity gate are no application's.
HandleDynPipePkt(h, m) ==
  IF ~Exists(h, m.pipe) \/ h.cfg.gates[h.cfg.pipes[m.pipe].gate] = "none"
    THEN IF m.type = "cmd" THEN Respond(h, m.pipe, "NOK") ELSE h
  ELSE CASE m.type = "cmd" -> HandleGateCmd(h, m)
         [] m.type = "rsp" -> HandleGateRsp(h, m)
         [] m.type = "evt" -> HandleGateEvt(h, m)

\* A packet of the HCI connection.  Only one on the APDU pipe ends a wait for a
\* response; after any other the wait lasts until its timer expires.
AwaitedOn(h, m) == m.pipe = "apdu" /\ (m.type = "rsp" \/ (h.w4evt /\ m.type = "evt"))

EndOfWait(h, m) ==
  CASE h.st \in WaitingNetwk -> [h EXCEPT !.timer = h.w4init]
    [] h.st = "WAIT_RSP" /\ AwaitedOn(h, m) ->
         IF m.inst = "WTX" THEN [h EXCEPT !.timer = h.w4evt]
         ELSE [h EXCEPT !.timer = FALSE, !.st = "IDLE"]
    [] OTHER -> h

Dispatch(h, m) ==
  IF m.pipe # "admin" THEN HandleDynPipePkt(h, m)
  ELSE CASE m.type = "cmd" -> HandleAdminGateCmd(h, m)
         [] m.type = "rsp" -> HandleAdminGateRsp(h, m)
         [] m.type = "evt" -> HandleHotPlug(h)

Checking(h, m) ==
  [h EXCEPT !.w4evt = @ /\ ~(AwaitedOn(h, m) /\ m.inst # "WTX"),
            !.mbox = Append(@, Msg("CHECK"))]

\* Mutant: nobody is told of a pipe that was not created in time.
TimeoutReportQuiet(h) ==
  CASE h.cmd \in {"SET", "GET", "OPEN", "CLOSE"} -> TellUser(h, h.cmd, h.pipe, FALSE)
    [] h.cmd = "DELETE" -> TellUser(ReleasePipe(h, h.pipe), "DELETE", h.pipe, FALSE)
    [] OTHER -> h

\* No response came: the command that was sent has failed.
TimeoutReport(h) ==
  CASE h.cmd \in {"SET", "GET", "OPEN", "CLOSE"} -> TellUser(h, h.cmd, h.pipe, FALSE)
    [] h.cmd = "CREATE" -> TellUser(h, "CREATE", h.host, FALSE)
    [] h.cmd = "DELETE" -> TellUser(ReleasePipe(h, h.pipe), "DELETE", h.pipe, FALSE)
    [] OTHER -> h

\* nfa_hci_rsp_timeout
RspTimeout(h) ==
  CASE h.st \in Starting -> StartupComplete(h, FALSE)
    [] h.st \in WaitingNetwk ->
         IF h.w4init THEN GetHostList([h EXCEPT !.w4init = FALSE]) ELSE StartupComplete(h, FALSE)
    [] h.st \in {"REMOVE_GATE", "APP_DEREGISTER"} ->
         IF h.cmd = "DELETE" THEN SendClearAllPipeCmd(h) ELSE Continue(RemoveAllPipes(h, Hosts))
    [] h.st = "WAIT_RSP" ->
         IF h.w4evt
           THEN TellUser([h EXCEPT !.st = "IDLE", !.w4evt = FALSE], "ANSWER", h.pipe, FALSE)
           ELSE TimeoutReport([h EXCEPT !.st = "IDLE"])
    [] OTHER -> h

\* nfa_hci_evt_hdlr: the message itself
HandleMsg(h, r) ==
  CASE r.k = "NVREAD" -> NvRead(h)
    [] r.k = "TIMEOUT" -> RspTimeout(h)
    [] r.k = "CHECK" -> h
    [] OTHER -> [h EXCEPT !.q = Append(@, r)]

\* The table is written once the DH is idle.
NvWrite(h) ==
  IF h.st = "IDLE" /\ h.nvWrite
    THEN [h EXCEPT !.nvWrite = FALSE, !.nv = [ok |-> TRUE, cfg |-> h.cfg]] ELSE h

-------------------------------------------------------------------------------
(* NFC_TASK.                                                                *)

NewHci(nv) ==
  [st |-> "STARTUP", disc |-> FALSE, off |-> FALSE, nee |-> 0, reqs |-> 0, hots |-> 0,
   w4init |-> FALSE, netReset |-> FALSE, nvRead |-> FALSE, conn |-> FALSE, connecting |-> FALSE,
   timer |-> TRUE, cmd |-> "none", param |-> "none", pipe |-> "none", gate |-> "none",
   host |-> "none", app |-> "none", w4evt |-> FALSE, q |-> <<>>, resetq |-> <<>>,
   mbox |-> <<>>, cfg |-> NoCfg, nv |-> nv, nvWrite |-> FALSE, cb |-> FALSE, inactive |-> Hosts,
   reset |-> {}, low |-> FALSE, serial |-> nv.cfg.session, out |-> <<>>,
   tells |-> <<>>, owed |-> {}, gone |-> FALSE, enabled |-> 0]

\* What an earlier run left: the application's gate with a pipe to the UICC, and the
\* connectivity pipe.
KnownCfg ==
  [NoCfg EXCEPT !.name = TRUE, !.gates = [app |-> "app", conn |-> "zero"], !.admin = TRUE,
                !.session = 1,
                !.pipes["p1"] = [gate |-> "app", host |-> "uicc", open |-> FALSE],
                !.pipes["cpipe"] = [gate |-> "conn", host |-> "uicc", open |-> TRUE]]

Quiet(h) == [h EXCEPT !.tells = <<>>]

CmdsOf(s) == SelectSeq(s, LAMBDA m : m.type = "cmd")
RspsOf(s) == SelectSeq(s, LAMBDA m : m.type = "rsp")
AnswerOnWay == CmdsOf(hci.out) # <<>> \/ RspsOf(in) # <<>>

\* What the properties except: the table of the DH can no longer be that of the host
\* controller, for a change under way was cut off; and an answer may be taken for
\* that of another command, for that one overtook it.
Undone(u, cut, over) == [u EXCEPT !.cut = @ \/ cut, !.over = @ \/ over]
Cut(u, yes) == Undone(u, yes, FALSE)

ReceivePacket ==
  /\ in # <<>>
  /\ LET m == Head(in) IN
     /\ \E a \in {EndOfWait(Quiet(hci), m)} : \E b \in {Dispatch(a, m)} :
          hci' = Checking(b, m)
     /\ in' = Tail(in)
     \* Closing the administration pipe overtakes what is under way.
     /\ LET closed == m.pipe = "admin" /\ m.type = "cmd"
                      /\ (m.inst = "CLOSE" \/ m.arg = [t |-> "host", host |-> "hc"])
        IN used' = Undone(used, FALSE, closed /\ (AnswerOnWay \/ hci.st # "IDLE"))
  /\ UNCHANGED hc

\* nfa_hci_evt_hdlr
NfaMsg ==
  /\ hci.mbox # <<>>
  /\ \E a \in {HandleMsg([Quiet(hci) EXCEPT !.mbox = Tail(@)], Head(hci.mbox))} :
     \E b \in {CheckApiRequests(a)} :
     \E c \in {CheckPendingApiRequests(b)} :
       /\ hci' = NvWrite(c)
       \* The table in NV memory is thrown away, or a command finds no connection; a
       \* command goes out before an answer that nobody waits for has come.
       /\ LET lost == Head(hci.mbox) = Msg("NVREAD") /\ hci.nv.ok /\ ~ValidCfg(hci.nv.cfg)
          IN used' = Undone(used, lost \/ (~hci.conn /\ c.timer),
                            a.st = "IDLE" /\ AnswerOnWay /\ c.st # "IDLE")
  /\ UNCHANGED <<hc, in>>

\* Nothing is left to do when the timer expires, or ("late") an answer is on its way.
TimerExpires ==
  /\ hci.timer
  /\ LET early == AnswerOnWay \/ hci.connecting \/ hc.nvPending \/ hc.apdu \/ hci.mbox # <<>>
     IN /\ early => "late" \in lim.cases /\ used.lost < lim.lost
        /\ used' = [used EXCEPT !.lost = @ + (IF early THEN 1 ELSE 0), !.late = @ \/ early]
  /\ hci' = [Quiet(hci) EXCEPT !.timer = FALSE, !.mbox = Append(@, Msg("TIMEOUT"))]
  /\ UNCHANGED <<hc, in>>

NvReadDone ==
  /\ hc.nvPending
  /\ hc' = [hc EXCEPT !.nvPending = FALSE]
  /\ hci' = [Quiet(hci) EXCEPT !.mbox = Append(@, Msg("NVREAD"))]
  /\ UNCHANGED <<in, used>>

\* NFCEE discovery, and the connection to the HCI network.
EeOn ==
  /\ hc.ee = "none" /\ hci.st \in Starting
  /\ hc' = [hc EXCEPT !.ee = "on"]
  /\ hci' = EeDiscOn(Quiet(hci))
  /\ UNCHANGED <<in, used>>

EeOff ==
  /\ hc.ee = "on"
  /\ hc' = [hc EXCEPT !.ee = "off"]
  /\ hci' = EeDiscOff(Quiet(hci), lim.nee)
  /\ UNCHANGED <<in, used>>

EeReq ==
  /\ hc.ee \in {"on", "off"} /\ hci.reqs < lim.nee - 1
  /\ hci' = EeDiscReq(Quiet(hci))
  /\ UNCHANGED <<hc, in, used>>

ConnCreated ==
  /\ hci.connecting
  /\ hci' = ConnCreateEvt(Quiet(hci))
  /\ UNCHANGED <<hc, in, used>>

\* NFC_CONN_CLOSE_CEVT
Disabled(h) ==
  [h EXCEPT !.st = "DISABLED", !.conn = FALSE, !.timer = FALSE, !.connecting = FALSE,
            !.mbox = <<>>, !.out = <<>>]

ConnClosed ==
  /\ hc.closing
  /\ hci' = Disabled(Quiet(hci))
  /\ hc' = [hc EXCEPT !.closing = FALSE, !.ee = "over", !.nvPending = FALSE, !.cmd = "none",
                      !.apdu = FALSE]
  /\ in' = <<>>
  /\ used' = Cut(used, TRUE)

-------------------------------------------------------------------------------
(* The application.                                                         *)

Requests ==
  {Req(k, "none") : k \in {"DEREGISTER", "ALLOC", "DEALLOC", "HOSTS"}} \cup
  {Req("CREATE", host) : host \in Hosts} \cup
  {Req(k, p) : k \in {"OPEN", "CLOSE", "DELETE", "GET", "SET", "CMD"}, p \in Dynamic} \cup
  {Req("EVENT", "apdu"), Req("STATIC", "apdu")}

Asked(r) == hci' = [Quiet(hci) EXCEPT !.mbox = Append(@, r), !.owed = @ \cup {r}]

NFA_HciRegister ==
  /\ ~hci.cb /\ ~hci.gone /\ Msg("REGISTER") \notin hci.owed /\ hci.st # "DISABLED"
  /\ lim.kinds # {}
  /\ Asked(Msg("REGISTER"))
  /\ UNCHANGED <<hc, in, used>>

\* The other functions of the API.
NFA_HciApi ==
  /\ hci.cb /\ ~hci.gone /\ ~hc.closing /\ hci.st # "DISABLED"
  /\ used.asks < lim.asks
  /\ \E r \in {x \in Requests : x.k \in lim.kinds /\ x \notin hci.owed} :
       /\ r.k \in {"CREATE", "OPEN", "CLOSE", "DELETE"} => ~hci.low
       /\ r.k = "CREATE" => IsActiveHost(hci, r.p)
       /\ r.k = "EVENT" => Req("ANSWER", "apdu") \notin hci.owed
       /\ hci' = [Quiet(hci) EXCEPT !.mbox = Append(@, r), !.owed = @ \cup {r},
                                    !.gone = @ \/ r.k = "DEREGISTER"]
  /\ used' = [used EXCEPT !.asks = @ + 1]
  /\ UNCHANGED <<hc, in>>

-------------------------------------------------------------------------------
(* Power modes, the end, and a crash.                                       *)

InFlight == AnswerOnWay \/ in # <<>> \/ hci.out # <<>> \/ hc.cmd # "none" \/ hc.hot
Silent == [hc EXCEPT !.cmd = "none", !.apdu = FALSE, !.hot = FALSE, !.ee = "none"]

\* nfa_hci_proc_nfcc_power_mode: low.  What is under way is not reported.
LowPower ==
  /\ "low_power" \in lim.cases /\ used.down < lim.down
  /\ ~hci.low /\ hci.st \notin Starting \cup WaitingNetwk \cup {"DISABLED"}
  /\ hci' = [Quiet(hci) EXCEPT !.st = "IDLE", !.w4evt = FALSE, !.conn = FALSE, !.timer = FALSE,
                               !.low = TRUE, !.out = <<>>, !.owed = @ \cap Waiting(hci)]
  /\ hc' = Silent /\ in' = <<>>
  /\ used' = [Cut(used, InFlight \/ hci.st # "IDLE") EXCEPT !.down = @ + 1]

\* and full
FullPower ==
  /\ hci.low
  /\ hci' = IF hci.st # "IDLE" THEN [Quiet(hci) EXCEPT !.low = FALSE]
            ELSE [Quiet(hci) EXCEPT !.st = "RESTORE", !.disc = FALSE, !.off = TRUE,
                                    !.w4init = hci.nee > 1, !.conn = FALSE, !.reqs = 0,
                                    !.hots = 0, !.low = FALSE]
  /\ UNCHANGED <<hc, in, used>>

\* nfa_hci_sys_disable
SysDisable ==
  /\ "disable" \in lim.cases /\ used.down < lim.down /\ ~hc.closing
  /\ \E graceful \in BOOLEAN :
       IF graceful /\ hci.conn
         THEN /\ hci' = [Quiet(hci) EXCEPT !.timer = FALSE]
              /\ hc' = [hc EXCEPT !.closing = TRUE] /\ in' = in
         ELSE /\ hci' = Disabled(Quiet(hci))
              /\ hc' = [Silent EXCEPT !.ee = "over", !.nvPending = FALSE] /\ in' = <<>>
  /\ used' = [Cut(used, TRUE) EXCEPT !.down = @ + 1]

\* The process ends and is started again.  The host controller keeps its pipes.
Crash ==
  /\ "crash" \in lim.cases /\ used.down < lim.down
  /\ hci' = NewHci(hci.nv)
  /\ hc' = [Silent EXCEPT !.nvPending = TRUE, !.closing = FALSE] /\ in' = <<>>
  /\ used' = [Cut(used, InFlight \/ hci.nvWrite \/ hci.mbox # <<>>) EXCEPT !.down = @ + 1]

-------------------------------------------------------------------------------
(* The host controller and the other hosts (external).                      *)

NewHc ==
  [pipes |-> [p \in Dynamic |-> IF lim.start = "known" THEN KnownCfg.pipes[p].gate ELSE "none"],
   old |-> IF lim.start = "known" THEN {"p1", "cpipe"} ELSE {},
   admin |-> lim.start = "known", session |-> IF lim.start = "known" THEN 1 ELSE 0,
   cmd |-> "none", apdu |-> FALSE, hot |-> FALSE, ee |-> "none", nvPending |-> TRUE,
   closing |-> FALSE]

NoPipes == [p \in Dynamic |-> "none"]
Result(c, inst, arg) == [c |-> c, inst |-> inst, arg |-> arg]

\* A pipe identifier is not used twice.
CreateResults(c, host) ==
  {Result(c, "NOK", NoArg)} \cup
  {Result([c EXCEPT !.pipes[p] = "app", !.old = @ \cup {p}], "OK",
          [t |-> "pipe", gate |-> "app", host |-> host, p |-> p]) : p \in {"p1"} \ c.old}

AdminResults(c, m) ==
  CASE m.inst = "OPEN" -> {Result([c EXCEPT !.admin = TRUE], "OK", NoArg)}
    [] ~c.admin /\ m.inst # "OPEN" -> {Result(c, "NOT_OPENED", NoArg)}
    [] c.admin /\ m.inst = "SET" ->
         {Result(IF m.arg.t = "SESSION" THEN [c EXCEPT !.session = m.arg.v] ELSE c, "OK", NoArg)}
    [] c.admin /\ m.inst = "GET" ->
         {Result(c, "OK", IF m.arg.t = "SESSION" THEN [t |-> "session", v |-> c.session]
                          ELSE [t |-> "hosts", v |-> IF c.hot THEN {"ese"} ELSE Hosts])}
    [] c.admin /\ m.inst = "CREATE" -> CreateResults(c, m.arg.host)
    [] c.admin /\ m.inst = "DELETE" ->
         {Result([c EXCEPT !.pipes[m.arg.p] = "none"],
                 IF c.pipes[m.arg.p] = "none" THEN "NOK" ELSE "OK", NoArg)}
    [] c.admin /\ m.inst = "CLEAR_ALL" ->
         {Result([c EXCEPT !.pipes = NoPipes, !.admin = FALSE, !.session = 0], "OK", NoArg)}

PipeResults(c, m) ==
  IF m.pipe # "apdu" /\ c.pipes[m.pipe] = "none" THEN {Result(c, "NOK", NoArg)}
  ELSE {Result(c, "OK", NoArg)}

\* It answers a command, or loses the answer.  That the answer is one to a command
\* "of" some kind is known to the properties only.
HcAnswer ==
  /\ hci.out # <<>> /\ Head(hci.out).type = "cmd"
  /\ LET m == Head(hci.out) IN
     \E x \in IF m.pipe = "admin" THEN AdminResults(hc, m) ELSE PipeResults(hc, m) :
       /\ hc' = x.c
       /\ \/ in' = Append(in, Pkt(m.pipe, "rsp", x.inst, x.arg) @@ [of |-> m.inst])
             /\ used' = used
          \/ /\ used.lost < lim.lost
             /\ used' = [Cut(used, TRUE) EXCEPT !.lost = @ + 1] /\ in' = in
  /\ hci' = [Quiet(hci) EXCEPT !.out = Tail(@)]

\* The DH's response to a command of the host controller.
HcResponse ==
  /\ hci.out # <<>> /\ Head(hci.out).type = "rsp"
  /\ LET m == Head(hci.out) IN
     hc' = [hc EXCEPT !.cmd = "none",
                      !.pipes = IF hc.cmd \in Dynamic /\ m.pipe = "admin" /\ m.inst = "OK"
                                  THEN [@ EXCEPT ![hc.cmd] = IF hc.cmd = "p2" THEN "app" ELSE "conn"]
                                  ELSE @]
  /\ hci' = [Quiet(hci) EXCEPT !.out = Tail(@)]
  /\ UNCHANGED <<in, used>>

\* The eSE takes an event on the APDU pipe, asks for more time, and answers.
EseTakes ==
  /\ hci.out # <<>> /\ Head(hci.out).type = "evt"
  /\ hci' = [Quiet(hci) EXCEPT !.out = Tail(@)]
  /\ \/ hc' = [hc EXCEPT !.apdu = TRUE] /\ used' = used
     \/ used.lost < lim.lost /\ hc' = hc /\ used' = [used EXCEPT !.lost = @ + 1]
  /\ UNCHANGED in

EseAnswers ==
  /\ hc.apdu
  /\ in' = Append(in, Pkt("apdu", "evt", "DATA", NoArg))
  /\ hc' = [hc EXCEPT !.apdu = FALSE]
  /\ hci' = Quiet(hci) /\ UNCHANGED used

EseWaits ==
  /\ hc.apdu /\ used.peer < lim.peer
  /\ in' = Append(in, Pkt("apdu", "evt", "WTX", NoArg))
  /\ used' = [used EXCEPT !.peer = @ + 1]
  /\ hci' = Quiet(hci) /\ UNCHANGED hc

\* A command or an event of the host controller.
Sends(m, c) ==
  /\ in' = Append(in, m) /\ hc' = c
  /\ used' = [used EXCEPT !.peer = @ + 1]
  /\ hci' = Quiet(hci)

HcCommand ==
  /\ hci.conn /\ hc.admin /\ hc.cmd = "none" /\ used.peer < lim.peer /\ ~hc.closing
  /\ \/ /\ "created" \in lim.acts
        /\ \E p \in {"p2", "cpipe"} \ hc.old :
             Sends(Pkt("admin", "cmd", "CREATED",
                       [t |-> "pipe", gate |-> IF p = "p2" THEN "app" ELSE "conn",
                        host |-> "uicc", p |-> p]),
                   [hc EXCEPT !.cmd = p, !.old = @ \cup {p}])
     \/ /\ "deleted" \in lim.acts
        /\ \E p \in {x \in Dynamic : hc.pipes[x] # "none"} :
             Sends(Pkt("admin", "cmd", "DELETED", [t |-> "pipe", p |-> p]),
                   [hc EXCEPT !.cmd = "any", !.pipes[p] = "none"])
     \/ /\ "cleared" \in lim.acts /\ ~hc.hot
        /\ Sends(Pkt("admin", "cmd", "CLEARED", [t |-> "host", host |-> "uicc"]),
                 [hc EXCEPT !.cmd = "any", !.pipes = NoPipes, !.hot = TRUE])
     \/ /\ "hc_cleared" \in lim.acts
        /\ Sends(Pkt("admin", "cmd", "CLEARED", [t |-> "host", host |-> "hc"]),
                 [hc EXCEPT !.pipes = NoPipes, !.admin = FALSE, !.session = 0])
     \/ /\ "admin_close" \in lim.acts
        /\ Sends(Pkt("admin", "cmd", "CLOSE", NoArg), [hc EXCEPT !.cmd = "any", !.admin = FALSE])
     \/ \E p \in {x \in Dynamic : hc.pipes[x] # "none"} :
          \/ "open" \in lim.acts /\ Sends(Pkt(p, "cmd", "OPEN", NoArg), [hc EXCEPT !.cmd = "any"])
          \/ "close" \in lim.acts /\ Sends(Pkt(p, "cmd", "CLOSE", NoArg), [hc EXCEPT !.cmd = "any"])
     \/ "hot_plug" \in lim.acts /\ Sends(Pkt("admin", "evt", "HOT_PLUG", NoArg), hc)

\* A UICC that was reset is there again.
HotPlug ==
  /\ hc.hot /\ hc.cmd = "none" /\ hc.admin
  /\ in' = Append(in, Pkt("admin", "evt", "HOT_PLUG", NoArg))
  /\ hc' = [hc EXCEPT !.hot = FALSE]
  /\ hci' = Quiet(hci) /\ UNCHANGED used

-------------------------------------------------------------------------------
Init ==
  /\ \E b \in Bounds :
       used = [asks |-> 0, peer |-> 0, lost |-> 0, down |-> 0, cut |-> FALSE, over |-> FALSE,
               late |-> FALSE,
               lim |-> b]
  /\ hci = NewHci(IF lim.start = "known" THEN [ok |-> TRUE, cfg |-> KnownCfg]
                  ELSE [ok |-> FALSE, cfg |-> NoCfg])
  /\ hc = NewHc
  /\ in = <<>>

\* What goes on by itself: NFC_TASK, its timer, and the NFCC, which answers.
System ==
  \/ ReceivePacket \/ NfaMsg \/ TimerExpires \/ NvReadDone \/ EeOn \/ EeOff \/ ConnCreated
  \/ ConnClosed \/ HcAnswer \/ HcResponse \/ EseTakes \/ EseAnswers \/ HotPlug

Next ==
  \/ System \/ EeReq \/ NFA_HciRegister \/ NFA_HciApi
  \/ LowPower \/ FullPower \/ SysDisable \/ Crash \/ EseWaits \/ HcCommand

Fairness == WF_vars(System)

Spec == Init /\ [][Next]_vars /\ Fairness

-------------------------------------------------------------------------------
(* Properties.                                                              *)

\* A response that this step takes in is one to such a command.
Answered(k) ==
  in # <<>> /\ in' = Tail(in) /\ Head(in).type = "rsp"
  /\ k \in {"CREATE", "OPEN", "CLOSE", "DELETE", "GET", "SET", "CMD"} => Head(in).of = k

\* The table of pipes (nfa_hci_cb.cfg.dyn_pipes) and that of the host controller are
\* the same whenever nothing is under way, whatever commands of both sides crossed,
\* over a UICC that resets, power modes and restarts from NV memory: unless a change
\* was cut off, or overtaken when the host controller closed the administration pipe,
\* or the restart discarded a table of the DH that nfa_hci_is_valid_cfg does not accept
\* (nfa_hci_main.c:383), while the host controller kept its own.
PipesAgree ==
  ~used.cut /\ ~used.over /\ hci.st = "IDLE" /\ hci.mbox = <<>> /\ hci.out = <<>> /\ in = <<>>
  /\ hc.cmd = "none" =>
  \A p \in Dynamic : hci.cfg.pipes[p].gate = hc.pipes[p]

\* A request that the application is told was done is one that it made, that had
\* been taken up (nfa_hci_check_api_requests), and, when it takes a command, one whose
\* answer has come: the response is never that of another request, although it carries
\* no more than the pipe it came on.  (Excepted: host lists, which the DH asks for
\* itself, too, and what the host controller overtakes.)
AnswersOwn ==
  [][\A i \in DOMAIN hci'.tells :
       LET t == hci'.tells[i] IN
       t.ok /\ t.r.k \in (Kinds \ {"HOSTS"}) \cup {"ANSWER"} /\ ~used.over /\ ~used.late
         => /\ t.r \in hci.owed /\ t.r \notin Waiting(hci')
            /\ Answered(t.r.k)]_vars

\* NFA SYS is told once that HCI is enabled (nfa_hci_startup_complete), when it is or
\* has failed, and start-up and restoring always come to an end, although answers
\* are lost or come too late (unless the host controller closes the administration
\* pipe on a command: then the timer is stopped, and nothing need follow).
StartupEnds ==
  /\ [](hc.ee # "over" =>
           hci.enabled = IF hci.st \in {"STARTUP", "WAIT_NETWK_ENABLE"} THEN 0 ELSE 1)
  /\ []<>(hci.st \notin Starting \cup WaitingNetwk \/ used.over)

\* The requests whose timeout nfa_hci_rsp_timeout reports for what they are.
Reported(r) == r.k \notin {"GET", "SET", "CMD", "HOSTS"}

\* The application is told the result of every such request, after a timeout if need
\* be, as long as HCI is enabled; in low power one in the queue may wait for the next
\* message.
RequestsEnd ==
  []<>(hci.st = "DISABLED" \/ hci.low \/ used.over \/ \A r \in hci.owed : ~Reported(r))
===============================================================================
