----------------------------- MODULE DmDiscover -----------------------------
(***************************************************************************)
(* RF discovery of the NFA device manager (nfa/dm/nfa_dm_discover.c and    *)
(* the handlers of nfa_dm_act.c that drive it): starting and stopping      *)
(* discovery, activation and deactivation, putting a tag to sleep and      *)
(* waking it up, NXP's logic that gives NFC-DEP priority over ISO-DEP,     *)
(* exclusive RF control, and disabling, which waits for the NFCC to be     *)
(* idle and for the subsystems above the device manager (nfa_sys).         *)
(*                                                                         *)
(* The host runs in NFC_TASK: one message, timer or call of the            *)
(* application at a time, each with everything it calls, so each is one    *)
(* action.  The handlers are operators from a host state to the next one.  *)
(* Commands go to the NFCC (external) one at a time, the command window;   *)
(* what the NFCC sends reaches the host in order, and may cross a command. *)
(* Not modelled: presence checks under exclusive RF control, Kovio, low    *)
(* power listening, link deactivation through LLCP, DTA mode and commands  *)
(* that time out.                                                          *)
(***************************************************************************)
EXTENDS Integers, Sequences, SequencesExt

CONSTANTS
  Bounds        \* what a behaviour may do; each takes one of these records:
                \*   rf     things that happen on the RF side
                \*   app    calls of the application
                \*   mute   deactivations the NFCC does not notify, of those the
                \*          host's timer guards
                \*   cases  "wakeup"  a tag's presence is checked
                \*          "prio"    ISO-DEP tags: NFC-DEP priority applies
                \*          "select"  several targets answer at once
                \*          "listen"  a reader activates the device
                \*          "loss"    the NFCC gives up a lost tag by itself
                \*          "sleep"   the application puts a tag to sleep
                \*          "overlap" a stop overlaps with a target that goes to
                \*                    sleep or wakes up, exclusive control with
                \*                    discovery or with a stop not yet reported
                \*          "excl"    an application takes exclusive RF control
                \*          "disable" NFA is disabled

BoundCases == {"wakeup", "prio", "select", "listen", "loss", "sleep", "overlap", "excl",
               "disable"}

ASSUME BoundAssumption ==
  Bounds \subseteq [rf : Nat, app : Nat, mute : Nat, cases : SUBSET BoundCases]

VARIABLES
  dm,           \* nfa_dm_cb.disc_cb, with the modules that hear of activations
  cmd,          \* the command plane: waiting commands, window, pending discovery
  prio,         \* p2p_prio_logic_data
  nfcc,         \* the NFCC: its RF state and the command it has to answer
  toHost,       \* responses and notifications on their way to NFC_TASK
  used          \* how much of each bound is used, and the bounds (lim)

vars == <<dm, cmd, prio, nfcc, toHost, used>>

lim == used.lim

-------------------------------------------------------------------------------
(* Types.                                                                   *)

DeactType == {"IDLE", "SLEEP", "DISCOVERY"}
Module == {"poll", "listen"}        \* entries of disc_cb.entry
Hearer == Module \cup {"excl"}      \* and the application with exclusive control

\* What an activation notification says: mode, whether an entry wants it, the
\* protocol, and whether the technology is the one NXP's logic saw first.
Activation == [mode : Module, match : BOOLEAN, protocol : {"ISO_DEP", "MIFARE", "other"},
               same : BOOLEAN]

\* A type: RF_DEACTIVATE_CMD.  "wake" selects the tag that was active.
Command == {"discover", "select", "wake"} \cup DeactType

Message ==
  [kind : {"discover_rsp", "select_rsp", "deactivate_rsp"}, ok : BOOLEAN]
    \cup [kind : {"deactivate_ntf"}, type : DeactType]
    \cup [kind : {"activated_ntf"}, act : Activation]
    \cup [kind : {"discover_ntf"}, more : {"more", "last", "last_abort"}, known : BOOLEAN]
    \cup [kind : {"intf_error_ntf"}]

Init ==
  /\ dm = [st |-> "IDLE",         \* disc_state
           enabled |-> FALSE, stopping |-> FALSE, w4rsp |-> FALSE, w4ntf |-> FALSE,
           checking |-> FALSE,    \* the NFA_DM_DISC_FLAGS_ of disc_flags
           deactPending |-> FALSE, pendingType |-> "IDLE",
           notifyPending |-> FALSE,         \* deact_notify_pending
           tle |-> FALSE,                   \* the timer of the notification runs
           module |-> "none", protocol |-> "none",    \* activated_handle, _protocol
           active |-> [m \in Hearer |-> 0], \* history: activations not yet ended
           excl |-> FALSE,        \* NFA_DM_FLAGS_EXCL_RF_ACTIVE, excl_disc_entry.in_use
           disabling |-> FALSE,   \* NFA_DM_DISC_FLAGS_DISABLING
           sys |-> "on",          \* on, closing (a graceful disable), off
           above |-> TRUE,        \* subsystems above are registered with nfa_sys
           clear |-> FALSE,       \* history: the disable met discovery, no more
           twice |-> FALSE]      \* history: started while a command was not answered
  /\ cmd = [q |-> <<>>, window |-> 1, discover |-> FALSE]
  /\ prio = [isodep |-> FALSE, expired |-> FALSE, timer |-> "none"]
  /\ nfcc = [st |-> "IDLE", cmd |-> "none", crossed |-> FALSE, mute |-> FALSE]
  /\ toHost = <<>>
  /\ \E b \in Bounds : used = [rf |-> 0, app |-> 0, mute |-> 0, lim |-> b]

-------------------------------------------------------------------------------
(* The host state the handlers work on: h.d, h.c and h.n are dm, cmd and    *)
(* the command at the NFCC.                                                 *)

Host == [d |-> dm, c |-> cmd, n |-> nfcc.cmd]

\* A command meets what is still on its way to the host (nfcc.crossed); rest
\* stays on its way, unless the stack is switched off with the NFCC.
HostBecomes(h, rest) ==
  IF h.d.sys = "off"
  THEN /\ dm' = h.d /\ toHost' = <<>>
       /\ cmd' = [q |-> <<>>, window |-> 1, discover |-> FALSE]
       /\ nfcc' = [nfcc EXCEPT !.st = "IDLE", !.cmd = "none", !.crossed = FALSE, !.mute = FALSE]
  ELSE /\ dm' = h.d /\ toHost' = rest
       /\ cmd' = h.c
       /\ nfcc' = [nfcc EXCEPT !.cmd = h.n,
                               !.crossed = IF h.n = nfcc.cmd THEN @ ELSE rest # <<>>]

\* nfc_ncif_check_cmd_queue: the next command goes out if the window is open;
\* a discovery that is pending goes out when no command waits.
CheckCmdQueue(h) ==
  IF h.c.window = 0 THEN h
  ELSE IF h.c.q # <<>>
    THEN [h EXCEPT !.c.q = Tail(@), !.c.window = 0, !.n = Head(h.c.q)]
  ELSE IF h.c.discover
    THEN [h EXCEPT !.c.discover = FALSE, !.c.window = 0, !.n = "discover"]
  ELSE h

SendCmd(h, c) == CheckCmdQueue([h EXCEPT !.c.q = Append(@, c)])

\* A deactivation takes back a discovery that has not gone out, and sends nothing.
NFC_Deactivate(h, type) ==
  IF h.c.discover THEN [h EXCEPT !.c.discover = FALSE]
                  ELSE SendCmd(h, type)

StartRfDiscover(h) ==
  IF ~h.d.enabled /\ ~h.d.excl THEN h
  ELSE LET g == [h EXCEPT !.c.discover = TRUE, !.d.w4rsp = TRUE,
                          !.d.module = "none", !.d.protocol = "none",
                          !.d.twice = @ \/ h.d.w4rsp \/ h.n = "discover"
                                        \/ \E i \in 1..Len(toHost) :
                                             toHost[i].kind = "discover_rsp"]
       IN CheckCmdQueue(g)

\* nfa_dm_disable_complete, NFC_Disable and, once the NFCC is off, nfa_dm_disable_event.
DisableComplete(h) ==
  [h EXCEPT !.d.sys = "off", !.d.st = "IDLE", !.d.enabled = FALSE, !.d.excl = FALSE,
            !.d.stopping = FALSE, !.d.disabling = FALSE, !.d.w4rsp = FALSE, !.d.w4ntf = FALSE,
            !.d.checking = FALSE, !.d.tle = FALSE, !.d.module = "none",
            !.d.active = [m \in Hearer |-> 0]]

\* nfa_sys_check_disabled and nfa_dm_sys_disable: DM goes last, and not before
\* discovery has ended.
CheckDisabled(h) ==
  IF h.d.sys = "closing" /\ ~h.d.above /\ h.d.st = "IDLE" /\ ~h.d.disabling
  THEN DisableComplete(h) ELSE h

\* nfa_dm_disc_new_state: back in IDLE, a stop that was asked for is reported,
\* exclusive control that was given back ends, and a disable goes on.
NewState(h, st) ==
  LET idle == st = "IDLE" /\ ~h.d.w4rsp
      release == idle /\ h.d.stopping /\ h.d.excl
      g == [h EXCEPT !.d.st = st,
                     !.d.stopping = @ /\ ~idle,
                     !.d.excl = @ /\ ~release,
                     !.d.active["excl"] =
                       IF release /\ h.d.st \notin {"IDLE", "DISCOVERY"} THEN 0 ELSE @,
                     !.d.disabling = @ /\ ~idle]
  IN IF h.d.disabling /\ idle THEN CheckDisabled(g) ELSE g

\* IDLE, then discovery again if it is still wanted.
Restart(h) == StartRfDiscover(NewState(h, "IDLE"))

ClearActivated(h) ==
  [h EXCEPT !.d.module = "none", !.d.protocol = "none", !.d.notifyPending = FALSE]

\* Who hears of the end of an activation.
Hears(h, m) == IF h.d.excl THEN "excl" ELSE m

Ended(h, m) ==
  IF Hears(h, m) = "none" THEN h ELSE [h EXCEPT !.d.active[Hears(h, m)] = 0]

\* nfa_dm_disc_notify_deactivation for a response, and for a notification.
NotifyDeactivationRsp(h) ==
  IF h.d.checking THEN h
  ELSE ClearActivated(
    IF h.d.st = "LISTEN_SLEEP" THEN Ended(h, "listen")
    ELSE IF ~h.d.stopping \/ h.d.notifyPending THEN Ended(h, h.d.module)
    ELSE h)

\* Mutant: nobody hears of it while a stop is under way.
NotifyDeactivationNtfUnlessStopping(h) ==
  IF h.d.checking \/ h.d.stopping THEN h ELSE ClearActivated(Ended(h, h.d.module))

NotifyDeactivationNtf(h) ==
  IF h.d.checking THEN h ELSE ClearActivated(Ended(h, h.d.module))

\* With exclusive control every activation is wanted.
Wanted(h, a) == h.d.excl \/ a.match

\* nfa_dm_disc_notify_activation: the module that wants the activation hears of
\* it, unless no entry does.  A tag that is woken up is one the module knows.
NotifyActivation(h, a, known) ==
  IF h.d.excl
  THEN [h EXCEPT !.d.module = "none", !.d.protocol = a.protocol,
                 !.d.active["excl"] = @ + 1]
  ELSE IF a.match
  THEN [h EXCEPT !.d.module = a.mode, !.d.protocol = a.protocol,
                 !.d.active[a.mode] = IF known THEN @ ELSE @ + 1]
  ELSE [h EXCEPT !.d.module = "none", !.d.protocol = "none"]

\* nfa_dm_disc_force_to_idle
ForceToIdle(h) ==
  IF h.d.w4ntf
  THEN NFC_Deactivate([h EXCEPT !.d.w4ntf = FALSE, !.d.w4rsp = TRUE, !.d.st = "IDLE"], "IDLE")
  ELSE h

\* nfa_dm_send_deactivate_cmd: one at a time; a second one while the timer no
\* longer guards the first forces the NFCC to idle.
SendDeactivate(h, type) ==
  IF ~h.d.w4rsp /\ ~h.d.w4ntf
    THEN [NFC_Deactivate([h EXCEPT !.d.w4rsp = TRUE, !.d.w4ntf = TRUE], type)
          EXCEPT !.d.tle = TRUE]
  ELSE IF type = "SLEEP" \/ h.d.tle THEN h
  ELSE ForceToIdle(h)

-------------------------------------------------------------------------------
(* A deactivation asked for on the host: NFA_DM_RF_DEACTIVATE_CMD in each   *)
(* state of nfa_dm_disc_sm_execute.                                         *)

Postpone(h, type) == [h EXCEPT !.d.deactPending = TRUE, !.d.pendingType = type]

DeactivateOnce(h, type) ==
  IF h.d.w4rsp THEN h ELSE NFC_Deactivate([h EXCEPT !.d.w4rsp = TRUE], type)

DeactivateCmd(h, type) ==
  CASE h.d.st = "IDLE" -> h
    [] h.d.st = "DISCOVERY" -> DeactivateOnce(h, type)
    [] h.d.st = "W4_ALL_DISCOVERIES" -> DeactivateOnce(h, "IDLE")
    [] h.d.st = "W4_HOST_SELECT" ->
         IF h.d.checking THEN Postpone(h, type) ELSE DeactivateOnce(h, "IDLE")
    [] h.d.st = "POLL_ACTIVE" ->
         IF h.d.protocol = "MIFARE" THEN SendDeactivate(Postpone(h, type), type)
         ELSE IF h.d.checking THEN Postpone(h, type)
         ELSE SendDeactivate(h, type)
    [] h.d.st = "LISTEN_ACTIVE" -> SendDeactivate(h, type)
    [] h.d.st = "LISTEN_SLEEP" ->
         LET g == SendDeactivate(h, type)
         IN IF type = "DISCOVERY" THEN g
            ELSE [g EXCEPT !.d.w4ntf = FALSE, !.d.tle = FALSE]

\* nfa_dm_rf_deactivate
RfDeactivate(h, type) ==
  IF h.d.st = "DISCOVERY" /\ type # "IDLE" THEN h ELSE DeactivateCmd(h, type)

\* nfa_dm_disc_end_sleep_wakeup: the module hears the result, and gives the tag
\* up if it did not wake; then a deactivation that waited for this is made.
EndSleepWakeup(h, ok) ==
  IF ~h.d.checking THEN h
  ELSE LET done == [h EXCEPT !.d.checking = FALSE]
           told == IF ok THEN done ELSE RfDeactivate(done, "DISCOVERY")
       IN IF ~told.d.deactPending THEN told
          ELSE DeactivateCmd([told EXCEPT !.d.deactPending = FALSE, !.d.notifyPending = TRUE],
                             told.d.pendingType)

-------------------------------------------------------------------------------
(* Messages of the NFCC in each state: the switches of nfa_dm_disc_sm_*.    *)

SmIdle(h, m) ==
  CASE m.kind = "discover_rsp" ->
         LET g == [h EXCEPT !.d.w4rsp = FALSE]
             stop == g.d.stopping \/ g.d.disabling \/ ~m.ok
             s == IF m.ok THEN NewState(g, "DISCOVERY") ELSE g
         IN IF stop THEN NFC_Deactivate([s EXCEPT !.d.w4rsp = TRUE], "IDLE") ELSE s
    [] m.kind = "deactivate_rsp" ->
         LET g == [h EXCEPT !.d.w4rsp = FALSE]
         IN IF ~m.ok THEN Restart(g)
            ELSE IF g.d.w4ntf THEN g
            ELSE Restart(NotifyDeactivationNtf(g))
    [] m.kind = "deactivate_ntf" ->
         LET g == IF h.d.w4ntf THEN h
                  ELSE IF m.type = "DISCOVERY"
                    THEN NFC_Deactivate([h EXCEPT !.d.w4rsp = TRUE], "IDLE")
                  ELSE Restart(NotifyDeactivationNtf(h))
         IN [g EXCEPT !.d.w4ntf = FALSE]
    [] m.kind = "activated_ntf" ->
         NFC_Deactivate([h EXCEPT !.d.w4rsp = TRUE, !.d.w4ntf = TRUE], "IDLE")
    [] OTHER -> h

SmDiscovery(h, m) ==
  CASE m.kind = "deactivate_rsp" ->
         LET g == [h EXCEPT !.d.w4rsp = FALSE]
         IN IF g.d.w4ntf THEN g ELSE Restart(g)
    [] m.kind = "discover_ntf" ->
         IF m.more = "last_abort" THEN NFC_Deactivate(h, "IDLE")
                                  ELSE NewState(h, "W4_ALL_DISCOVERIES")
    [] m.kind = "activated_ntf" ->
         IF h.d.w4rsp THEN [h EXCEPT !.d.w4ntf = TRUE]
         ELSE LET st == IF m.act.mode = "poll" THEN "POLL_ACTIVE" ELSE "LISTEN_ACTIVE"
                  g == NotifyActivation(NewState(h, st), m.act, FALSE)
              IN IF Wanted(h, m.act) THEN g
                 ELSE NFC_Deactivate([g EXCEPT !.d.w4rsp = TRUE, !.d.w4ntf = TRUE], "IDLE")
    [] m.kind = "deactivate_ntf" ->
         LET g == [h EXCEPT !.d.w4ntf = FALSE]
         IN IF h.d.w4ntf /\ ~h.d.w4rsp THEN Restart(g) ELSE g
    [] OTHER -> h

SmW4AllDiscoveries(h, m) ==
  CASE m.kind = "deactivate_rsp" ->
         Restart(NotifyDeactivationRsp([h EXCEPT !.d.w4rsp = FALSE]))
    [] m.kind = "discover_ntf" ->
         IF ~m.known THEN NFC_Deactivate(h, "IDLE")
         ELSE IF m.more = "more" \/ h.d.w4rsp THEN h
         ELSE NewState(h, "W4_HOST_SELECT")
    [] m.kind = "activated_ntf" ->
         LET g == NotifyActivation(NewState(h, "POLL_ACTIVE"), m.act, FALSE)
         IN IF Wanted(h, m.act) THEN g ELSE NFC_Deactivate(g, "IDLE")
    [] OTHER -> h

SmW4HostSelect(h, m) ==
  CASE m.kind = "select_rsp" -> IF m.ok THEN h ELSE EndSleepWakeup(h, FALSE)
    [] m.kind = "activated_ntf" ->
         LET g == NotifyActivation(NewState(h, "POLL_ACTIVE"), m.act, h.d.checking)
         IN IF h.d.checking THEN EndSleepWakeup(g, TRUE)
            ELSE IF Wanted(h, m.act) THEN g ELSE NFC_Deactivate(g, "IDLE")
    [] m.kind = "deactivate_rsp" ->
         Restart(NotifyDeactivationRsp([h EXCEPT !.d.w4rsp = FALSE]))
    [] m.kind = "intf_error_ntf" -> EndSleepWakeup(h, FALSE)
    [] OTHER -> NFC_Deactivate(h, "IDLE")

NtfBeforeRspWaits(h) == [h EXCEPT !.d.w4rsp = FALSE]  \* mutant: never sees that it came

\* The notification came before the response: the NFCC is idle.
NtfBeforeRsp(h) ==
  LET g == [h EXCEPT !.d.w4rsp = FALSE]
  IN IF g.d.w4ntf THEN g ELSE Restart(NotifyDeactivationNtf(g))

NtfArrives(h) == [h EXCEPT !.d.w4ntf = FALSE, !.d.tle = FALSE]

\* Mutant: the deactivation that waits is forgotten.
AsleepForgets(h) ==
  IF h.d.checking /\ ~h.d.deactPending THEN SendCmd(h, "wake") ELSE h

\* Asleep: the tag is woken up again, unless it is to be deactivated.
Asleep(h) ==
  IF ~h.d.checking THEN h
  ELSE IF h.d.deactPending THEN EndSleepWakeup(h, TRUE)
  ELSE SendCmd(h, "wake")

BackToDiscovery(h) ==
  IF h.d.stopping THEN NFC_Deactivate(h, "IDLE") ELSE h

SmPollActive(h, m) ==
  CASE m.kind = "deactivate_rsp" -> NtfBeforeRsp(h)
    [] m.kind = "deactivate_ntf" ->
         LET g == NtfArrives(h)
             told == NotifyDeactivationNtf(g)
         IN IF g.d.w4rsp THEN g
            ELSE IF m.type = "SLEEP" THEN Asleep(NewState(told, "W4_HOST_SELECT"))
            ELSE EndSleepWakeup(IF m.type = "IDLE" THEN Restart(told)
                                ELSE BackToDiscovery(NewState(told, "DISCOVERY")), FALSE)
    [] OTHER -> h

SmListenActive(h, m) ==
  CASE m.kind = "deactivate_rsp" -> NtfBeforeRsp(h)
    [] m.kind = "deactivate_ntf" ->
         LET g == NtfArrives(h)
             told == NotifyDeactivationNtf(g)
         IN IF g.d.w4rsp THEN g
            ELSE IF m.type = "SLEEP" THEN NewState(told, "LISTEN_SLEEP")
            ELSE IF m.type = "IDLE" THEN Restart(told)
            ELSE BackToDiscovery(NewState(told, "DISCOVERY"))
    [] OTHER -> h

SmListenSleep(h, m) ==
  CASE m.kind = "deactivate_rsp" ->
         LET g == [h EXCEPT !.d.w4rsp = FALSE]
         IN IF g.d.w4ntf THEN g ELSE Restart(NotifyDeactivationRsp(g))
    [] m.kind = "deactivate_ntf" ->
         LET told == NotifyDeactivationRsp([NtfArrives(h) EXCEPT !.d.w4rsp = FALSE])
         IN IF m.type = "DISCOVERY" THEN NewState(told, "DISCOVERY") ELSE Restart(told)
    [] m.kind = "activated_ntf" ->
         LET g == NotifyActivation(NewState(h, "LISTEN_ACTIVE"), m.act, FALSE)
         IN IF Wanted(h, m.act) THEN g ELSE NFC_Deactivate(g, "IDLE")
    [] OTHER -> h

DiscSmExecute(h, m) ==
  CASE h.d.st = "IDLE" -> SmIdle(h, m)
    [] h.d.st = "DISCOVERY" -> SmDiscovery(h, m)
    [] h.d.st = "W4_ALL_DISCOVERIES" -> SmW4AllDiscoveries(h, m)
    [] h.d.st = "W4_HOST_SELECT" -> SmW4HostSelect(h, m)
    [] h.d.st = "POLL_ACTIVE" -> SmPollActive(h, m)
    [] h.d.st = "LISTEN_ACTIVE" -> SmListenActive(h, m)
    [] h.d.st = "LISTEN_SLEEP" -> SmListenSleep(h, m)

-------------------------------------------------------------------------------
(* nfa_dm_p2p_prio_logic: the first time ISO-DEP answers, polling goes on    *)
(* in case NFC-DEP answers too; these messages do not reach the handlers.   *)

NoPrio == [isodep |-> FALSE, expired |-> FALSE, timer |-> "none"]

\* With the timer of the cleanup stopped, as for every activation.
PrioStopped == IF prio.expired THEN [prio EXCEPT !.timer = "none"] ELSE prio

PollsOn(a) == /\ dm.st = "DISCOVERY" /\ a.mode = "poll" /\ a.protocol = "ISO_DEP"
              /\ prio.isodep => ~a.same

PrioSwallows(m) ==
  \/ m.kind = "activated_ntf" /\ PollsOn(m.act)
  \/ /\ m.kind \in {"deactivate_rsp", "deactivate_ntf"}
     /\ dm.st = "DISCOVERY" /\ prio.isodep /\ ~prio.expired

PrioNext(m) ==
  CASE m.kind = "activated_ntf" ->
         IF dm.st # "DISCOVERY" THEN PrioStopped
         ELSE IF PollsOn(m.act) THEN [NoPrio EXCEPT !.isodep = TRUE]
         ELSE IF m.act.mode = "listen" \/ prio.isodep THEN NoPrio
         ELSE PrioStopped
    [] m.kind = "discover_rsp" /\ prio.expired -> [prio EXCEPT !.timer = "cleanup"]
    [] m.kind = "deactivate_ntf" /\ PrioSwallows(m) -> [prio EXCEPT !.timer = "resume"]
    [] OTHER -> prio

\* A notification that the NFCC polls again, while the host is about to start
\* discovery itself, is dropped (nfc_ncif_proc_deactivate).
Dropped(m) == m.kind = "deactivate_ntf" /\ m.type = "DISCOVERY" /\ cmd.discover

IsRsp(m) == m.kind \in {"discover_rsp", "select_rsp", "deactivate_rsp"}

\* nfc_ncif_update_window, after the response has been handled.
UpdateWindow(h) == CheckCmdQueue([h EXCEPT !.c.window = 1])

Receive ==
  /\ toHost # <<>>
  /\ LET m == Head(toHost)
         h == IF PrioSwallows(m)
                THEN IF m.kind = "activated_ntf" THEN SendCmd(Host, "DISCOVERY") ELSE Host
              ELSE IF Dropped(m) THEN Host
              ELSE DiscSmExecute(Host, m)
     IN /\ HostBecomes(IF IsRsp(m) THEN UpdateWindow(h) ELSE h, Tail(toHost))
        /\ prio' = PrioNext(m)
  /\ UNCHANGED used

\* nfa_dm_p2p_timer_event: nothing else was found; discovery starts over, and
\* an ISO-DEP tag found then is activated.
PrioTimeout ==
  /\ prio.timer = "resume"
  /\ prio' = [prio EXCEPT !.timer = "none", !.expired = TRUE]
  /\ UNCHANGED used
  /\ HostBecomes(IF prio.isodep THEN SendCmd(Host, "IDLE") ELSE Host, toHost)

PrioCleanupTimeout ==
  /\ prio.timer = "cleanup"
  /\ prio' = NoPrio
  /\ UNCHANGED <<dm, cmd, nfcc, toHost, used>>

\* nfa_dm_disc_deact_ntf_timeout_cback: the notification of a deactivation that
\* was answered does not come.  The timer is far longer than an answer takes.  The
\* branch for num_disc_maps = 1 is for a build with NFC_RW_ONLY: this one maps three
\* interfaces or four (nfc_main.c:84, :772).
DeactNtfTimeout ==
  /\ dm.tle /\ nfcc.cmd = "none" /\ toHost = <<>>
  /\ UNCHANGED <<prio, used>>
  /\ HostBecomes(ForceToIdle([Host EXCEPT !.d.tle = FALSE]), toHost)

\* The last of the subsystems above is disabled (nfa_sys_deregister); those that
\* talk to NFCEEs take their time.
SubsystemsDisabled ==
  /\ dm.sys = "closing" /\ dm.above
  /\ UNCHANGED <<prio, used>>
  /\ HostBecomes(CheckDisabled([Host EXCEPT !.d.above = FALSE]), toHost)

\* nfa_dm_act_disable_timeout: the graceful disable takes too long.
DisableTimeout ==
  /\ dm.sys = "closing"
  /\ UNCHANGED <<prio, used>>
  /\ HostBecomes(DisableComplete(Host), toHost)

-------------------------------------------------------------------------------
(* Calls of the application and of the modules above.                       *)

Call(h) ==
  /\ dm.sys = "on"
  /\ used.app < lim.app /\ used' = [used EXCEPT !.app = @ + 1]
  /\ UNCHANGED prio
  /\ HostBecomes(h, toHost)

\* nfa_dm_act_start_rf_discovery; in the other states it only reports.  An
\* application need not wait for a stop to be reported.
StartRfDiscovery ==
  /\ ~dm.enabled /\ dm.st = "IDLE"
  /\ dm.excl => "overlap" \in lim.cases
  /\ Call(StartRfDiscover([Host EXCEPT !.d.enabled = TRUE]))

\* A target goes to sleep or wakes up; a stop does not interrupt this, unless
\* "overlap".
Dozing == \/ dm.tle /\ ("sleep" \in lim.cases \/ dm.st = "LISTEN_SLEEP")
          \/ dm.w4rsp /\ dm.st = "W4_HOST_SELECT"

\* nfa_dm_act_stop_rf_discovery, once per start: stopping until IDLE again.
StopRfDiscovery ==
  LET off == [Host EXCEPT !.d.enabled = FALSE]
  IN /\ dm.enabled
     /\ Dozing => "overlap" \in lim.cases
     /\ Call(IF dm.st = "IDLE"
             THEN [off EXCEPT !.d.stopping = @ \/ dm.w4rsp]
             ELSE RfDeactivate([off EXCEPT !.d.stopping = TRUE], "IDLE"))

\* nfa_dm_act_deactivate
ActDeactivate(sleep) ==
  LET type == IF dm.st = "W4_ALL_DISCOVERIES" \/ (sleep /\ dm.st = "W4_HOST_SELECT") THEN "IDLE"
              ELSE IF sleep /\ dm.st # "LISTEN_SLEEP" THEN "SLEEP"
              ELSE "DISCOVERY"
  IN /\ sleep => "sleep" \in lim.cases
     /\ Call(RfDeactivate(Host, type))

\* nfa_dm_rf_discover_select, of a target that was reported and not yet active.
RfDiscoverSelect ==
  /\ dm.st = "W4_HOST_SELECT" /\ ~dm.w4rsp /\ dm.module = "none"
  /\ Call(SendCmd(Host, "select"))

\* nfa_dm_disc_sleep_wakeup, for a tag of the reader module that is not being
\* checked already.  If it cannot start, the module gives the tag up.
CheckPresence ==
  /\ "wakeup" \in lim.cases
  /\ dm.stopping => "overlap" \in lim.cases
  /\ dm.module = "poll" /\ dm.st = "POLL_ACTIVE" /\ ~dm.checking
  /\ Call(IF ~dm.w4rsp /\ ~dm.w4ntf
          THEN [SendDeactivate(Host, "SLEEP")
                EXCEPT !.d.checking = TRUE, !.d.deactPending = FALSE]
          ELSE RfDeactivate(Host, "DISCOVERY"))

\* nfa_dm_act_request_excl_rf_ctrl; refused in the other states.  The application
\* stops discovery first (nfa_dm_api.c:320).
RequestExclRfCtrl ==
  /\ "excl" \in lim.cases
  /\ ~dm.excl /\ dm.st = "IDLE"
  /\ dm.enabled \/ dm.stopping => "overlap" \in lim.cases
  /\ Call(StartRfDiscover([Host EXCEPT !.d.excl = TRUE]))

\* nfa_dm_act_release_excl_rf_ctrl, once.
ReleaseExclRfCtrl ==
  LET off == [Host EXCEPT !.d.stopping = TRUE]
  IN /\ dm.excl /\ ~dm.stopping
     /\ Dozing => "overlap" \in lim.cases
     /\ Call(IF dm.st = "IDLE" /\ dm.w4rsp THEN off ELSE RfDeactivate(off, "IDLE"))

\* nfa_dm_disable: discovery is ended if it is on; DM goes when the others have.
Disable(graceful) ==
  LET off == [Host EXCEPT !.d.enabled = FALSE, !.d.sys = "closing",
                          !.d.clear = dm.enabled /\ ~dm.tle /\ ~cmd.discover]
      ended == IF ~dm.enabled THEN off
               ELSE IF dm.st = "IDLE" THEN [off EXCEPT !.d.disabling = dm.w4rsp]
               ELSE LET g == DeactivateCmd([off EXCEPT !.d.disabling = TRUE], "IDLE")
                    IN [g EXCEPT !.d.disabling = g.d.w4rsp \/ g.d.w4ntf]
  IN /\ "disable" \in lim.cases
     /\ Call(IF graceful THEN ended ELSE DisableComplete(Host))

-------------------------------------------------------------------------------
(* The NFCC (external).                                                     *)

Rsp(kind, ok) == [kind |-> kind, ok |-> ok]
DeactNtf(type) == [kind |-> "deactivate_ntf", type |-> type]
ActNtf(a) == [kind |-> "activated_ntf", act |-> a]
DiscNtf(more, known) == [kind |-> "discover_ntf", more |-> more, known |-> known]

NfccState(type, mode) ==
  CASE type = "IDLE" -> "IDLE"
    [] type = "DISCOVERY" -> "DISCOVERY"
    [] type = "SLEEP" -> IF mode = "LISTEN_ACTIVE" THEN "LISTEN_SLEEP" ELSE "W4_HOST_SELECT"

Answers(st, msgs) == /\ nfcc' = [nfcc EXCEPT !.st = st, !.cmd = "none", !.crossed = FALSE,
                                             !.mute = @ /\ st # "IDLE"]
                     /\ toHost' = toHost \o msgs

\* What may be activated in a mode.
Activations(mode) ==
  {a \in Activation :
     /\ a.mode = mode
     /\ a.protocol # "other" => mode = "poll" /\ a.match
     /\ a.protocol = "ISO_DEP" => "prio" \in lim.cases
     /\ a.same => a.protocol = "ISO_DEP"}

AnswerDiscover ==
  /\ nfcc.cmd = "discover"
  /\ IF nfcc.st = "IDLE" THEN Answers("DISCOVERY", <<Rsp("discover_rsp", TRUE)>>)
                         ELSE Answers(nfcc.st, <<Rsp("discover_rsp", FALSE)>>)
  /\ UNCHANGED <<dm, cmd, prio, used>>

\* The target that was active is activated as it was.
AnswerSelect ==
  /\ nfcc.cmd \in {"select", "wake"}
  /\ IF nfcc.st # "W4_HOST_SELECT" THEN Answers(nfcc.st, <<Rsp("select_rsp", FALSE)>>)
     ELSE \/ \E a \in Activations("poll") :
               /\ nfcc.cmd = "wake" => a.match /\ a.protocol = dm.protocol
               /\ Answers("POLL_ACTIVE", <<Rsp("select_rsp", TRUE), ActNtf(a)>>)
          \/ Answers(nfcc.st, <<Rsp("select_rsp", TRUE), [kind |-> "intf_error_ntf"]>>)
  /\ UNCHANGED <<dm, cmd, prio, used>>

\* Notified if a link was active or discovery is to go on; not if the NFCC had
\* only been discovering.  It may fall silent before it has notified: then only
\* a deactivation to idle is taken, notified or not.
AnswerDeactivate ==
  LET type == nfcc.cmd
      active == nfcc.st \in {"POLL_ACTIVE", "LISTEN_ACTIVE"}
      refused == \/ nfcc.st = "IDLE"
                 \/ /\ nfcc.st \in {"DISCOVERY", "W4_ALL_DISCOVERIES", "W4_HOST_SELECT"}
                    /\ type # "IDLE"
                 \/ nfcc.st = "LISTEN_SLEEP" /\ type = "SLEEP"
                 \/ nfcc.mute /\ type # "IDLE"
      ok == Rsp("deactivate_rsp", TRUE)
  IN /\ type \in DeactType
     /\ \/ refused /\ Answers(nfcc.st, <<Rsp("deactivate_rsp", FALSE)>>)
        \/ /\ ~refused /\ ~active
           /\ Answers(type, IF type = "IDLE" THEN <<ok>> ELSE <<ok, DeactNtf(type)>>)
        \/ /\ ~refused /\ active
           /\ Answers(NfccState(type, nfcc.st), <<ok, DeactNtf(type)>>)
        \/ nfcc.mute /\ ~refused /\ Answers("IDLE", <<ok>>)
     /\ UNCHANGED <<dm, cmd, prio, used>>

FallSilent ==
  /\ used.mute < lim.mute /\ used' = [used EXCEPT !.mute = @ + 1]
  /\ nfcc.cmd \in DeactType /\ nfcc.st \in {"POLL_ACTIVE", "LISTEN_ACTIVE"} /\ dm.tle
  /\ nfcc' = [nfcc EXCEPT !.cmd = "none", !.crossed = FALSE, !.mute = TRUE]
  /\ toHost' = Append(toHost, Rsp("deactivate_rsp", TRUE))
  /\ UNCHANGED <<dm, cmd, prio>>

\* Something happens in the field: the NFCC notifies m and is then in st.  The
\* host answers within milliseconds: events do not pile up, and at most one
\* crosses a command.
Field(st, m) ==
  /\ used.rf < lim.rf /\ used' = [used EXCEPT !.rf = @ + 1]
  /\ ~nfcc.crossed /\ ~nfcc.mute /\ \A i \in 1..Len(toHost) : IsRsp(toHost[i])
  /\ nfcc' = [nfcc EXCEPT !.st = st, !.crossed = nfcc.cmd # "none"]
  /\ toHost' = Append(toHost, m)
  /\ UNCHANGED <<dm, cmd, prio>>

FieldActivated ==
  \/ nfcc.st = "DISCOVERY" /\ \E a \in Activations("poll") : Field("POLL_ACTIVE", ActNtf(a))
  \/ /\ nfcc.st \in {"DISCOVERY", "LISTEN_SLEEP"} /\ "listen" \in lim.cases
     /\ \E a \in Activations("listen") : Field("LISTEN_ACTIVE", ActNtf(a))
  \/ nfcc.st = "W4_ALL_DISCOVERIES"
     /\ \E a \in Activations("poll") : a.protocol = "other" /\ Field("POLL_ACTIVE", ActNtf(a))

FieldDiscovered ==
  /\ "select" \in lim.cases
  /\ \/ nfcc.st = "DISCOVERY" /\ Field("W4_ALL_DISCOVERIES", DiscNtf("more", TRUE))
     \/ nfcc.st = "DISCOVERY" /\ Field("W4_HOST_SELECT", DiscNtf("last_abort", TRUE))
     \/ /\ nfcc.st = "W4_ALL_DISCOVERIES"
        /\ \E known \in BOOLEAN : Field("W4_HOST_SELECT", DiscNtf("last", known))

FieldLost ==
  \/ nfcc.st = "LISTEN_ACTIVE" /\ Field("LISTEN_SLEEP", DeactNtf("SLEEP"))
  \/ nfcc.st \in {"LISTEN_ACTIVE", "LISTEN_SLEEP"} /\ Field("DISCOVERY", DeactNtf("DISCOVERY"))
  \/ /\ nfcc.st = "POLL_ACTIVE" /\ "loss" \in lim.cases
     /\ Field("DISCOVERY", DeactNtf("DISCOVERY"))

-------------------------------------------------------------------------------
HostNext == \/ Receive \/ PrioTimeout \/ PrioCleanupTimeout \/ DeactNtfTimeout
            \/ SubsystemsDisabled \/ DisableTimeout
ApiNext == \/ StartRfDiscovery \/ StopRfDiscovery \/ RfDiscoverSelect \/ CheckPresence
           \/ \E sleep \in BOOLEAN : ActDeactivate(sleep)
           \/ RequestExclRfCtrl \/ ReleaseExclRfCtrl
           \/ \E graceful \in BOOLEAN : Disable(graceful)
NfccNext == \/ AnswerDiscover \/ AnswerSelect \/ AnswerDeactivate \/ FallSilent
            \/ FieldActivated \/ FieldDiscovered \/ FieldLost

Next == HostNext \/ ApiNext \/ NfccNext
Spec == Init /\ [][Next]_vars

\* NFC_TASK takes what is posted to it, timers expire, and the NFCC answers.
\* Nothing is assumed of the field or of the application.
FairSpec ==
  /\ Spec
  /\ WF_vars(Receive) /\ WF_vars(PrioTimeout) /\ WF_vars(DeactNtfTimeout)
  /\ WF_vars(SubsystemsDisabled)
  /\ WF_vars(AnswerDiscover) /\ WF_vars(AnswerSelect) /\ WF_vars(AnswerDeactivate)

-------------------------------------------------------------------------------
(* Properties.                                                              *)

\* Nothing is under way between the host and the NFCC.
Quiet == /\ toHost = <<>> /\ nfcc.cmd = "none" /\ cmd.q = <<>> /\ ~cmd.discover
         /\ prio.timer # "resume"

\* While discovery or exclusive control is wanted, host and NFCC agree on the RF state whenever
\* nothing is under way, whatever crossed: a start that is refused brings the
\* NFCC back to idle (nfa_dm_disc_sm_idle).
AgreesWithNfcc ==
  Quiet /\ ~dm.tle /\ (dm.enabled \/ dm.excl) /\ ~dm.twice => dm.st = nfcc.st

\* A module hears of the end of an activation before it hears of the next.
ActivationsEnd == dm.twice \/ \A m \in Hearer : dm.active[m] <= 1

\* A stop that waits for the NFCC is reported, whatever crosses it, unless discovery was started twice: a second start
\* waits behind the first one, and NFC_Deactivate then only takes it back.
StopEnds == dm.stopping ~> (~dm.stopping \/ dm.twice)

\* A presence check comes to an end.
CheckEnds == dm.checking ~> ~dm.checking

\* A graceful disable that meets discovery comes to an end by itself, without
\* the timer that would force it.
DisableEnds == (dm.sys = "closing" /\ dm.clear) ~> (dm.sys = "off" \/ dm.twice)

\* All: what was begun with the NFCC comes to an end (nfa_dm_discover.c:1040).
CommandsEnd == StopEnds /\ CheckEnds /\ DisableEnds
=============================================================================
