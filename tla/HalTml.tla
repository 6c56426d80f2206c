-------------------------------- MODULE HalTml --------------------------------
(***************************************************************************)
(* The HAL of the PN54x (hal/phNxpNciHal.c, hal/phNxpNciHal_ext.c) on its  *)
(* transport (tml/i2c/phTmlNfc.c) with the client thread's message queue   *)
(* and the timer (tml/phDal4Nfc_messageQueueLib.c, tml/phOsalNfc_Timer.c). *)
(*                                                                         *)
(* Five threads meet here.  The stack's thread calls the HAL, which may    *)
(* send commands of its own and wait for their responses; the TML has a    *)
(* reader and a writer; what they did, and a timer that expired, reaches   *)
(* the client thread as messages, and the client thread posts semaphores   *)
(* of the calling thread or hands packets up to the stack.  The NFCC       *)
(* (external) answers commands and sends notifications and data.           *)
(*                                                                         *)
(* One action is what a thread does between two points at which another    *)
(* thread can see a difference.  Not modelled: retransmission (never       *)
(* enabled), firmware download, packets rewritten on their way, Kovio.     *)
(***************************************************************************)
EXTENDS Naturals, Sequences, SequencesExt

CONSTANTS
  MaxRetry,     \* MAX_RETRY_COUNT, writes repeated before the device is reset
  MaxInit,      \* the 3 of init_retry_cnt and of retry_core_init_cnt
  MaxReadErr,   \* CUSTOM_MAX_READ_ERROR_BEFORE_ABORT
  Bounds        \* what a behaviour may do; each takes one of these records:
                \*   opens   times the HAL is opened
                \*   conf    commands phNxpNciHal_core_initialized sends
                \*   calls   commands the stack writes, recoveries and configurations
                \*   late    times the timer expires before a late answer
                \*   sends   notifications and data packets of the NFCC
                \*   mute    commands the NFCC does not answer
                \*   fail    writes that fail
                \*   err     reads that fail
                \*   cases   "data"     the NFCC sends data packets
                \*           "ntf"      the NFCC sends notifications
                \*           "overlap"  the stack closes the HAL while it waits

BoundCases == {"data", "ntf", "overlap"}

ASSUME RetryAssumption == MaxRetry \in Nat /\ MaxInit \in Nat /\ MaxReadErr \in Nat
ASSUME BoundAssumption ==
  Bounds \subseteq [opens : Nat, conf : Nat \ {0}, calls : Nat, late : Nat, sends : Nat, mute : Nat,
                    fail : Nat, err : Nat, cases : SUBSET BoundCases]

VARIABLES
  hal,      \* nxpncihal_ctrl and the call of the stack's thread under way
  tml,      \* gpphTmlNfc_Context, its reader and its writer
  q,        \* the client thread's message queue
  client,   \* the client thread: "on", "posting" in the timer's callback, "taken" and
            \* "rearm" in that of a read, "off"
  nfcc,     \* the NFCC: commands it holds, packets on their way
  up,       \* what the stack heard
  used      \* how much of each bound is used, and the bounds (lim)

vars == <<hal, tml, q, client, nfcc, up, used>>

lim == used.lim

-------------------------------------------------------------------------------
(* Data.                                                                    *)

\* Packets of the NFCC (rsp, bad_rsp, ntf, data) and the HAL's own reset_ntf,
\* numbered n in the order they were sent.  id: the command answered;
\* a bad CORE_INIT_RSP has no firmware version or an unknown chip.
Packet(k, id, n) == [k |-> k, id |-> id, n |-> n]
NoPacket == Packet("data", 0, 0)

\* Responses and notifications have bit 0x40 set in their first octet, data has not.
HasBit40(p) == p.k # "data"

\* Commands of the HAL go by what they are for: RESET, INIT, CONF, DISC; LAST is
\* the stack's command that was not answered, sent again.
ConfSteps == [i \in 1..lim.conf |-> "CONF"]

TmlOff == [on |-> FALSE, run |-> FALSE,
           rbusy |-> FALSE, renable |-> FALSE, rsem |-> 0, rd |-> "off",
           dst |-> "rx", buf |-> NoPacket, errs |-> 0,
           wbusy |-> FALSE, wenable |-> FALSE, wsem |-> 0, wr |-> "off"]

HalClosed == [job |-> "none", todo |-> <<>>, pc |-> "idle", recover |-> FALSE,
              id |-> 0,             \* the command under way
              cmd |-> 0,            \* p_cmd_data: a command, or 0 when overwritten
              retry |-> 0,          \* retry_cnt
              tries |-> 0, core |-> 0,            \* init_retry_cnt, retry_core_init_cnt
              ext |-> FALSE,        \* hal_ext_enabled
              sem |-> 0, stat |-> "ok",           \* ext_cb_data
              got |-> 0,            \* ghost: the answer that posted it
              ret |-> "ok",
              wdone |-> "no",       \* cb_data of phNxpNciHal_write_unlocked
              timer |-> "off", open |-> FALSE, cb |-> FALSE, rx |-> FALSE,
              closing |-> TRUE]     \* halStatus = HAL_STATUS_CLOSE

Silence == [opened |-> FALSE, failed |-> FALSE, inited |-> FALSE, closed |-> FALSE,
            error |-> FALSE, resets |-> 0,
            due |-> 0,              \* the stack's command not answered yet
            wrong |-> FALSE]        \* history: a response to no command of the stack

Init ==
  /\ hal = HalClosed /\ tml = TmlOff /\ q = <<>> /\ client = "off"
  /\ nfcc = [held |-> <<>>, out |-> <<>>, sent |-> 0, seen |-> 0]
  /\ up = Silence
  /\ \E b \in Bounds : used = [opens |-> 0, ids |-> 0, calls |-> 0, late |-> 0, sends |-> 0,
                               mute |-> 0, fail |-> 0, err |-> 0, lim |-> b]

Post(m) == q' = Append(q, m)
InQueue(m) == Contains(q, m)

\* What the stack makes of a packet.
Heard(u, p) ==
  IF p.k = "reset_ntf" THEN [u EXCEPT !.resets = @ + 1]
  ELSE IF p.k \notin {"rsp", "bad_rsp"} THEN u
  ELSE IF p.id = u.due /\ p.id # 0 THEN [u EXCEPT !.due = 0]
  ELSE [u EXCEPT !.wrong = TRUE]

\* phTmlNfc_e_ResetDevice: what the NFCC held and had to send is gone.
ResetDevice ==
  nfcc' = [nfcc EXCEPT !.held = <<>>, !.out = <<>>, !.sent = @ - Len(nfcc.out)]

ReadInto(t, dst) ==
  [t EXCEPT !.rbusy = TRUE, !.renable = TRUE, !.rsem = @ + 1, !.dst = dst]

-------------------------------------------------------------------------------
(* Calls of the stack's thread.                                             *)

Idle == hal.job = "none" /\ hal.pc = "idle"
Usable == Idle /\ up.opened /\ ~up.failed /\ ~hal.closing

\* The first read goes to p_cmd_data, where the commands are written from too.
Open ==
  /\ Idle /\ hal.closing /\ q = <<>>
  /\ used.opens < lim.opens /\ used' = [used EXCEPT !.opens = @ + 1]
  /\ hal' = [HalClosed EXCEPT !.job = "open", !.todo = <<"RESET", "INIT">>, !.pc = "enable",
                              !.core = hal.core, !.timer = "stopped", !.cb = TRUE, !.closing = FALSE]
  /\ tml' = ReadInto([TmlOff EXCEPT !.on = TRUE, !.run = TRUE, !.rd = "wait", !.wr = "wait"],
                     "cmd")
  /\ client' = "on" /\ up' = Silence
  /\ nfcc' = [nfcc EXCEPT !.held = <<>>, !.out = <<>>, !.sent = 0, !.seen = 0]
  /\ UNCHANGED q

\* phNxpNciHal_core_initialized, after CORE_INIT; retry_core_init_cnt is static.
CoreInitialized ==
  /\ Usable /\ ~up.inited /\ up.due = 0
  /\ used.calls < lim.calls /\ used' = [used EXCEPT !.calls = @ + 1]
  /\ hal' = [hal EXCEPT !.job = "core", !.todo = ConfSteps, !.pc = "enable", !.recover = FALSE]
  /\ UNCHANGED <<tml, q, client, nfcc, up>>

\* retry_core_init: gives up without a word once the counter has passed MaxInit.
RetryCoreInit(h) ==
  IF h.core > MaxInit
    THEN /\ hal' = [h EXCEPT !.job = "none", !.pc = "idle", !.todo = <<>>]
         /\ UNCHANGED nfcc
    ELSE /\ hal' = [h EXCEPT !.pc = "enable",
                      !.todo = <<"RESET", "INIT">> \o ConfSteps
                                 \o (IF h.recover THEN <<"LAST">> ELSE <<>>)]
         /\ ResetDevice

\* The client thread is in phNxpNciHal_read_complete, behind the packet.
Rearming == client \in {"taken", "rearm"}

\* An answer is on its way and will be read.
Answering ==
  \/ InQueue("read") \/ hal.sem > 0
  \/ (tml.rbusy \/ Rearming) /\ (nfcc.held # <<>> \/ nfcc.out # <<>>)

\* The stack's response timer expired: the HAL recovers the NFCC and sends the
\* command again (nfc_ncif_cmd_timeout, the response then comes as p_rx_data).
RecoverLast ==
  /\ Usable /\ up.due # 0 /\ (lim.late > 0 \/ ~Answering)
  /\ used.calls < lim.calls /\ used' = [used EXCEPT !.calls = @ + 1]
  /\ RetryCoreInit([hal EXCEPT !.job = "core", !.recover = TRUE])
  /\ UNCHANGED <<tml, q, client, up>>

\* phNxpNciHal_write.  The stack has one command out at a time.
Write ==
  /\ Usable /\ up.due = 0
  /\ used.calls < lim.calls
  /\ used' = [used EXCEPT !.calls = @ + 1, !.ids = @ + 1]
  /\ hal' = [hal EXCEPT !.job = "write", !.pc = "request", !.retry = 0, !.wdone = "no",
                        !.id = used.ids + 1, !.cmd = used.ids + 1]
  /\ up' = [up EXCEPT !.due = used.ids + 1]
  /\ UNCHANGED <<tml, q, client, nfcc>>

Close ==
  /\ Usable /\ ("overlap" \in lim.cases \/ up.due = 0)
  /\ hal' = [hal EXCEPT !.job = "close", !.todo = <<"DISC", "RESET">>, !.pc = "enable"]
  /\ UNCHANGED <<tml, q, client, nfcc, up, used>>

-------------------------------------------------------------------------------
(* phNxpNciHal_send_ext_cmd, by the steps another thread can come between.  *)

\* HAL_ENABLE_EXT, and the command is put in p_cmd_data.
EnableExt ==
  LET id == IF Head(hal.todo) = "LAST" THEN up.due ELSE used.ids + 1
  IN /\ hal.pc = "enable"
     /\ hal' = [hal EXCEPT !.pc = "init", !.ext = TRUE, !.id = id, !.cmd = id]
     /\ used' = IF id = up.due THEN used ELSE [used EXCEPT !.ids = id]
     /\ UNCHANGED <<tml, q, client, nfcc, up>>

\* phNxpNciHal_init_cb_data, and the local semaphore of the write.
InitCbData ==
  /\ hal.pc = "init"
  /\ hal' = [hal EXCEPT !.pc = "request", !.sem = 0, !.stat = "ok", !.got = 0,
                        !.retry = 0, !.wdone = "no"]
  /\ UNCHANGED <<tml, q, client, nfcc, up, used>>

\* The semaphore exists between init_cb_data and cleanup_cb_data.
SemExists == hal.ext /\ hal.pc \in {"request", "writing", "timer", "wait", "stop"}

\* The write came to nothing.
NotWritten(h) ==
  IF h.job = "write" THEN [h EXCEPT !.job = "none", !.pc = "idle"]
                     ELSE [h EXCEPT !.ret = "failed", !.pc = "disable"]

\* phTmlNfc_Write.
Request ==
  /\ hal.pc = "request"
  /\ IF ~tml.on \/ tml.wbusy
       THEN hal' = NotWritten(hal) /\ UNCHANGED tml
       ELSE /\ hal' = [hal EXCEPT !.pc = "writing"]
            /\ tml' = [tml EXCEPT !.wbusy = TRUE, !.wenable = TRUE, !.wsem = @ + 1]
  /\ UNCHANGED <<q, client, nfcc, up, used>>

Written ==
  /\ hal.pc = "writing" /\ hal.wdone = "ok"
  /\ hal' = IF hal.job = "write" THEN [hal EXCEPT !.job = "none", !.pc = "idle", !.wdone = "no"]
                                 ELSE [hal EXCEPT !.pc = "timer", !.wdone = "no"]
  /\ UNCHANGED <<tml, q, client, nfcc, up, used>>

WriteAgain ==
  /\ hal.pc = "writing" /\ hal.wdone = "failed" /\ hal.retry < MaxRetry
  /\ hal' = [hal EXCEPT !.pc = "request", !.wdone = "no", !.retry = @ + 1]
  /\ UNCHANGED <<tml, q, client, nfcc, up, used>>

\* The stack is told of a reset, in the buffer the reader fills.
WriteGivenUp ==
  /\ hal.pc = "writing" /\ hal.wdone = "failed" /\ hal.retry >= MaxRetry
  /\ ResetDevice
  /\ hal' = NotWritten([hal EXCEPT !.wdone = "no", !.retry = @ + 1])
  /\ IF hal.cb /\ hal.rx /\ hal.open
       THEN /\ tml' = [tml EXCEPT !.buf = Packet("reset_ntf", 0, 0)]
            /\ up' = Heard(up, tml'.buf)
       ELSE UNCHANGED <<tml, up>>
  /\ UNCHANGED <<q, client, used>>

\* Mutant: the wait for the response is not guarded.
StartTimerNot ==
  /\ hal.pc = "timer"
  /\ hal' = [hal EXCEPT !.pc = "wait"]
  /\ UNCHANGED <<tml, q, client, nfcc, up, used>>

StartTimer ==
  /\ hal.pc = "timer"
  /\ hal' = [hal EXCEPT !.pc = "wait", !.timer = "running"]
  /\ UNCHANGED <<tml, q, client, nfcc, up, used>>

\* SEM_WAIT returns; phOsalNfc_Timer_Stop succeeds for a timer that expired, too.
Wake ==
  /\ hal.pc = "wait" /\ hal.sem > 0
  /\ hal' = [hal EXCEPT !.pc = "stop", !.sem = @ - 1, !.timer = "stopped"]
  /\ UNCHANGED <<tml, q, client, nfcc, up, used>>

\* Mutant: a timeout passes for a response.
CheckStatusNot ==
  /\ hal.pc = "stop"
  /\ hal' = [hal EXCEPT !.pc = "disable", !.ret = "ok"]
  /\ UNCHANGED <<tml, q, client, nfcc, up, used>>

CheckStatus ==
  /\ hal.pc = "stop"
  /\ hal' = [hal EXCEPT !.pc = "disable", !.ret = hal.stat]
  /\ UNCHANGED <<tml, q, client, nfcc, up, used>>

\* HAL_DISABLE_EXT.
Disabled == [hal EXCEPT !.ext = FALSE]
Done == [Disabled EXCEPT !.job = "none", !.pc = "idle", !.todo = <<>>]

-------------------------------------------------------------------------------
(* What the call does with the result of a command.                         *)

\* phNxpNciHal_close ignores it.
NextStep ==
  /\ hal.pc = "disable" /\ Len(hal.todo) > 1
  /\ hal.ret = "ok" \/ hal.job = "close"
  /\ hal' = [Disabled EXCEPT !.pc = "enable", !.todo = Tail(@),
                             !.closing = @ \/ hal.job = "close"]
  /\ UNCHANGED <<tml, q, client, nfcc, up, used>>

LastStep(job) == hal.pc = "disable" /\ hal.job = job /\ Len(hal.todo) = 1

OpenDone ==
  /\ LastStep("open") /\ hal.ret = "ok"
  /\ hal' = [Done EXCEPT !.open = TRUE]
  /\ Post("open_cplt")
  /\ UNCHANGED <<tml, client, nfcc, up, used>>

\* A recovery hands up the packet read last, the response to the stack's command.
CoreDone ==
  /\ LastStep("core") /\ hal.ret = "ok"
  /\ hal' = [Done EXCEPT !.core = 0]
  /\ IF hal.recover
       THEN up' = Heard(up, tml.buf) /\ UNCHANGED q
       ELSE Post("post_init_cplt") /\ UNCHANGED up
  /\ UNCHANGED <<tml, client, nfcc, used>>

\* phNxpNciHal_power_cycle reports an open that is not complete.
OpenAgain ==
  /\ hal.pc = "disable" /\ hal.job = "open" /\ hal.ret = "failed"
  /\ ~(Head(hal.todo) = "RESET" /\ hal.retry >= MaxRetry)
  /\ hal.tries < MaxInit
  /\ hal' = [Disabled EXCEPT !.tries = @ + 1, !.pc = "enable", !.todo = <<"RESET", "INIT">>]
  /\ ResetDevice
  /\ Post("open_cplt")
  /\ UNCHANGED <<tml, client, up, used>>

\* force_download: the NFCC does not leave standby.  The download is external.
ForceDownload ==
  /\ hal.pc = "disable" /\ hal.job = "open" /\ hal.ret = "failed"
  /\ Head(hal.todo) = "RESET" /\ hal.retry >= MaxRetry
  /\ \E ok \in BOOLEAN : /\ hal' = [Done EXCEPT !.open = ok]
                         /\ Post(IF ok THEN "open_cplt" ELSE "error")
  /\ UNCHANGED <<tml, client, nfcc, up, used>>

Shutdown(t) == [t EXCEPT !.run = FALSE, !.rsem = @ + 1, !.wsem = @ + 1]

OpenFailed ==
  /\ hal.pc = "disable" /\ hal.job = "open" /\ hal.ret = "failed"
  /\ ~(Head(hal.todo) = "RESET" /\ hal.retry >= MaxRetry)
  /\ hal.tries >= MaxInit
  /\ hal' = [Disabled EXCEPT !.pc = "join", !.todo = <<>>]
  /\ tml' = Shutdown(tml)
  /\ UNCHANGED <<q, client, nfcc, up, used>>

CoreAgain ==
  /\ hal.pc = "disable" /\ hal.job = "core" /\ hal.ret = "failed"
  /\ RetryCoreInit([Disabled EXCEPT !.core = @ + 1])
  /\ UNCHANGED <<tml, q, client, up, used>>

\* phNxpNciHal_close_complete, ReadAbort, WriteAbort and Timer_Cleanup.
CloseDone ==
  /\ LastStep("close")
  /\ hal' = [Disabled EXCEPT !.pc = "shutdown", !.todo = <<>>, !.timer = "off"]
  /\ tml' = [tml EXCEPT !.renable = FALSE, !.rbusy = FALSE, !.wenable = FALSE, !.wbusy = FALSE]
  /\ Post("close_cplt")
  /\ UNCHANGED <<client, nfcc, up, used>>

CloseShutdown ==
  /\ hal.pc = "shutdown"
  /\ hal' = [hal EXCEPT !.pc = "join"]
  /\ tml' = Shutdown(tml)
  /\ UNCHANGED <<q, client, nfcc, up, used>>

\* Both threads have ended.  The sleeps of phTmlNfc_Shutdown and msgrelease are
\* taken to be long enough for the client thread to empty its queue and return from
\* phNxpNciHal_read_complete.
Join ==
  /\ hal.pc = "join" /\ tml.rd = "off" /\ tml.wr = "off"
  /\ (q = <<>> /\ ~Rearming) \/ client = "off"
  /\ tml' = TmlOff /\ q' = <<>>
  /\ hal' = [HalClosed EXCEPT !.core = hal.core]
  /\ up' = [up EXCEPT !.failed = @ \/ hal.job = "open"]
  /\ UNCHANGED <<client, nfcc, used>>

-------------------------------------------------------------------------------
(* The client thread.                                                       *)

Takes(m) == client = "on" /\ q # <<>> /\ Head(q) = m /\ q' = Tail(q)

\* phNxpNciHal_read_complete: to the HAL's semaphore, or up.
TakeRead ==
  LET p == tml.buf
      bad == p.k = "bad_rsp"
      toHal == hal.ext /\ HasBit40(p)
  IN /\ Takes("read")
     /\ nfcc' = [nfcc EXCEPT !.seen = p.n]
     /\ hal' = IF toHal /\ SemExists
                 THEN [hal EXCEPT !.rx = TRUE, !.sem = @ + 1, !.got = p.id,
                                  !.stat = IF bad THEN "failed" ELSE @]
                 ELSE [hal EXCEPT !.rx = TRUE]
     /\ up' = IF toHal \/ ~hal.cb \/ bad THEN up ELSE Heard(up, p)
     /\ tml' = [tml EXCEPT !.rbusy = FALSE]
     /\ client' = "taken"
     /\ UNCHANGED used

\* Then, unless the HAL is closing,
TestClosing ==
  /\ client = "taken"
  /\ client' = IF hal.closing THEN "on" ELSE "rearm"
  /\ UNCHANGED <<hal, tml, q, nfcc, up, used>>

\* the next read.
ReadAgain ==
  /\ client = "rearm"
  /\ client' = "on"
  /\ tml' = ReadInto(tml, "rx")
  /\ UNCHANGED <<hal, q, nfcc, up, used>>

\* No read is pending from here on.
TakeComError ==
  /\ Takes("com_error")
  /\ tml' = [tml EXCEPT !.rbusy = FALSE]
  /\ up' = [up EXCEPT !.error = @ \/ hal.cb]
  /\ UNCHANGED <<hal, client, nfcc, used>>

TakeWritten ==
  /\ Takes("written") \/ Takes("unwritten")
  /\ tml' = [tml EXCEPT !.wbusy = FALSE]
  /\ hal' = [hal EXCEPT !.wdone = IF Head(q) = "written" THEN "ok" ELSE "failed"]
  /\ UNCHANGED <<client, nfcc, up, used>>

\* hal_extns_write_rsp_timeout_cb: the status, a sleep, the semaphore.
TakeExpired ==
  /\ Takes("expired")
  /\ IF hal.timer = "off"
       THEN UNCHANGED <<hal, client>>
       ELSE hal' = [hal EXCEPT !.stat = "failed"] /\ client' = "posting"
  /\ UNCHANGED <<tml, nfcc, up, used>>

PostExpired ==
  /\ client = "posting"
  /\ client' = "on"
  /\ hal' = IF SemExists THEN [hal EXCEPT !.sem = @ + 1] ELSE hal
  /\ UNCHANGED <<tml, q, nfcc, up, used>>

TakeEvent ==
  /\ \/ Takes("open_cplt") /\ up' = [up EXCEPT !.opened = @ \/ hal.cb]
     \/ Takes("post_init_cplt") /\ up' = [up EXCEPT !.inited = @ \/ hal.cb]
     \/ Takes("error") /\ up' = [up EXCEPT !.error = @ \/ hal.cb]
  /\ UNCHANGED <<hal, tml, client, nfcc, used>>

\* phNxpNciHal_kill_client_thread.
TakeClosed ==
  /\ Takes("close_cplt")
  /\ up' = [up EXCEPT !.closed = TRUE]
  /\ hal' = [hal EXCEPT !.cb = FALSE]
  /\ client' = "off"
  /\ UNCHANGED <<tml, nfcc, used>>

\* phOsalNfc_Timer_Expired.  Unless answers come late, one that comes is read in time.
TimerExpires ==
  /\ hal.timer = "running"
  /\ IF Answering THEN used.late < lim.late /\ used' = [used EXCEPT !.late = @ + 1]
                  ELSE UNCHANGED used
  /\ hal' = [hal EXCEPT !.timer = "stopped"]
  /\ Post("expired")
  /\ UNCHANGED <<tml, client, nfcc, up>>

-------------------------------------------------------------------------------
(* The reader and the writer.                                               *)

\* sem_wait: a read that is enabled begins; otherwise the loop ends on shutdown.
ReaderWakes ==
  /\ tml.rd = "wait" /\ tml.rsem > 0
  /\ tml' = [tml EXCEPT !.rsem = @ - 1,
                        !.rd = IF tml.renable THEN "read" ELSE IF tml.run THEN @ ELSE "off"]
  /\ UNCHANGED <<hal, q, client, nfcc, up, used>>

Looping == IF tml.run THEN "wait" ELSE "off"

\* Mutant: the next read does not wait until the client has taken this one.
ReaderGetsOn ==
  /\ tml.rd = "read" /\ nfcc.out # <<>>
  /\ tml' = [tml EXCEPT !.errs = 0, !.rd = Looping, !.rsem = @ + 1, !.buf = Head(nfcc.out)]
  /\ hal' = IF tml.dst = "cmd" THEN [hal EXCEPT !.cmd = 0] ELSE hal
  /\ nfcc' = [nfcc EXCEPT !.out = Tail(@)]
  /\ Post("read")
  /\ UNCHANGED <<client, up, used>>

ReaderGets ==
  /\ tml.rd = "read" /\ nfcc.out # <<>>
  /\ tml' = [tml EXCEPT !.errs = 0, !.rd = Looping, !.renable = FALSE, !.buf = Head(nfcc.out)]
  /\ hal' = IF tml.dst = "cmd" THEN [hal EXCEPT !.cmd = 0] ELSE hal
  /\ nfcc' = [nfcc EXCEPT !.out = Tail(@)]
  /\ Post("read")
  /\ UNCHANGED <<client, up, used>>

\* Mutant: a read that failed is not taken up again.
ReaderErrorStops ==
  IF tml.errs < MaxReadErr
    THEN tml' = [tml EXCEPT !.errs = @ + 1, !.rd = Looping] /\ UNCHANGED q
    ELSE tml' = [tml EXCEPT !.errs = 0, !.renable = FALSE, !.rd = Looping] /\ Post("com_error")

\* A read that failed is taken up again, MaxReadErr times.
ReaderError ==
  IF tml.errs < MaxReadErr
    THEN tml' = [tml EXCEPT !.errs = @ + 1, !.rsem = @ + 1, !.rd = Looping] /\ UNCHANGED q
    ELSE tml' = [tml EXCEPT !.errs = 0, !.renable = FALSE, !.rd = Looping] /\ Post("com_error")

ReaderFails ==
  /\ tml.rd = "read"
  /\ used.err < lim.err /\ used' = [used EXCEPT !.err = @ + 1]
  /\ ReaderError
  /\ UNCHANGED <<hal, client, nfcc, up>>

\* A read that is under way at shutdown ends after two seconds.
ReaderTimesOut ==
  /\ tml.rd = "read" /\ ~tml.run /\ nfcc.out = <<>>
  /\ ReaderError
  /\ UNCHANGED <<hal, client, nfcc, up, used>>

\* The bytes are those p_cmd_data has now.
WriterWrites ==
  /\ tml.wr = "wait" /\ tml.wsem > 0 /\ tml.wenable
  /\ \/ /\ tml' = [tml EXCEPT !.wsem = @ - 1, !.wenable = FALSE, !.wr = "written"]
        /\ nfcc' = IF hal.cmd = 0 THEN nfcc ELSE [nfcc EXCEPT !.held = Append(@, hal.cmd)]
        /\ UNCHANGED used
     \/ /\ used.fail < lim.fail /\ used' = [used EXCEPT !.fail = @ + 1]
        /\ tml' = [tml EXCEPT !.wsem = @ - 1, !.wenable = FALSE, !.wr = "unwritten"]
        /\ UNCHANGED nfcc
  /\ UNCHANGED <<hal, q, client, up>>

WriterIdles ==
  /\ tml.wr = "wait" /\ tml.wsem > 0 /\ ~tml.wenable
  /\ tml' = [tml EXCEPT !.wsem = @ - 1, !.wr = Looping]
  /\ UNCHANGED <<hal, q, client, nfcc, up, used>>

WriterPosts ==
  /\ tml.wr \in {"written", "unwritten"}
  /\ Post(tml.wr)
  /\ tml' = [tml EXCEPT !.wr = Looping]
  /\ UNCHANGED <<hal, client, nfcc, up, used>>

-------------------------------------------------------------------------------
(* The NFCC.                                                                *)

Sends(n, k, id) ==
  [n EXCEPT !.out = Append(@, Packet(k, id, n.sent + 1)), !.sent = @ + 1]

\* Only the response to CORE_INIT is looked into.
Answer ==
  /\ nfcc.held # <<>>
  /\ LET id == Head(nfcc.held) IN
       \/ nfcc' = Sends([nfcc EXCEPT !.held = Tail(@)], "rsp", id) /\ UNCHANGED used
       \/ /\ used.mute < lim.mute /\ used' = [used EXCEPT !.mute = @ + 1]
          /\ nfcc' = [nfcc EXCEPT !.held = Tail(@)]
       \/ /\ used.mute < lim.mute /\ used' = [used EXCEPT !.mute = @ + 1]
          /\ id = hal.id /\ hal.todo # <<>> /\ Head(hal.todo) = "INIT"
          /\ nfcc' = Sends([nfcc EXCEPT !.held = Tail(@)], "bad_rsp", id)
  /\ UNCHANGED <<hal, tml, q, client, up>>

SendUnasked ==
  /\ tml.on /\ used.sends < lim.sends /\ used' = [used EXCEPT !.sends = @ + 1]
  /\ \E k \in {"ntf", "data"} \cap lim.cases : nfcc' = Sends(nfcc, k, 0)
  /\ UNCHANGED <<hal, tml, q, client, up>>

-------------------------------------------------------------------------------
ApiNext == Open \/ CoreInitialized \/ RecoverLast \/ Write \/ Close
CallNext ==
  \/ EnableExt \/ InitCbData \/ Request \/ Written \/ WriteAgain \/ WriteGivenUp
  \/ StartTimer \/ Wake \/ CheckStatus \/ NextStep \/ OpenDone \/ CoreDone
  \/ OpenAgain \/ ForceDownload \/ OpenFailed \/ CoreAgain
  \/ CloseDone \/ CloseShutdown \/ Join
ClientNext ==
  \/ TakeRead \/ TestClosing \/ ReadAgain \/ TakeComError \/ TakeWritten \/ TakeExpired \/ PostExpired
  \/ TakeEvent \/ TakeClosed
ReaderNext == ReaderWakes \/ ReaderGets \/ ReaderTimesOut
WriterNext == WriterWrites \/ WriterIdles \/ WriterPosts

Next == \/ ApiNext \/ CallNext \/ ClientNext \/ TimerExpires
        \/ ReaderNext \/ ReaderFails \/ WriterNext \/ Answer \/ SendUnasked
Spec == Init /\ [][Next]_vars

\* Every thread goes on, the timer expires, and the NFCC answers or forgets a
\* command.  Nothing is assumed of the stack.
FairSpec ==
  /\ Spec
  /\ WF_vars(CallNext) /\ WF_vars(ClientNext) /\ WF_vars(TimerExpires)
  /\ WF_vars(ReaderNext) /\ WF_vars(WriterNext) /\ WF_vars(Answer)

-------------------------------------------------------------------------------
(* Properties.                                                              *)

\* Every call of the stack returns: no wait for a write, a response or a thread
\* is for ever, whatever the NFCC leaves unanswered.
CallsEnd == hal.job # "none" ~> hal.job = "none"

\* Answers come in time, nothing comes unasked, and no command is out at close.
Undisturbed == lim.late = 0 /\ lim.cases \cap {"ntf", "overlap"} = {}

\* "Returns NFCSTATUS_SUCCESS if sending cmd is successful and response is
\* received" (phNxpNciHal_send_ext_cmd): the response to that command.
Answered == hal.pc = "disable" /\ hal.ret = "ok" => hal.got = hal.id

\* The HAL takes its own responses and only these: the stack gets those to its
\* commands, a recovery included, unless notifications or late answers disturb, or
\* the HAL put a reset notification of its own in the reader's buffer.
OwnAnswer == Undisturbed /\ up.resets = 0 => Answered /\ ~up.wrong

\* "read must be pending always": until the HAL is closed or the stack is told
\* that it cannot read, a packet of the NFCC will be read, but while the client thread
\* is on its way to the next read.
Listening ==
  tml.run /\ ~hal.closing /\ ~InQueue("com_error") /\ ~up.error /\ ~Rearming =>
    /\ tml.rbusy
    /\ IF tml.renable THEN tml.rsem > 0 \/ tml.rd = "read" ELSE InQueue("read")

\* The one buffer of the reader suffices: the client takes every packet, once and
\* in order, unless the HAL writes a reset notification of its own into it.
EachPacketOnce ==
  LET due == (IF InQueue("read") THEN <<tml.buf>> ELSE <<>>) \o nfcc.out
  IN up.resets = 0 /\ tml.on => \A i \in DOMAIN due : due[i].n = nfcc.seen + i
=============================================================================
