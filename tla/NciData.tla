------------------------------- MODULE NciData -------------------------------
(***************************************************************************)
(* The NCI data plane of NFC_TASK (nfc_ncif.c, nfc_main.c, nfc_utils.c):   *)
(* logical connections, packets cut into fragments and sent as the NFCC    *)
(* gives credits, fragments put together again for the connection's        *)
(* callback, and the deactivation of an NFC-DEP link, which waits for the  *)
(* credits of the packets still out or for a timer.                        *)
(*                                                                         *)
(* NFC_TASK handles one message, timer or call at a time, so each handler  *)
(* is one action.  The NFCC (external) returns credits, sends data,        *)
(* activates and loses the link when it likes; what it sends reaches the   *)
(* task in order (toHost), and the commands reach it in order (toNfcc).    *)
(* It may reset itself: nfc_ncif_cmd_timeout and the HAL bring it up again *)
(* within one message of the task, and RF's connection block stays as it   *)
(* is.  The build that does not fragment on I2C is modelled.               *)
(***************************************************************************)
EXTENDS Integers, Sequences, FiniteSets, SequencesExt, FiniteSetsExt

CONSTANTS
  RF,           \* NFC_RF_CONN_ID: the static RF connection
  Dyn,          \* connections created with NFC_ConnCreate
  Dh,           \* the one in the first block (nfcc_dh_conn_id)
  Credits,      \* buffers the NFCC offers on a connection (init_credits)
  NoFC,         \* NFC_CONN_NO_FC: the value that means no flow control
  SmallCap,     \* fragments that fit a buffer of the NCI pool
  MaxCap,       \* fragments that fit the biggest buffer of GKI
  Bounds        \* what a behaviour may do; each takes one of these records:
                \*   pkt, frag  packets given to NFC_SendData, and their fragments
                \*   data       data packets of the NFCC per connection and link
                \*   act        activations
                \*   ask        calls of NFC_Deactivate and NFC_ConnCreate
                \*   reset      resets of the NFCC
                \*   cases      "no_cmd_buf"  GKI may be out of command buffers
                \*              "no_big_buf"  GKI may be out of its biggest buffers
                \*              "cback"       the layer above changes RF's callback
                \*                            and asks for fragments
                \*              "ee"          connections to NFCEEs are created
                \*              "late"        credits may come after the next activation

Conn == {RF} \cup Dyn

ASSUME ConnAssumption == RF \notin Dyn /\ IsFiniteSet(Dyn) /\ Dh \in Dyn
ASSUME CreditAssumption == Credits \in Nat \ {0} /\ NoFC \in Nat /\ NoFC > Credits
ASSUME BufferAssumption == SmallCap \in Nat \ {0} /\ MaxCap \in Nat /\ SmallCap < MaxCap
ASSUME BoundAssumption ==
  Bounds \subseteq [pkt : Nat, frag : Nat, data : Nat, act : Nat, ask : Nat,
             reset : Nat,
             cases : SUBSET {"no_cmd_buf", "no_big_buf", "cback", "ee", "late"}]

VARIABLES
  nfc,          \* nfc_cb: state, flag, timer and reassembly
  conn,         \* nfc_cb.conn_cb
  nfcc,         \* the NFCC: RF mode, packets it holds, data it has sent
  toHost,       \* messages on their way to NFC_TASK
  toNfcc,       \* commands on their way to the NFCC
  seen,         \* history: what the NFCC and the callbacks have received
  used          \* how much of each bound is used, the bounds (lim), and the credits of an
                \* earlier link that the host has counted on this one (late)

vars == <<nfc, conn, nfcc, toHost, toNfcc, seen, used>>

lim == used.lim

-------------------------------------------------------------------------------
(* Data.  tx holds the queued packets as the fragments they will be cut     *)
(* into: buff_size does not change while packets are queued.  A received    *)
(* buffer in rx holds fragments from..to of its connection; "more" is the      *)
(* reassembly flag, "big" and "max" say which buffer it is.                 *)

Cut(p, n) == [i \in 1..n |-> [pkt |-> p, last |-> i = n]]

Size(b) == b.to - b.from + 1

\* A message from the NFCC; what a kind does not need is 0, RF or FALSE.
Msg(k, c, n, f) == [kind |-> k, c |-> c, n |-> n, flag |-> f]

Free == [id |-> "illegal", init |-> 0, num |-> 0, tx |-> <<>>, rx |-> <<>>, cb |-> FALSE,
         dep |-> FALSE]

\* nfc_enabled: the RF connection gets its id; it has no credits until activated.
Init ==
  /\ nfc = [st |-> "IDLE", deactivating |-> FALSE, timer |-> FALSE, param |-> 0,
            reassembly |-> TRUE, link |-> 0, bump |-> FALSE]
  /\ conn = [c \in Conn |-> IF c = RF THEN [Free EXCEPT !.id = "open"] ELSE Free]
  /\ nfcc = [mode |-> "idle", held |-> [c \in Conn |-> 0], sent |-> [c \in Conn |-> 0],
             ends |-> [c \in Conn |-> {}], open |-> {}, late |-> 0]
  /\ toHost = <<>>
  /\ toNfcc = <<>>
  /\ seen = [part |-> [c \in Conn |-> 0], torn |-> FALSE,
             up |-> [c \in Conn |-> 0], garbled |-> FALSE, flushed |-> {}]
  /\ \E b \in Bounds :
       used = [pkt |-> 0, act |-> 0, ask |-> 0, reset |-> 0, late |-> 0, lim |-> b]

-------------------------------------------------------------------------------
(* Sending.  nfc_ncif_send_data takes fragments from the head of tx while    *)
(* there are credits; HAL_WRITE hands each to the NFCC.  A fragment that is  *)
(* not its packet's last needs a command buffer, and without one the loop    *)
(* ends with BUFFER_FULL, the packet still queued.                           *)

\* The packets the NFCC sees on c are whole and in order: part is the packet it has
\* only a part of, and every fragment behind a part continues it.
Torn(part, frags) ==
  \/ part # 0 /\ frags # <<>> /\ frags[1].pkt # part
  \/ \E i \in 1..(Len(frags) - 1) :
       ~frags[i].last /\ frags[i + 1].pkt # frags[i].pkt

PartAfter(part, frags) ==
  IF frags = <<>> THEN part ELSE IF Last(frags).last THEN 0 ELSE Last(frags).pkt

Sendable(cb) == IF cb.num >= Len(cb.tx) THEN Len(cb.tx) ELSE cb.num

\* How many fragments one call may send: all that there are credits for, or, when GKI
\* is out of command buffers, those before a fragment that is not the last.
SendCounts(cb) ==
  {Sendable(cb)} \cup
  IF "no_cmd_buf" \in lim.cases
  THEN {k \in 0..(Sendable(cb) - 1) : ~cb.tx[k + 1].last}
  ELSE {}

\* The connection block and the NFCC after k fragments of cb.tx went out on c.
AfterSend(cb, k) ==
  [cb EXCEPT !.tx = SubSeq(cb.tx, k + 1, Len(cb.tx)),
             !.num = IF cb.num = NoFC THEN NoFC ELSE cb.num - k]

\* core_reset_init_num_buff: the first call of nfc_ncif_send_data after a reset takes one
\* more credit for its connection, whatever that has; NoFC is the biggest UINT8.
Recounted(cb) ==
  IF nfc.bump THEN [cb EXCEPT !.num = IF @ = NoFC THEN 0 ELSE @ + 1] ELSE cb
NfcRecounted == [nfc EXCEPT !.bump = FALSE]

Transmit(c, cb, k) ==
  LET out == SubSeq(cb.tx, 1, k) IN
  /\ conn' = [conn EXCEPT ![c] = AfterSend(cb, k)]
  /\ nfcc' = [nfcc EXCEPT !.held[c] = IF cb.num = NoFC THEN @ ELSE @ + k]
  /\ seen' = [seen EXCEPT !.torn = @ \/ (c \notin seen.flushed /\ Torn(seen.part[c], out)),
                          !.part[c] = PartAfter(@, out)]

\* NFC_SendData: refused unless the connection is there and, on RF, the link is open.
NFC_SendDataAhead(c, n) ==
  /\ used.pkt < lim.pkt
  /\ conn[c].id = "open"
  /\ c = RF => nfc.st = "OPEN"
  /\ used' = [used EXCEPT !.pkt = @ + 1]
  /\ LET cb == [Recounted(conn[c]) EXCEPT !.tx = Cut(used.pkt + 1, n) \o @]
     IN  \E k \in SendCounts(cb) : Transmit(c, cb, k)
  /\ nfc' = NfcRecounted
  /\ UNCHANGED <<toHost, toNfcc>>
NFC_SendData(c, n) ==
  /\ used.pkt < lim.pkt
  /\ conn[c].id = "open"
  /\ c = RF => nfc.st = "OPEN"
  /\ used' = [used EXCEPT !.pkt = @ + 1]
  /\ LET cb == [Recounted(conn[c]) EXCEPT !.tx = @ \o Cut(used.pkt + 1, n)]
     IN  \E k \in SendCounts(cb) : Transmit(c, cb, k)
  /\ nfc' = NfcRecounted
  /\ UNCHANGED <<toHost, toNfcc>>

\* NFC_FlushData: LLCP empties the queue before its DISC PDU; what the NFCC has of a
\* packet that is cut stays there.
NFC_FlushData(c) ==
  /\ conn[c].id = "open" /\ conn[c].tx # <<>>
  /\ conn' = [conn EXCEPT ![c].tx = <<>>]
  /\ seen' = [seen EXCEPT !.flushed = @ \cup {c}]
  /\ UNCHANGED <<nfc, nfcc, toHost, toNfcc, used>>

-------------------------------------------------------------------------------
(* Deactivation.                                                             *)

\* nci_snd_deactivate_cmd; a command remembers the link it was asked for.
DeactivateCmd(link) == [kind |-> "deactivate", c |-> RF, link |-> link]
Command(k, c) == [kind |-> k, c |-> c, link |-> 0]

\* NFC_Deactivate: an open NFC-DEP link with packets out waits for their credits.  The
\* device manager asks once, until an answer or a notification comes (link: which
\* activation it means; the parameter of the timer stands for the request).
NFC_Deactivate ==
  /\ used.ask < lim.ask
  /\ nfc.st \in {"IDLE", "OPEN"}
  /\ used' = [used EXCEPT !.ask = @ + 1]
  /\ LET waits == nfc.st = "OPEN" /\ conn[RF].dep /\ conn[RF].init # conn[RF].num IN
     /\ nfc' = [nfc EXCEPT !.st = IF @ = "OPEN" THEN "CLOSING" ELSE @,
                           !.deactivating = @ \/ waits,
                           !.timer = @ \/ waits,
                           !.param = IF waits THEN nfc.link ELSE @,
                           !.reassembly = IF waits THEN @ ELSE TRUE]
     /\ toNfcc' = IF waits THEN toNfcc ELSE Append(toNfcc, DeactivateCmd(nfc.link))
  /\ UNCHANGED <<conn, nfcc, toHost, seen>>

\* nfc_wait_2_deactivate_timeout.
WaitToDeactivateTimeoutSilent ==
  /\ nfc.timer
  /\ nfc' = [nfc EXCEPT !.timer = FALSE, !.deactivating = FALSE]
  /\ UNCHANGED <<conn, nfcc, toHost, toNfcc, seen, used>>
WaitToDeactivateTimeout ==
  /\ nfc.timer
  /\ nfc' = [nfc EXCEPT !.timer = FALSE, !.deactivating = FALSE, !.reassembly = TRUE]
  /\ toNfcc' = Append(toNfcc, DeactivateCmd(nfc.param))
  /\ UNCHANGED <<conn, nfcc, toHost, seen, used>>

\* nfc_ncif_proc_deactivate, on the response and on the notification: RF's queues are
\* emptied and its callback told.  The wait for credits is left as it is.
ProcDeactivate(m) ==
  /\ m.kind = "deactivated"
  /\ nfc' = [nfc EXCEPT !.st = "IDLE"]
  /\ conn' = [conn EXCEPT ![RF].rx = <<>>, ![RF].tx = <<>>]
  /\ UNCHANGED <<nfcc, toNfcc, seen, used>>

\* nfc_ncif_proc_activate: the notification brings the credits of the new link.
ProcActivate(m) ==
  /\ m.kind = "activated"
  /\ nfc' = [nfc EXCEPT !.st = "OPEN", !.link = @ + 1]
  /\ conn' = [conn EXCEPT ![RF].num = m.n, ![RF].init = m.n, ![RF].dep = m.flag]
  /\ used' = [used EXCEPT !.late = 0]
  /\ UNCHANGED <<nfcc, toNfcc, seen>>

\* What a deactivation waits for.
AllCreditsBackAnyCredit(cb) == nfc.st = "CLOSING" /\ nfc.deactivating
AllCreditsBack(cb) == nfc.st = "CLOSING" /\ nfc.deactivating /\ cb.init = cb.num

\* Credits are added, but never past the initial number (with BT_USE_TRACES).
ToppedUpUnclamped(cb, n) == [cb EXCEPT !.num = @ + n]
ToppedUp(cb, n) == [cb EXCEPT !.num = Min({@ + n, cb.init})]

\* nfc_ncif_proc_credits for one connection: the credits are added, and then
\* nfc_ncif_send_data (p_cb, NULL): on RF, unless the link is open, it only looks whether
\* a waiting deactivation has all its credits.  It cannot tell a late credit.
ProcCredits(m) ==
  /\ m.kind \in {"credits", "late"}
  /\ used' = [used EXCEPT !.late = IF m.kind = "late" THEN @ + 1 ELSE @]
  /\ LET c == m.c
         cb == Recounted(ToppedUp(conn[c], m.n))
     IN
     \/ /\ conn[c].id # "open" \/ conn[c].num = NoFC
        /\ UNCHANGED <<nfc, conn, nfcc, toNfcc, seen>>
     \/ /\ conn[c].id = "open" /\ conn[c].num # NoFC
        /\ c = RF /\ nfc.st # "OPEN"
        /\ conn' = [conn EXCEPT ![c] = cb]
        /\ IF AllCreditsBack(cb)
           THEN /\ nfc' = [NfcRecounted EXCEPT !.deactivating = FALSE, !.timer = FALSE,
                                               !.reassembly = TRUE]
                /\ toNfcc' = Append(toNfcc, DeactivateCmd(nfc.param))
           ELSE nfc' = NfcRecounted /\ UNCHANGED toNfcc
        /\ UNCHANGED <<nfcc, seen>>
     \/ /\ conn[c].id = "open" /\ conn[c].num # NoFC
        /\ c = RF => nfc.st = "OPEN"
        /\ \E k \in SendCounts(cb) : Transmit(c, cb, k)
        /\ nfc' = NfcRecounted
        /\ UNCHANGED toNfcc

\* What a reset leaves of the NFCC.
Emptied == [nfcc EXCEPT !.mode = "idle", !.held = [c \in Conn |-> 0], !.late = 0, !.open = {}]

-------------------------------------------------------------------------------
(* Receiving.                                                                *)

\* nfc_data_event waits for more of a fragmented buffer, unless it is full or (on RF)
\* the layer above asked for fragments.
MustWait(c, b, reassembly) == b.more /\ ~b.big /\ (c # RF \/ reassembly)

\* How many buffers of rx nfc_data_event hands up: a whole packet switches reassembly
\* on for the buffers behind it.
Reported(c, rx, reassembly) ==
  CHOOSE k \in 0..Len(rx) :
    /\ \A i \in 1..k : ~MustWait(c, rx[i],
                          reassembly \/ \E j \in 1..(i - 1) : ~rx[j].more)
    /\ k < Len(rx) => MustWait(c, rx[k + 1],
                               reassembly \/ \E j \in 1..k : ~rx[j].more)

\* A buffer is reported right when it continues what was reported before, its status
\* says OK exactly at the end of a packet, and it holds no end before that.
Right(c, b, before) ==
  /\ b.from = before + 1
  /\ b.more <=> b.to \notin nfcc.ends[c]
  /\ \A i \in b.from..(b.to - 1) : i \notin nfcc.ends[c]

\* nfc_data_event (when = TRUE): the callback, if there is one, gets what rx holds ready.
\* tail is what the handler queues behind it afterwards.
DataEvent(c, cb, reassembly, tail) ==
  LET k == IF cb.cb THEN Reported(c, cb.rx, reassembly) ELSE 0
      done == SubSeq(cb.rx, 1, k)
      \* NFC_RAS_TOO_BIG does not make a buffer whole: its status is CONTINUE
      whole == \E i \in 1..k : ~done[i].more
  IN
  /\ conn' = [conn EXCEPT ![c] = [cb EXCEPT !.rx = SubSeq(cb.rx, k + 1, Len(cb.rx)) \o tail]]
  /\ nfc' = [nfc EXCEPT !.reassembly = reassembly \/ whole]
  /\ seen' = [seen EXCEPT
       !.up[c] = IF k = 0 THEN @ ELSE done[k].to,
       !.garbled = @ \/ \E i \in 1..k :
                          ~Right(c, done[i], IF i = 1 THEN seen.up[c] ELSE done[i - 1].to)]

\* A buffer with the next packet appended, and its flag taken over.
JoinedKeepsFlag(b, m) == [b EXCEPT !.to = m.n]
Joined(b, m) == [b EXCEPT !.to = m.n, !.more = m.flag]

\* nfc_ncif_proc_data: a packet behind an unfinished one is appended to its buffer, if
\* need be after a copy to the biggest buffer; when that does not hold it either, what
\* is there goes up as it is and the packet starts a buffer of its own.
ProcData(m) ==
  /\ m.kind = "data"
  /\ LET c == m.c
         cb == conn[c]
         reassembly == nfc.reassembly \/ m.flag
         new == [from |-> m.n, to |-> m.n, more |-> m.flag, big |-> FALSE, max |-> FALSE]
         last == Last(cb.rx)
         unfinished == IF cb.rx = <<>> THEN FALSE ELSE last.more
         fits(b) == Size(b) < IF b.max THEN MaxCap ELSE SmallCap
         SetLast(b) == [cb EXCEPT !.rx = Append(Front(cb.rx), b)]
     IN
     \/ /\ cb.id # "open"
        /\ UNCHANGED <<conn, nfc, seen>>
     \/ /\ cb.id = "open"
        /\ ~unfinished
        /\ DataEvent(c, [cb EXCEPT !.rx = Append(@, new)], reassembly, <<>>)
     \/ /\ cb.id = "open" /\ unfinished
        /\ \/ /\ fits(last) /\ ~last.big
              /\ DataEvent(c, SetLast(Joined(last, m)), reassembly, <<>>)
           \/ /\ ~fits(last) /\ ~last.max
              /\ DataEvent(c, SetLast(Joined([last EXCEPT !.max = TRUE], m)), reassembly, <<>>)
           \/ /\ ~fits(last) \/ last.big
              /\ last.max \/ last.big \/ "no_big_buf" \in lim.cases
              /\ DataEvent(c, SetLast([last EXCEPT !.big = TRUE]), reassembly, <<new>>)
  /\ UNCHANGED <<nfcc, toNfcc, used>>

\* NFC_SetStaticRfCback: the layer above takes or leaves the RF connection; what arrived
\* meanwhile is reported to the new callback.
NFC_SetStaticRfCback(set) ==
  /\ conn[RF].cb # set
  /\ DataEvent(RF, [conn[RF] EXCEPT !.cb = set], nfc.reassembly, <<>>)
  /\ UNCHANGED <<nfcc, toHost, toNfcc, used>>

\* NFC_SetReassemblyFlag: set for raw frames while the link is open, cleared after them.
NFC_SetReassemblyFlag(reassembly) ==
  /\ nfc.st = "OPEN" /\ nfc.reassembly # reassembly
  /\ nfc' = [nfc EXCEPT !.reassembly = reassembly]
  /\ UNCHANGED <<conn, nfcc, toHost, toNfcc, seen, used>>

-------------------------------------------------------------------------------
(* Logical connections.                                                      *)

\* NFC_ConnCreate: one connection at a time is pending.
NFC_ConnCreate(c) ==
  /\ used.ask < lim.ask /\ "ee" \in lim.cases
  /\ conn[c].id = "illegal" /\ \A d \in Dyn : conn[d].id # "pending"
  /\ used' = [used EXCEPT !.ask = @ + 1]
  /\ conn' = [conn EXCEPT ![c] = [Free EXCEPT !.id = "pending", !.cb = TRUE]]
  /\ toNfcc' = Append(toNfcc, Command("create", c))
  /\ UNCHANGED <<nfc, nfcc, toHost, seen>>

\* NFC_ConnClose sends the command; the block stays until the response.
NFC_ConnClose(c) ==
  /\ conn[c].id = "open" /\ Command("close", c) \notin ToSet(toNfcc)
  /\ \A i \in DOMAIN toHost : toHost[i].kind # "closed"
  /\ toNfcc' = Append(toNfcc, Command("close", c))
  /\ UNCHANGED <<nfc, conn, nfcc, toHost, seen, used>>

\* nfc_ncif_proc_conn_create_rsp: m.flag is the status.
ProcConnCreateRsp(m) ==
  /\ m.kind = "created"
  /\ conn' = [conn EXCEPT ![m.c] =
       IF m.flag THEN [@ EXCEPT !.id = "open", !.num = m.n, !.init = m.n] ELSE Free]
  /\ UNCHANGED <<nfc, nfcc, toNfcc, seen, used>>

\* nfc_ncif_report_conn_close_evt, nfc_free_conn_cb: queued packets are dropped.
ReportConnCloseEvt(m) ==
  /\ m.kind = "closed"
  /\ conn' = [conn EXCEPT ![m.c] = Free]
  /\ UNCHANGED <<nfc, nfcc, toNfcc, seen, used>>

\* nfc_ncif_proc_reset_rsp for a notification, with nfc_ncif_cmd_timeout: what is queued
\* on the first dynamic connection is dropped, and the HAL resets the NFCC once more and
\* creates that connection again.  RF's block, nfc_state and the rx queues stay.
ProcReset(m) ==
  /\ m.kind = "reset"
  /\ nfc' = [nfc EXCEPT !.bump = TRUE]
  /\ conn' = [conn EXCEPT ![Dh].tx = <<>>]
  /\ nfcc' = [Emptied EXCEPT !.open = {Dh}]
  /\ seen' = [seen EXCEPT !.part = [c \in Conn |-> 0], !.flushed = @ \cup {Dh}]
  /\ UNCHANGED <<toNfcc, used>>

\* NFC_TASK takes the next message from its mailbox.
Handle ==
  /\ toHost # <<>>
  /\ toHost' = Tail(toHost)
  /\ LET m == Head(toHost) IN
     \/ ProcDeactivate(m) \/ ProcActivate(m) \/ ProcCredits(m) \/ ProcData(m)
     \/ ProcConnCreateRsp(m) \/ ReportConnCloseEvt(m) \/ ProcReset(m)

-------------------------------------------------------------------------------
(* The NFCC, as src/ uses it.                                                *)

ToHost(m) == toHost' = Append(toHost, m)
Owed(k) == \E i \in DOMAIN toHost : toHost[i].kind = k

\* It is done with one of the packets it holds.  After its notification of a reset it
\* says nothing until the host has brought it up again.
ReturnCredit(c) ==
  /\ nfcc.held[c] > 0 /\ ~Owed("reset")
  /\ nfcc' = [nfcc EXCEPT !.held[c] = @ - 1]
  /\ ToHost(Msg("credits", c, 1, FALSE))
  /\ UNCHANGED <<nfc, conn, toNfcc, seen, used>>

\* It has data for the host on a connection that is open; flag says more fragments follow.
SendToHost(c, more) ==
  /\ nfcc.sent[c] < lim.data /\ ~Owed("reset")
  /\ IF c = RF THEN nfcc.mode = "active" ELSE c \in nfcc.open
  /\ nfcc' = [nfcc EXCEPT !.sent[c] = @ + 1,
                          !.ends[c] = IF more THEN @ ELSE @ \cup {nfcc.sent[c] + 1}]
  /\ ToHost(Msg("data", c, nfcc.sent[c] + 1, more))
  /\ UNCHANGED <<nfc, conn, toNfcc, seen, used>>

\* A credit of the last link, for a packet it held when the next one came up.
ReturnLate ==
  /\ nfcc.late > 0 /\ ~Owed("reset")
  /\ nfcc' = [nfcc EXCEPT !.late = @ - 1]
  /\ ToHost(Msg("late", RF, 1, FALSE))
  /\ UNCHANGED <<nfc, conn, toNfcc, seen, used>>

\* A link comes up, NFC-DEP or not: the packets of the last one are dropped, and some of
\* their credits may still come.  The host has taken all deactivations by then: polling
\* for a new target takes far longer than the mailbox.
Activate(dep) ==
  /\ used.act < lim.act
  /\ nfcc.mode # "active" /\ ~Owed("deactivated") /\ ~Owed("reset")
  /\ used' = [used EXCEPT !.act = @ + 1]
  /\ \E late \in 0..(IF "late" \in lim.cases THEN nfcc.late + nfcc.held[RF] ELSE 0) :
       nfcc' = [nfcc EXCEPT !.mode = "active", !.held[RF] = 0, !.sent[RF] = 0,
                            !.ends[RF] = {}, !.late = late]
  /\ seen' = [seen EXCEPT !.part[RF] = 0, !.up[RF] = 0, !.flushed = @ \ {RF}]
  /\ ToHost(Msg("activated", RF, Credits, dep))
  /\ UNCHANGED <<nfc, conn, toNfcc>>

\* It resets itself while its first dynamic connection is open: all it held and every
\* connection is gone.
NfccReset ==
  /\ used.reset < lim.reset /\ ~Owed("reset")
  /\ conn[Dh].id = "open" /\ ~Owed("closed")
  /\ used' = [used EXCEPT !.reset = @ + 1]
  /\ nfcc' = Emptied
  /\ ToHost(Msg("reset", RF, 0, FALSE))
  /\ UNCHANGED <<nfc, conn, toNfcc, seen>>

\* The remote device goes away.
LinkLost ==
  /\ nfcc.mode = "active" /\ ~Owed("reset")
  /\ nfcc' = [nfcc EXCEPT !.mode = "idle"]
  /\ ToHost(Msg("deactivated", RF, 0, TRUE))
  /\ UNCHANGED <<nfc, conn, toNfcc, seen, used>>

\* It answers the next command; an active link also gets its notification.
Answer ==
  /\ toNfcc # <<>> /\ ~Owed("reset")
  /\ toNfcc' = Tail(toNfcc)
  /\ LET m == Head(toNfcc)
         rsp == Msg("deactivated", RF, 0, FALSE)
     IN
     \/ /\ m.kind = "deactivate"
        /\ nfcc' = [nfcc EXCEPT !.mode = "idle"]
        /\ toHost' = toHost \o IF nfcc.mode = "active"
                               THEN <<rsp, Msg("deactivated", RF, 0, TRUE)>> ELSE <<rsp>>
        /\ UNCHANGED seen
     \/ /\ m.kind = "create"
        /\ \/ /\ nfcc' = [nfcc EXCEPT !.open = @ \cup {m.c}, !.held[m.c] = 0,
                                      !.sent[m.c] = 0, !.ends[m.c] = {}]
              /\ \E n \in {Credits, NoFC} : ToHost(Msg("created", m.c, n, TRUE))
           \/ ToHost(Msg("created", m.c, 0, FALSE)) /\ UNCHANGED nfcc
        /\ seen' = [seen EXCEPT !.part[m.c] = 0, !.up[m.c] = 0, !.flushed = @ \ {m.c}]
     \/ /\ m.kind = "close"
        /\ nfcc' = [nfcc EXCEPT !.open = @ \ {m.c}]
        /\ ToHost(Msg("closed", m.c, 0, FALSE))
        /\ UNCHANGED seen
  /\ UNCHANGED <<nfc, conn, used>>

NfccNext ==
  \/ \E c \in Conn : ReturnCredit(c) \/ \E more \in BOOLEAN : SendToHost(c, more)
  \/ \E dep \in BOOLEAN : Activate(dep)
  \/ ReturnLate
  \/ LinkLost
  \/ Answer
  \/ NfccReset

ApiNext ==
  \/ \E c \in Conn : (\E n \in 1..lim.frag : NFC_SendData(c, n)) \/ NFC_FlushData(c)
  \/ \E set \in BOOLEAN :
       "cback" \in lim.cases /\ (NFC_SetStaticRfCback(set) \/ NFC_SetReassemblyFlag(set))
  \/ \E c \in Dyn : NFC_ConnCreate(c) \/ NFC_ConnClose(c)
  \/ NFC_Deactivate

Next == ApiNext \/ Handle \/ WaitToDeactivateTimeout \/ NfccNext

Spec == Init /\ [][Next]_vars

\* NFC_TASK keeps reading its mailbox and the timer runs out; the NFCC answers commands
\* and returns the credit of every packet it holds.
Fairness ==
  /\ WF_vars(Handle)
  /\ WF_vars(WaitToDeactivateTimeout)
  /\ WF_vars(Answer)
  /\ \A c \in Conn : WF_vars(ReturnCredit(c))

FairSpec == Spec /\ Fairness

-------------------------------------------------------------------------------
(* Properties.                                                               *)

\* Credits in messages that NFC_TASK has not handled yet; those of an earlier link apart.
CreditsDue(c) ==
  Cardinality({i \in DOMAIN toHost : toHost[i].kind = "credits" /\ toHost[i].c = c})

LateOn(c) == IF c = RF THEN used.late ELSE 0

\* What the host may still send, what the NFCC holds and what is on its way back add up to
\* the NFCC's buffers, whatever activations replace.  A late credit of an earlier link
\* makes up at most one more until the clamp takes it back, and loses none; a reset of
\* the NFCC gives the host at most one credit too many (nfc_ncif.c:929, :1407, :319).
CreditLedger ==
  \A c \in Conn :
    (conn[c].id = "open" /\ conn[c].init # NoFC /\ (c = RF => ~Owed("activated")))
      => /\ conn[c].num <= conn[c].init + used.reset
         /\ used.reset = 0 =>
              conn[c].num + nfcc.held[c] + CreditsDue(c)
                \in conn[c].init..(conn[c].init + LateOn(c))

\* The NFCC gets packets whole and one after the other on every connection, however the
\* fragments are held up by credits or missing buffers; only NFC_FlushData, the end of
\* the link and a closed connection cut one (nfc_ncif.c:369).  A reset of the NFCC leaves
\* the rest of a packet in RF's tx (nfc_ncif.c:251).
PacketsWhole == used.reset = 0 => ~seen.torn

\* What the callback gets of a connection is what the NFCC sent on it: no fragment is
\* lost, repeated or out of order, two packets are never joined, and the status is OK at
\* the end of a packet only (nfc_ncif.c:2058, :1961).  A reset of the NFCC leaves a part
\* of a packet in rx (nfc_ncif.c:251).
ReceivedRight == used.reset = 0 => ~seen.garbled

\* The command that ends an open NFC-DEP link goes out only when the host has counted all
\* its credits back or the wait for them has run out; the NFCC then has no packet left,
\* so that the DISC PDU of LLCP gets to the peer first (nfc_main.c:1306).  A credit of an
\* earlier link, or a reset, can stand for the last one.
DeactivateWaits ==
  [][(/\ nfc.st \in {"OPEN", "CLOSING"} /\ conn[RF].dep
      /\ Len(toNfcc') > Len(toNfcc) /\ Last(toNfcc').kind = "deactivate")
     => \/ nfc.timer /\ nfcc.held = nfcc.held' /\ toHost = toHost'
        \/ /\ conn'[RF].num = conn'[RF].init
           /\ (used'.late = 0 /\ used.reset = 0) => nfcc.held[RF] = 0]_vars

\* Queued data goes out as the NFCC gives credits back, unless the queue is emptied: no
\* packet waits for a credit that has come already (nfc_ncif.c:937).  When GKI has no
\* command buffer and no packet is out, nothing makes the loop try again.
DataDrains ==
  \A c \in Conn :
    (conn[c].tx # <<>> /\ "no_cmd_buf" \notin lim.cases /\ lim.reset = 0)
      ~> (conn[c].tx = <<>>)

\* A link that is being closed gets closed, whether the credits come back, the timer runs
\* out or the peer goes first (nfc_ncif.c:285).
ClosingEnds == (nfc.st = "CLOSING") ~> (nfc.st # "CLOSING")

\* Both: nothing waits for credits for ever.
WaitsEnd == DataDrains /\ ClosingEnds
=============================================================================
