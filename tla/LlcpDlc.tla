-------------------------------- MODULE LlcpDlc --------------------------------
(***************************************************************************)
(* One data link connection of libnfc-nci's LLCP between two devices that  *)
(* both run this code (llcp_dlc.c, with the parts of llcp_link.c,          *)
(* llcp_util.c and llcp_api.c it calls): connecting, numbered I PDUs with  *)
(* a receive window, RR and RNR, congestion, and disconnecting.            *)
(*                                                                         *)
(* LLCP is symmetric and half duplex: the device whose turn it is sends    *)
(* one frame, an AGF of several PDUs, one PDU or a SYMM, and then waits    *)
(* for the other's.  The NFC-DEP link below loses and reorders nothing.    *)
(* The application of a device may call between any two steps, also out of *)
(* the callbacks made for the PDUs of one frame.                           *)
(***************************************************************************)
EXTENDS Integers, Sequences

CONSTANTS
  SeqMod,       \* LLCP_SEQ_MODULO
  Rw,           \* Rw[s]: the receive window station s announces (local_rw)
  MinRxCongest, \* LLCP_DL_MIN_RX_CONGEST
  NumRxBuff,    \* num_rx_buff
  Clients,      \* the stations that connect
  Patient,      \* the stations with symm_delay > 0
  Bounds        \* what a behaviour may do; each takes one of these records:
                \*   conn    connection requests
                \*   sdu     sdu[s]: the SDUs the application of s sends
                \*   busy    times an application becomes busy
                \*   faults  timeouts and deactivations
                \*   cases   "flush"      disconnecting with flush TRUE
                \*           "timeout"    the data link timer may expire
                \*           "loss"       the link may be deactivated
                \*           "busy"       the application sets local busy
                \*           "busy_read"  it reads, or flushes, while it is busy
                \*           "callback"   it connects out of a callback, amid the
                \*                        PDUs of a frame

Station == {"initiator", "target"}
Peer(s) == IF s = "initiator" THEN "target" ELSE "initiator"

ASSUME SeqModAssumption == SeqMod \in Nat \ {0}
ASSUME RwAssumption == Rw \in [Station -> 0..SeqMod - 1]
ASSUME CongestAssumption == MinRxCongest \in Nat \ {0} /\ NumRxBuff \in Nat
ASSUME StationAssumption == Clients \subseteq Station /\ Patient \subseteq Station

Budget == [conn : Nat, sdu : [Station -> Nat], busy : Nat, faults : Nat,
           cases : SUBSET {"flush", "timeout", "loss", "busy", "busy_read", "callback"}]
ASSUME BoundAssumption == Bounds \subseteq Budget

-------------------------------------------------------------------------------
(* Data.  An SDU is its number among those its sender's application sent.    *)

Seqno == 0..SeqMod - 1
Reason == {"RESP_DISC", "NO_ACTIVE_CONNECTION", "TEMP_REJECT_THIS"}

PDU == [type : {"CONNECT", "CC", "DISC", "FRMR"}]
         \cup [type : {"DM"}, reason : Reason]
         \cup [type : {"RR", "RNR"}, nr : Seqno]
         \cup [type : {"I"}, ns : Seqno, nr : Seqno, sdu : Nat]

Signal(t) == [type |-> t]
Dm(r) == [type |-> "DM", reason |-> r]

State == {"IDLE", "W4_REMOTE_RESP", "W4_LOCAL_RESP", "CONNECTED", "W4_REMOTE_DM"}
Flag == {"PENDING_DISC", "PENDING_RR_RNR", "NOTIFY_TX_DONE"}

\* The control block, the signalling queue of the link it shares, and what the
\* application knows.  The timer runs in the three W4 states and no other.
Dlcb == [state : State,
         next_tx_seq : Seqno,         \* V(S)
         rcvd_ack_seq : Seqno,        \* V(SA)
         next_rx_seq : Seqno,         \* V(R)
         sent_ack_seq : Seqno,        \* V(RA)
         i_xmit_q : Seq(Nat),
         i_rx_q : Seq(Nat),           \* num_rx_i_pdu is its length
         flags : SUBSET Flag,
         local_busy : BOOLEAN,
         remote_busy : BOOLEAN,
         is_tx_congested : BOOLEAN,
         is_rx_congested : BOOLEAN,
         sig_xmit_q : Seq(PDU),       \* lcb.sig_xmit_q
         told : BOOLEAN,              \* the application was told of congestion
         rung : BOOLEAN]              \* the application has a DATA_IND to read for

Idle == [state |-> "IDLE", next_tx_seq |-> 0, rcvd_ack_seq |-> 0, next_rx_seq |-> 0,
         sent_ack_seq |-> 0, i_xmit_q |-> <<>>, i_rx_q |-> <<>>, flags |-> {},
         local_busy |-> FALSE, remote_busy |-> FALSE, is_tx_congested |-> FALSE,
         is_rx_congested |-> FALSE, sig_xmit_q |-> <<>>, told |-> FALSE, rung |-> FALSE]

\* Whose turn it is.  "rx": the PDUs of the frame it received are being handled;
\* "tx": symm_state is LOCAL_XMIT_NEXT.
Link == [at : Station, mode : {"rx", "tx"}, pdus : Seq(PDU)]

VARIABLES
  dl,      \* dl[s]: the data link control block of station s
  link,    \* the symmetry state of the two stations, with the frame under way
  sent,    \* ghost: sent[s] counts the SDUs LLCP took from the application of s
  budget   \* what is left of the bounds, with the cases

vars == <<dl, link, sent, budget>>

-------------------------------------------------------------------------------
(* The window and the acknowledgements.                                      *)

Minus(a, b) == (a - b) % SeqMod

\* Mutant: one more than the window.
RwOpenWide(s, d, k) == Minus(d.next_tx_seq, d.rcvd_ack_seq) + k <= Rw[Peer(s)] + 1

\* llcp_dlc_is_rw_open for the k-th PDU from now
RwOpen(s, d, k) == Minus(d.next_tx_seq, d.rcvd_ack_seq) + k <= Rw[Peer(s)]

\* Mutant: receive congestion does not stop the acknowledgements.
FlowOffBusyOnly(d) == d.local_busy

\* Nothing is acknowledged while this holds.
FlowOff(d) == d.local_busy \/ d.is_rx_congested

\* Mutant: the queue is not looked at.
AckedNoQueue(d) == d.next_rx_seq = d.sent_ack_seq /\ d.next_tx_seq = d.rcvd_ack_seq

\* Nothing to send, nothing to acknowledge, nothing unacknowledged.
Acked(d) == /\ d.i_xmit_q = <<>>
            /\ d.next_rx_seq = d.sent_ack_seq
            /\ d.next_tx_seq = d.rcvd_ack_seq

\* V(SA) <= N(R) <= V(S)
ValidNr(d, nr) ==
  Minus(nr, d.rcvd_ack_seq) + Minus(d.next_tx_seq, nr) = Minus(d.next_tx_seq, d.rcvd_ack_seq)

Queue(d, p) == [d EXCEPT !.sig_xmit_q = Append(@, p)]

\* Mutant: the receive queue is not flushed.
DeallocateKeepsRxQ(d) == [Idle EXCEPT !.sig_xmit_q = d.sig_xmit_q, !.i_rx_q = d.i_rx_q]

\* llcp_util_deallocate_data_link: what waits in the signalling queue stays.
Deallocate(d) == [Idle EXCEPT !.sig_xmit_q = d.sig_xmit_q]

\* The receive threshold that llcp_util_adjust_dl_rx_congestion computes for the only
\* data link.
Threshold(s) ==
  IF NumRxBuff > Rw[s] /\ Rw[s] + 1 > MinRxCongest THEN Rw[s] + 1 ELSE MinRxCongest

-------------------------------------------------------------------------------
(* Sending a frame: llcp_link_check_send_data.                               *)

\* llcp_dlsm_connected, LLCP_DLC_EVENT_API_DISCONNECT_REQ once nothing holds it back
SendDisc(d) == Queue([d EXCEPT !.state = "W4_REMOTE_DM"], Signal("DISC"))

\* A disconnection that waits goes on when everything is sent and acknowledged.
CheckPendingDisc(d) ==
  IF "PENDING_DISC" \in d.flags /\ Acked(d)
    THEN LET e == [d EXCEPT !.flags = @ \ {"PENDING_DISC"}]
         IN  IF e.state = "CONNECTED" THEN SendDisc(e) ELSE e
    ELSE d

\* llcp_util_send_rr_rnr
SendRrRnr(d) ==
  LET e == [d EXCEPT !.flags = @ \ {"PENDING_RR_RNR"}]
  IN  IF "PENDING_RR_RNR" \notin d.flags /\ (d.sent_ack_seq = d.next_rx_seq \/ FlowOff(d))
        THEN d
      ELSE IF FlowOff(d)
        THEN Queue(e, [type |-> "RNR", nr |-> d.sent_ack_seq])
        ELSE Queue([e EXCEPT !.sent_ack_seq = d.next_rx_seq],
                   [type |-> "RR", nr |-> d.next_rx_seq])

\* llcp_dlc_check_to_send_rr_rnr
CheckToSendRrRnr(d) ==
  IF d.state = "CONNECTED" THEN CheckPendingDisc(SendRrRnr(d)) ELSE d

\* The k first SDUs of the queue as I PDUs, and the control block after them
\* (llcp_dlc_get_next_pdu, llcp_util_build_info_pdu).
InfoPdus(d, k) ==
  [j \in 1..k |-> [type |-> "I",
                   ns   |-> (d.next_tx_seq + j - 1) % SeqMod,
                   nr   |-> IF FlowOff(d) THEN d.sent_ack_seq ELSE d.next_rx_seq,
                   sdu  |-> d.i_xmit_q[j]]]

\* Mutant: V(S) does not wrap.
AfterInfoPdusNoWrap(d, k) ==
  [d EXCEPT !.next_tx_seq = @ + k,
            !.i_xmit_q = SubSeq(@, k + 1, Len(@)),
            !.sent_ack_seq = IF k = 0 \/ FlowOff(d) THEN @ ELSE d.next_rx_seq]

AfterInfoPdus(d, k) ==
  [d EXCEPT !.next_tx_seq = (@ + k) % SeqMod,
            !.i_xmit_q = SubSeq(@, k + 1, Len(@)),
            !.sent_ack_seq = IF k = 0 \/ FlowOff(d) THEN @ ELSE d.next_rx_seq]

\* Mutant: the completion is reported to an application that disconnects only.
NoPduNested(d) ==
  IF d.state # "IDLE" /\ Acked(d) /\ "PENDING_DISC" \in d.flags
    THEN LET e == CheckPendingDisc(d) IN [e EXCEPT !.flags = @ \ {"NOTIFY_TX_DONE"}]
    ELSE d

\* llcp_dlc_get_next_pdu finds no PDU to send.
NoPdu(d) ==
  IF d.state # "IDLE" /\ Acked(d)
    THEN LET e == CheckPendingDisc(d) IN [e EXCEPT !.flags = @ \ {"NOTIFY_TX_DONE"}]
    ELSE d

\* llcp_link_check_uncongested, for the data link
CheckUncongested(s, d) ==
  IF d.state = "CONNECTED" /\ d.is_tx_congested /\ Len(d.i_xmit_q) <= Rw[Peer(s)] \div 2
    THEN [d EXCEPT !.is_tx_congested = FALSE, !.told = @ /\ d.remote_busy]
    ELSE d

\* How many I PDUs one frame may take: as many as the window and the queue allow, or
\* fewer where the next does not fit the MIU.  The first PDU of a frame always fits.
InfoCounts(s, d) ==
  LET open == {k \in 1..Len(d.i_xmit_q) : ~d.remote_busy /\ RwOpen(s, d, k)}
  IN  IF open # {} /\ d.sig_xmit_q = <<>> THEN open ELSE {0} \cup open

\* The frames d may send, each with the control block it leaves.  Signalling PDUs are
\* small; after I PDUs the RR, RNR or DISC queued last may not fit (fits).
Frames(s, d) ==
  { LET one  == d.sig_xmit_q \o InfoPdus(d, k)
        d1   == AfterInfoPdus([d EXCEPT !.sig_xmit_q = <<>>], k)
        d2   == CheckToSendRrRnr(IF one = <<>> THEN NoPdu(d1) ELSE d1)
        both == k = 0 \/ fits
    IN  IF both THEN [pdus |-> one \o d2.sig_xmit_q, d |-> [d2 EXCEPT !.sig_xmit_q = <<>>]]
                ELSE [pdus |-> one, d |-> d2]
    : k \in InfoCounts(s, d), fits \in BOOLEAN }

Turn(s) == [at |-> s, mode |-> "tx", pdus |-> <<>>]
Underway(s) == IF link.at = s THEN link.pdus ELSE <<>>    \* the PDUs s has yet to handle
Pass(s, pdus) == [at |-> Peer(s), mode |-> "rx", pdus |-> pdus]

\* What llcp_link_check_send_data leaves of station s's control block d and of the
\* link l.  With nothing to send, a station with symm_delay waits for its application;
\* one without sends a SYMM at once.
CheckSend(s, d, l) ==
  IF l # Turn(s)
    THEN {[d |-> d, link |-> l]}
    ELSE { IF f.pdus # <<>>
             THEN [d |-> CheckUncongested(s, f.d), link |-> Pass(s, f.pdus)]
             ELSE [d |-> f.d, link |-> IF s \in Patient THEN l ELSE Pass(s, <<>>)]
           : f \in Frames(s, d) }

-------------------------------------------------------------------------------
(* Receiving one PDU.  Nothing is sent before the whole frame is handled.    *)

\* A bad frame ends the connection.
FrameError(d) == Deallocate(Queue(d, Signal("FRMR")))

\* LLCP_DLC_EVENT_PEER_DATA_IND: the application starts reading.
DataInd(d) == IF d.state = "CONNECTED" THEN [d EXCEPT !.rung = TRUE] ELSE d

\* llcp_dlc_proc_connect_pdu
ProcConnect(d) ==
  IF d.state = "IDLE" THEN [Deallocate(d) EXCEPT !.state = "W4_LOCAL_RESP"]
                      ELSE Queue(d, Dm("TEMP_REJECT_THIS"))

\* llcp_dlc_proc_cc_pdu
ProcCc(d) == IF d.state = "W4_REMOTE_RESP" THEN [d EXCEPT !.state = "CONNECTED"] ELSE d

\* llcp_dlc_proc_dm_pdu: a rejection is for whoever waits for a CC.
ProcDm(d, reason) ==
  IF \/ d.state = "W4_REMOTE_RESP"
     \/ d.state = "W4_REMOTE_DM" /\ reason = "RESP_DISC"
    THEN Deallocate(d)
    ELSE d

\* Mutant: a DISC is not answered.
ProcDiscNoAnswer(d) ==
  CASE d.state = "CONNECTED"    -> Deallocate(d)
    [] d.state = "W4_REMOTE_DM" -> Queue(d, Dm("RESP_DISC"))
    [] OTHER                    -> d

\* llcp_dlc_proc_disc_pdu
ProcDisc(d) ==
  CASE d.state = "CONNECTED"    -> Deallocate(Queue(d, Dm("RESP_DISC")))
    [] d.state = "W4_REMOTE_DM" -> Queue(d, Dm("RESP_DISC"))
    [] OTHER                    -> d

\* llcp_dlc_proc_i_pdu
ProcI(s, d, p) ==
  LET good == /\ p.ns = d.next_rx_seq
              /\ Minus(p.ns, d.sent_ack_seq) < Rw[s]
              /\ ValidNr(d, p.nr)
      new  == [d EXCEPT !.next_rx_seq = (@ + 1) % SeqMod,
                        !.rcvd_ack_seq = p.nr,
                        !.i_rx_q = Append(@, p.sdu)]
      rung == IF ~new.local_busy /\ Len(new.i_rx_q) = 1 THEN DataInd(new) ELSE new
  IN  IF d.state # "CONNECTED" THEN Queue(d, Dm("NO_ACTIVE_CONNECTION"))
      ELSE IF ~good THEN FrameError(d)
      ELSE IF ~rung.is_rx_congested /\ Len(rung.i_rx_q) >= Threshold(s)
        THEN [rung EXCEPT !.is_rx_congested = TRUE, !.flags = @ \cup {"PENDING_RR_RNR"}]
        ELSE rung

\* llcp_dlc_proc_rr_rnr_pdu: the application is told of a change of remote_busy,
\* unless it believes in congestion for the transmit queue's sake.
ProcRrRnr(d, p) ==
  LET busy == p.type = "RNR"
  IN  IF d.state = "IDLE" THEN d
      ELSE IF ~ValidNr(d, p.nr) THEN FrameError(d)
      ELSE CheckPendingDisc(
             [d EXCEPT !.rcvd_ack_seq = p.nr,
                       !.remote_busy = busy,
                       !.told = IF busy # d.remote_busy /\ ~d.is_tx_congested THEN busy ELSE @])

\* llcp_dlc_proc_rx_pdu and llcp_dlc_proc_i_pdu
Process(s, d, p) ==
  CASE p.type = "CONNECT"       -> ProcConnect(d)
    [] p.type = "CC"            -> ProcCc(d)
    [] p.type = "DM"            -> ProcDm(d, p.reason)
    [] p.type = "DISC"          -> ProcDisc(d)
    [] p.type = "FRMR"          -> Deallocate(d)
    [] p.type = "I"             -> ProcI(s, d, p)
    [] p.type \in {"RR", "RNR"} -> ProcRrRnr(d, p)

ReceivePdu(s) ==
  /\ link.at = s /\ link.mode = "rx" /\ link.pdus # <<>>
  /\ dl' = [dl EXCEPT ![s] = Process(s, @, Head(link.pdus))]
  /\ link' = [link EXCEPT !.pdus = Tail(@)]
  /\ UNCHANGED <<sent, budget>>

\* Station s's control block becomes d, and s sends what may be sent.
Update(s, d, l) ==
  \E o \in CheckSend(s, d, l) : dl' = [dl EXCEPT ![s] = o.d] /\ link' = o.link

\* The end of llcp_link_proc_rx_data
EndRx(s) ==
  /\ link = [Turn(s) EXCEPT !.mode = "rx"]
  /\ Update(s, dl[s], Turn(s))
  /\ UNCHANGED <<sent, budget>>

\* llcp_link_process_link_timeout, or NFC_TTYPE_LLCP_DELAY_FIRST_PDU: the application
\* has nothing to send.
SymmTimeout(s) ==
  /\ link = Turn(s)
  /\ link' = Pass(s, <<>>)
  /\ UNCHANGED <<dl, sent, budget>>

-------------------------------------------------------------------------------
(* The application of station s.                                             *)

ConnectReq(s) ==
  /\ s \in Clients /\ dl[s].state = "IDLE" /\ budget.conn > 0
  /\ Underway(s) = <<>> \/ "callback" \in budget.cases
  /\ Update(s, Queue([Deallocate(dl[s]) EXCEPT !.state = "W4_REMOTE_RESP"], Signal("CONNECT")),
            link)
  /\ budget' = [budget EXCEPT !.conn = @ - 1]
  /\ UNCHANGED sent

ConnectCfm(s) ==
  /\ dl[s].state = "W4_LOCAL_RESP"
  /\ Update(s, Queue([dl[s] EXCEPT !.state = "CONNECTED"], Signal("CC")), link)
  /\ UNCHANGED <<sent, budget>>

\* LLCP_ConnectReject gives a reason of the application's; all count the same.
Reject(s) == Update(s, Deallocate(Queue(dl[s], Dm("TEMP_REJECT_THIS"))), link)

ConnectReject(s) ==
  /\ dl[s].state = "W4_LOCAL_RESP"
  /\ Reject(s)
  /\ UNCHANGED <<sent, budget>>

\* LLCP_SendData with a window that is not zero.  The status CONGESTED is how the
\* application is told.
SendData(s) ==
  LET d == dl[s]
      Congested(e) == \/ e.is_tx_congested \/ e.remote_busy
                      \/ Len(e.i_xmit_q) >= Rw[Peer(s)]
  IN  /\ d.state = "CONNECTED" /\ ~d.told /\ Rw[Peer(s)] > 0 /\ sent[s] < budget.sdu[s]
      /\ \E o \in CheckSend(s, [d EXCEPT !.i_xmit_q = Append(@, sent[s] + 1)], link) :
           /\ dl' = [dl EXCEPT ![s] =
                       IF Congested(o.d) THEN [o.d EXCEPT !.is_tx_congested = TRUE, !.told = TRUE]
                                         ELSE o.d]
           /\ link' = o.link
      /\ sent' = [sent EXCEPT ![s] = @ + 1]
      /\ UNCHANGED budget

\* Getting out of receive congestion
RxUncongested(d, low) ==
  IF ~d.local_busy /\ d.is_rx_congested /\ Len(d.i_rx_q) <= low
    THEN [d EXCEPT !.is_rx_congested = FALSE, !.flags = @ \cup {"PENDING_RR_RNR"}]
    ELSE d

MayRead(d) == d.state # "IDLE" /\ (d.local_busy => "busy_read" \in budget.cases)

\* LLCP_ReadDataLinkData, one SDU of the reading a DATA_IND starts
ReadData(s) ==
  LET d == dl[s]
      read == [d EXCEPT !.i_rx_q = Tail(@), !.rung = Len(d.i_rx_q) > 1]
  IN  /\ MayRead(d) /\ d.rung /\ d.i_rx_q # <<>>
      /\ dl' = [dl EXCEPT ![s] = RxUncongested(read, Threshold(s) \div 2)]
      /\ UNCHANGED <<link, sent, budget>>

\* LLCP_FlushDataLinkRxData
FlushRxData(s) ==
  LET d == dl[s]
  IN  /\ "flush" \in budget.cases /\ MayRead(d) /\ d.i_rx_q # <<>>
      /\ dl' = [dl EXCEPT ![s] = RxUncongested([d EXCEPT !.i_rx_q = <<>>, !.rung = FALSE], 0)]
      /\ UNCHANGED <<link, sent, budget>>

\* LLCP_SetLocalBusyStatus.  The RR or RNR goes with the next frame.
SetLocalBusy(s) ==
  /\ "busy" \in budget.cases /\ dl[s].state = "CONNECTED" /\ ~dl[s].local_busy /\ budget.busy > 0
  /\ dl' = [dl EXCEPT ![s].local_busy = TRUE, ![s].flags = @ \cup {"PENDING_RR_RNR"}]
  /\ budget' = [budget EXCEPT !.busy = @ - 1]
  /\ UNCHANGED <<link, sent>>

\* Mutant: the application is not told again of the data that waits.
ClearLocalBusyQuietly(s) ==
  /\ dl[s].local_busy
  /\ dl' = [dl EXCEPT ![s].local_busy = FALSE, ![s].flags = @ \cup {"PENDING_RR_RNR"}]
  /\ UNCHANGED <<link, sent, budget>>

ClearLocalBusy(s) ==
  LET d == [dl[s] EXCEPT !.local_busy = FALSE, !.flags = @ \cup {"PENDING_RR_RNR"}]
  IN  /\ dl[s].local_busy
      /\ dl' = [dl EXCEPT ![s] = IF d.i_rx_q # <<>> THEN DataInd(d) ELSE d]
      /\ UNCHANGED <<link, sent, budget>>

\* LLCP_DisconnectReq with flush FALSE
Disconnect(s) ==
  LET d == dl[s]
  IN  /\ d.state = "CONNECTED"
      /\ IF Acked(d) THEN Update(s, SendDisc(d), link)
         ELSE /\ dl' = [dl EXCEPT ![s].flags = @ \cup {"PENDING_DISC"}]
              /\ UNCHANGED link
      /\ UNCHANGED <<sent, budget>>

\* LLCP_DisconnectReq with flush TRUE.  The transmit queue is left as it is.
DisconnectFlush(s) ==
  /\ "flush" \in budget.cases /\ dl[s].state = "CONNECTED"
  /\ Update(s, SendDisc(dl[s]), link)
  /\ UNCHANGED <<sent, budget>>

SetTxCompleteNtf(s) ==
  /\ dl[s].state = "CONNECTED" /\ "NOTIFY_TX_DONE" \notin dl[s].flags
  /\ dl' = [dl EXCEPT ![s].flags = @ \cup {"NOTIFY_TX_DONE"}]
  /\ UNCHANGED <<link, sent, budget>>

-------------------------------------------------------------------------------
(* The timer of the data link, and the end of the link.                      *)

DlcTimeout(s) ==
  /\ "timeout" \in budget.cases /\ budget.faults > 0
  /\ budget' = [budget EXCEPT !.faults = @ - 1]
  /\ \/ /\ dl[s].state \in {"W4_REMOTE_RESP", "W4_REMOTE_DM"}
        /\ dl' = [dl EXCEPT ![s] = Deallocate(@)]
        /\ UNCHANGED link
     \/ /\ dl[s].state = "W4_LOCAL_RESP"
        /\ Reject(s)
  /\ UNCHANGED sent

\* llcp_link_deactivate at both stations, and a new activation
LinkLoss ==
  /\ "loss" \in budget.cases /\ budget.faults > 0
  /\ dl' = [s \in Station |-> Idle]
  /\ link' = Turn("initiator")
  /\ budget' = [budget EXCEPT !.faults = @ - 1]
  /\ UNCHANGED sent

Init ==
  /\ dl = [s \in Station |-> Idle]
  /\ link = Turn("initiator")
  /\ sent = [s \in Station |-> 0]
  /\ budget \in Bounds

Application(s) ==
  \/ ConnectReq(s) \/ ConnectCfm(s) \/ ConnectReject(s)
  \/ SendData(s) \/ ReadData(s) \/ FlushRxData(s)
  \/ SetLocalBusy(s) \/ ClearLocalBusy(s)
  \/ Disconnect(s) \/ DisconnectFlush(s) \/ SetTxCompleteNtf(s)

LinkStep == \E s \in Station : ReceivePdu(s) \/ EndRx(s) \/ SymmTimeout(s)

Next ==
  \/ LinkStep
  \/ \E s \in Station : Application(s) \/ DlcTimeout(s)
  \/ LinkLoss

Spec == Init /\ [][Next]_vars

\* The link moves (exactly one of its steps is possible at any time), and an application
\* answers a CONNECT_IND, reads what it is told of and does not stay busy.
FairSpec ==
  /\ Spec
  /\ WF_vars(LinkStep)
  /\ \A s \in Station :
       /\ WF_vars(ConnectCfm(s) \/ ConnectReject(s))
       /\ WF_vars(ReadData(s))
       /\ WF_vars(ClearLocalBusy(s))

-------------------------------------------------------------------------------
(* What must hold.                                                           *)

\* The type invariant: the record is what tLLCP_DLCB, tLLCP_LCB and the link hold.
TypeOK ==
  /\ dl \in [Station -> Dlcb]
  /\ link \in Link
  /\ sent \in [Station -> Nat]
  /\ budget \in Budget

Coming(s) == Underway(s) \o dl[Peer(s)].sig_xmit_q           \* what s has yet to handle

\* Nothing cuts in on a connection: no timer, lost link, flush or reading while busy.
Undisturbed == budget.cases \subseteq {"busy"}

\* Two stations that run this code never give each other cause for a FRMR: the window,
\* the modulus and the order of I, RR and RNR in frames agree (llcp_dlc_proc_i_pdu,
\* llcp_dlc_proc_rr_rnr_pdu).
NoFrameError ==
  Undisturbed => \A s \in Station : \A i \in DOMAIN Coming(s) : Coming(s)[i].type # "FRMR"

\* Flow control bounds the receive queue: from the RNR on, only what the window still
\* allowed arrives (rx_congest_threshold).
RxBounded ==
  \A s \in Station : Rw[s] > 0 => Len(dl[s].i_rx_q) < Threshold(s) + Rw[s]

\* No wake-up is lost: with data to read and no local busy, the application was told and
\* has not read everything (LLCP_SAP_EVT_DATA_IND is given for the first SDU only).
DataNotified ==
  \A s \in Station :
    dl[s].state = "CONNECTED" /\ dl[s].i_rx_q # <<>> /\ ~dl[s].local_busy => dl[s].rung

\* A disconnection without flush waits for what was sent: when the peer's connection ends
\* on the DISC, nothing is under way to it or queued for it, only received and unread.
DisconnectWaits ==
  [][\A s \in Station :
       Undisturbed /\ dl[s].state = "CONNECTED" /\ dl'[s].state = "IDLE"
         => dl[Peer(s)].i_xmit_q = <<>> /\ \A i \in DOMAIN Underway(s) : Underway(s)[i].type # "I"]_vars

Quiet == link.pdus = <<>> /\ \A s \in Station : dl[s].sig_xmit_q = <<>>

\* No connection is half open once everything sent was handled: the stations are
\* connected both or neither, and one that waits has a peer to wait for.
NoHalfOpen ==
  Undisturbed /\ Quiet => \A s \in Station :
    /\ dl[s].state = "CONNECTED" => dl[Peer(s)].state = "CONNECTED"
    /\ dl[s].state = "W4_REMOTE_RESP" => dl[Peer(s)].state = "W4_LOCAL_RESP"
    /\ dl[s].state # "W4_REMOTE_DM"

-------------------------------------------------------------------------------
(* The data link implements its abstract specification.                      *)

Listens(s) == dl[s].state \in {"CONNECTED", "W4_REMOTE_RESP"}

\* The I PDUs of q are the n behind position lo.
Run(q, lo, n) ==
  lo + n <= Len(q) /\ \A i \in DOMAIN q : q[i].type = "I" <=> lo < i /\ i <= lo + n

\* The SDUs of a frame, whose I PDUs follow one another (Frames).
Carried(q) ==
  LET r == CHOOSE r \in (0..Len(q)) \X (0..Len(q)) : Run(q, r[1], r[2])
  IN  [k \in 1..r[2] |-> q[r[1] + k].sdu]

\* What s sent that its peer may yet read: received, under way, and queued.
Pipe(s) ==
  LET p == Peer(s)
  IN  dl[p].i_rx_q \o (IF Listens(p) THEN Carried(Underway(p)) \o dl[s].i_xmit_q ELSE <<>>)

\* What is disturbed promises nothing.
Data == INSTANCE DataLink WITH
          up   <- [s \in Station |-> Undisturbed /\ dl[s].state = "CONNECTED"],
          pipe <- [s \in Station |-> IF Undisturbed THEN Pipe(s) ELSE <<>>],
          sent <- [s \in Station |-> IF Undisturbed THEN sent[s] ELSE 0]

\* Sequence numbers, acknowledgements, flow control and the disconnection that waits
\* for them amount to two queues between the applications.
Implements == Data!Spec

-------------------------------------------------------------------------------
(* What must happen, under FairSpec.                                         *)

\* An application told of congestion is told of its end, or loses the connection
\* (LLCP_SAP_EVT_CONGEST).
CongestionEnds == \A s \in Station : dl[s].told ~> ~dl[s].told

\* What LLCP took is sent, or the connection is gone.
QueueDrains == \A s \in Station : dl[s].i_xmit_q # <<>> ~> dl[s].i_xmit_q = <<>>

\* LLCP_SAP_EVT_TX_COMPLETE comes once it was asked for.
TxCompletes ==
  \A s \in Station : "NOTIFY_TX_DONE" \in dl[s].flags ~> "NOTIFY_TX_DONE" \notin dl[s].flags

\* A disconnection that waits for acknowledgements takes place.
DisconnectCompletes ==
  \A s \in Station : "PENDING_DISC" \in dl[s].flags ~> dl[s].state = "IDLE"

\* All: the sender gets on, and away.
SendingCompletes == CongestionEnds /\ QueueDrains /\ TxCompletes /\ DisconnectCompletes
================================================================================
