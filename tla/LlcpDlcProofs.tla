----------------------------- MODULE LlcpDlcProofs -----------------------------
(***************************************************************************)
(* Proofs about one LLCP data link (LlcpDlc) for every modulus, window and *)
(* threshold, with all faults: the types, that the receive queue is        *)
(* bounded (QueueBounded) and that data which waits was announced to the   *)
(* application (NoLostWakeup).                                             *)
(*                                                                         *)
(* The three are about one station at a time.  The bound of the queue is   *)
(* not inductive: that a congested station still receives only what fits   *)
(* its window holds because nothing is acknowledged from the moment it is  *)
(* congested, so every SDU in excess of the threshold is one of those not  *)
(* acknowledged.  Receiving says so, and one lemma per function of the     *)
(* code says that it keeps it.                                             *)
(***************************************************************************)
EXTENDS LlcpDlc, SeqLemmas


\* What station s received and did not acknowledge fits its window; with flow off for
\* congestion that is all that may have come since the queue reached its threshold.
Receiving(s, d) ==
  /\ Minus(d.next_rx_seq, d.sent_ack_seq) <= Rw[s]
  /\ Len(d.i_rx_q) < Threshold(s)
       + (IF d.is_rx_congested THEN Minus(d.next_rx_seq, d.sent_ack_seq) ELSE 0)

\* Before a connection nothing is received; data that waits was announced.
Notified(d) ==
  /\ d.state \in {"IDLE", "W4_REMOTE_RESP", "W4_LOCAL_RESP"} => d.i_rx_q = <<>>
  /\ d.state = "CONNECTED" /\ d.i_rx_q # <<>> /\ ~d.local_busy => d.rung

\* The control block of station s, as every handler finds and leaves it.
Sound(s, d) == d \in Dlcb /\ Receiving(s, d) /\ Notified(d)

\* The difference of two sequence numbers, without the modulus.
LEMMA MinusIs ==
  ASSUME NEW a \in Seqno, NEW b \in Seqno
  PROVE  /\ Minus(a, b) = (IF a >= b THEN a - b ELSE a - b + SeqMod)
         /\ Minus(a, b) \in Seqno /\ Minus(a, b) \in Nat
         /\ Minus(a, a) = 0
BY SeqModAssumption DEF Seqno, Minus

\* A sequence number moved on, which wraps at most once.
LEMMA NextSeqno ==
  ASSUME NEW a \in Seqno, NEW k \in 0..SeqMod
  PROVE  /\ (a + k) % SeqMod = (IF a + k >= SeqMod THEN a + k - SeqMod ELSE a + k)
         /\ (a + k) % SeqMod \in Seqno
BY SeqModAssumption DEF Seqno

\* A distance grows by as much as its end moves, until it reaches the modulus.
LEMMA MinusGrows ==
  ASSUME NEW a \in Seqno, NEW b \in Seqno, NEW k \in Nat, Minus(a, b) + k < SeqMod
  PROVE  Minus((a + k) % SeqMod, b) = Minus(a, b) + k
<1>1. Minus(a, b) \in Nat /\ SeqMod \in Nat
  BY MinusIs, SeqModAssumption
<1>2. k \in 0..SeqMod
  BY <1>1
<1> DEFINE n == (a + k) % SeqMod
<1>3. n \in Seqno /\ n = (IF a + k >= SeqMod THEN a + k - SeqMod ELSE a + k)
  BY <1>2, NextSeqno
<1> HIDE DEF n
<1>4. Minus(n, b) = (IF n >= b THEN n - b ELSE n - b + SeqMod)
  BY <1>3, MinusIs
<1>5. Minus(a, b) = (IF a >= b THEN a - b ELSE a - b + SeqMod)
  BY MinusIs
<1>6. Minus(n, b) = Minus(a, b) + k
  BY <1>1, <1>3, <1>4, <1>5 DEF Seqno
<1> QED
  BY <1>6 DEF n

\* The window of a station is below the modulus, its threshold positive.
LEMMA Thresholds ==
  ASSUME NEW s \in Station
  PROVE  Rw[s] \in Nat /\ Rw[s] < SeqMod /\ Threshold(s) \in Nat \ {0}
BY RwAssumption, CongestAssumption, SeqModAssumption DEF Threshold

\* The fields of a control block.
LEMMA Fields ==
  ASSUME NEW d \in Dlcb
  PROVE  /\ d.state \in State
         /\ d.next_tx_seq \in Seqno /\ d.rcvd_ack_seq \in Seqno
         /\ d.next_rx_seq \in Seqno /\ d.sent_ack_seq \in Seqno
         /\ d.i_xmit_q \in Seq(Nat) /\ d.i_rx_q \in Seq(Nat)
         /\ d.flags \in SUBSET Flag
         /\ d.local_busy \in BOOLEAN /\ d.remote_busy \in BOOLEAN
         /\ d.is_tx_congested \in BOOLEAN /\ d.is_rx_congested \in BOOLEAN
         /\ d.sig_xmit_q \in Seq(PDU) /\ d.told \in BOOLEAN /\ d.rung \in BOOLEAN
BY Zenon DEF Dlcb

\* e differs from d in nothing that the receiving side looks at.
SameRx(d, e) ==
  /\ e.state = d.state /\ e.i_rx_q = d.i_rx_q /\ e.next_rx_seq = d.next_rx_seq
  /\ e.sent_ack_seq = d.sent_ack_seq /\ e.is_rx_congested = d.is_rx_congested
  /\ e.local_busy = d.local_busy /\ e.rung = d.rung

\* What leaves the receiving side alone keeps it sound.
LEMMA SameRxSound ==
  ASSUME NEW s, NEW d, Sound(s, d), NEW e \in Dlcb, SameRx(d, e)
  PROVE  Sound(s, e)
BY DEF Sound, SameRx, Receiving, Notified

-------------------------------------------------------------------------------
(* Operators of the control block.                                           *)

\* Flags may change.
LEMMA FlagsSound ==
  ASSUME NEW s, NEW d, Sound(s, d), NEW f \in SUBSET Flag
  PROVE  Sound(s, [d EXCEPT !.flags = f]) /\ SameRx(d, [d EXCEPT !.flags = f])
<1>1. [d EXCEPT !.flags = f] \in Dlcb /\ SameRx(d, [d EXCEPT !.flags = f])
  BY DEF Sound, SameRx, Dlcb
<1> QED
  BY <1>1, SameRxSound

\* A signalling PDU is queued.
LEMMA QueueSound ==
  ASSUME NEW s, NEW d, Sound(s, d), NEW p \in PDU
  PROVE  Sound(s, Queue(d, p)) /\ SameRx(d, Queue(d, p))
<1> DEFINE q == Append(d.sig_xmit_q, p)
           e == [d EXCEPT !.sig_xmit_q = q]
<1>1. d \in Dlcb /\ q \in Seq(PDU)
  BY Fields DEF Sound
<1>2. Queue(d, p) = e
  BY DEF Queue
<1> HIDE DEF q
<1>3. e \in Dlcb /\ SameRx(d, e)
  BY <1>1 DEF Dlcb, SameRx
<1> QED
  BY <1>2, <1>3, SameRxSound

\* The PDUs without sequence numbers.
LEMMA SignalPdu ==
  /\ Signal("CONNECT") \in PDU /\ Signal("CC") \in PDU /\ Signal("DISC") \in PDU
  /\ Signal("FRMR") \in PDU
  /\ \A r \in Reason : Dm(r) \in PDU
BY DEF Signal, Dm, PDU

\* A control block without a connection.
LEMMA IdleSound ==
  ASSUME NEW s \in Station, NEW q \in Seq(PDU)
  PROVE  Sound(s, [Idle EXCEPT !.sig_xmit_q = q]) /\ [Idle EXCEPT !.sig_xmit_q = q].state = "IDLE"
<1>1. 0 \in Seqno
  BY SeqModAssumption DEF Seqno
<1>2. <<>> \in Seq(Nat) /\ <<>> \in Seq(PDU) /\ Len(<<>>) = 0
  OBVIOUS
<1> DEFINE e == [Idle EXCEPT !.sig_xmit_q = q]
<1>3. e \in Dlcb
  BY <1>1, <1>2 DEF Dlcb, Idle, State, Flag
<1>4. /\ e.state = "IDLE" /\ e.i_rx_q = <<>> /\ e.next_rx_seq = 0 /\ e.sent_ack_seq = 0
      /\ e.is_rx_congested = FALSE
  BY DEF Idle
<1> HIDE DEF e
<1>5. Receiving(s, e)
  BY <1>1, <1>2, <1>4, MinusIs, Thresholds DEF Receiving
<1>6. Notified(e)
  BY <1>4 DEF Notified
<1> QED
  BY <1>3, <1>4, <1>5, <1>6 DEF Sound, e

\* llcp_util_deallocate_data_link leaves nothing received.
LEMMA DeallocateSound ==
  ASSUME NEW s \in Station, NEW d, Sound(s, d)
  PROVE  Sound(s, Deallocate(d)) /\ Deallocate(d).state = "IDLE" /\ Deallocate(d).i_rx_q = <<>>
<1>1. d.sig_xmit_q \in Seq(PDU)
  BY Fields DEF Sound
<1> QED
  BY <1>1, IdleSound DEF Deallocate, Idle

\* llcp_util_deallocate_data_link and what follows: a state before the connection.
LEMMA StateSound ==
  ASSUME NEW s, NEW d, Sound(s, d), NEW st \in State,
         st = "W4_REMOTE_DM" \/ d.i_rx_q = <<>>
  PROVE  /\ Sound(s, [d EXCEPT !.state = st])
         /\ [d EXCEPT !.state = st].i_rx_q = d.i_rx_q
<1> DEFINE e == [d EXCEPT !.state = st]
<1>1. e \in Dlcb
  BY DEF Sound, Dlcb
<1>2. /\ e.state = st /\ e.i_rx_q = d.i_rx_q /\ e.next_rx_seq = d.next_rx_seq
      /\ e.sent_ack_seq = d.sent_ack_seq /\ e.is_rx_congested = d.is_rx_congested
  BY DEF Sound, Dlcb
<1> HIDE DEF e
<1>3. Sound(s, e)
  BY <1>1, <1>2 DEF Sound, Receiving, Notified
<1> QED
  BY <1>2, <1>3 DEF e

\* A DISC is queued.
LEMMA SendDiscSound ==
  ASSUME NEW s, NEW d, Sound(s, d)
  PROVE  Sound(s, SendDisc(d))
<1>1. Sound(s, [d EXCEPT !.state = "W4_REMOTE_DM"])
  BY StateSound DEF State
<1> QED
  BY <1>1, QueueSound, SignalPdu DEF SendDisc

\* A disconnection that waited goes on.
LEMMA CheckPendingDiscSound ==
  ASSUME NEW s, NEW d, Sound(s, d)
  PROVE  Sound(s, CheckPendingDisc(d))
<1> DEFINE fl == d.flags \ {"PENDING_DISC"}
           e == [d EXCEPT !.flags = fl]
<1>1. fl \in SUBSET Flag
  BY Fields DEF Sound
<1>2. CheckPendingDisc(d) \in {d, e, SendDisc(e)}
  BY DEF CheckPendingDisc
<1> HIDE DEF fl
<1>3. Sound(s, e)
  BY <1>1, FlagsSound
<1> HIDE DEF e
<1> QED
  BY <1>2, <1>3, SendDiscSound

\* llcp_util_send_rr_rnr acknowledges everything, or under RNR no more than before.
LEMMA SendRrRnrSound ==
  ASSUME NEW s \in Station, NEW d, Sound(s, d)
  PROVE  Sound(s, SendRrRnr(d))
<1> DEFINE fl == d.flags \ {"PENDING_RR_RNR"}
           e == [d EXCEPT !.flags = fl]
           a == [e EXCEPT !.sent_ack_seq = d.next_rx_seq]
<1>1. /\ d \in Dlcb /\ fl \in SUBSET Flag
      /\ d.next_rx_seq \in Seqno /\ d.sent_ack_seq \in Seqno /\ d.i_rx_q \in Seq(Nat)
  BY Fields DEF Sound
<1> HIDE DEF fl
<1>2. e \in Dlcb /\ SameRx(d, e) /\ Sound(s, e)
  BY <1>1, FlagsSound DEF Sound
<1> HIDE DEF e
<1>3. ASSUME ~FlowOff(d) PROVE Sound(s, a)
  <2>1. a \in Dlcb
    BY <1>1, <1>2 DEF Dlcb
  <2>2. /\ a.state = d.state /\ a.i_rx_q = d.i_rx_q /\ a.next_rx_seq = d.next_rx_seq
        /\ a.sent_ack_seq = d.next_rx_seq /\ a.is_rx_congested = d.is_rx_congested
        /\ a.local_busy = d.local_busy /\ a.rung = d.rung
    BY <1>2 DEF Dlcb, SameRx
  <2> HIDE DEF a
  <2>3. Receiving(s, a)
    <3>1. Minus(d.next_rx_seq, d.next_rx_seq) = 0 /\ ~d.is_rx_congested
      BY <1>1, <1>3, MinusIs DEF FlowOff
    <3> QED
      BY <1>1, <2>2, <3>1, Thresholds DEF Sound, Receiving
  <2>4. Notified(a)
    BY <2>2 DEF Sound, Notified
  <2> QED
    BY <2>1, <2>3, <2>4 DEF Sound
<1>4. [type |-> "RNR", nr |-> d.sent_ack_seq] \in PDU /\ [type |-> "RR", nr |-> d.next_rx_seq] \in PDU
  BY <1>1 DEF PDU
<1> HIDE DEF a
<1> DEFINE rnr == [type |-> "RNR", nr |-> d.sent_ack_seq]
           rr == [type |-> "RR", nr |-> d.next_rx_seq]
<1>5. SendRrRnr(d) = d \/ SendRrRnr(d) = Queue(e, rnr) \/ (~FlowOff(d) /\ SendRrRnr(d) = Queue(a, rr))
  BY Zenon DEF SendRrRnr, e, a, fl
<1> HIDE DEF rr, rnr
<1>6. rr \in PDU /\ rnr \in PDU
  BY <1>4 DEF rr, rnr
<1> QED
  BY <1>2, <1>3, <1>5, <1>6, QueueSound

\* llcp_dlc_check_to_send_rr_rnr
LEMMA CheckToSendRrRnrSound ==
  ASSUME NEW s \in Station, NEW d, Sound(s, d)
  PROVE  Sound(s, CheckToSendRrRnr(d))
BY SendRrRnrSound, CheckPendingDiscSound DEF CheckToSendRrRnr

-------------------------------------------------------------------------------
(* Sending a frame.                                                          *)

\* Numbers modulo LLCP_SEQ_MODULO.
LEMMA ModRange ==
  ASSUME NEW x \in Int
  PROVE  x % SeqMod \in Seqno
BY SeqModAssumption DEF Seqno

\* k SDUs of the queue make k I PDUs.
LEMMA InfoPdusType ==
  ASSUME NEW d \in Dlcb, NEW k \in 0..Len(d.i_xmit_q)
  PROVE  InfoPdus(d, k) \in Seq(PDU) /\ Len(InfoPdus(d, k)) = k
<1> DEFINE nr == IF FlowOff(d) THEN d.sent_ack_seq ELSE d.next_rx_seq
           pdu(j) == [type |-> "I", ns |-> (d.next_tx_seq + j - 1) % SeqMod, nr |-> nr,
                      sdu |-> d.i_xmit_q[j]]
<1>1. /\ nr \in Seqno /\ d.next_tx_seq \in Int /\ d.i_xmit_q \in Seq(Nat)
      /\ Len(d.i_xmit_q) \in Nat /\ k \in Nat
  BY Fields, SeqModAssumption DEF Seqno
<1> HIDE DEF nr
<1>2. ASSUME NEW j \in 1..k PROVE pdu(j) \in PDU
  <2>1. (d.next_tx_seq + j - 1) % SeqMod \in Seqno
    BY <1>1, ModRange
  <2>2. d.i_xmit_q[j] \in Nat
    BY <1>1
  <2> QED
    BY <1>1, <2>1, <2>2 DEF PDU
<1>3. InfoPdus(d, k) = [j \in 1..k |-> pdu(j)]
  BY DEF InfoPdus, nr
<1> HIDE DEF pdu
<1> QED
  BY <1>1, <1>2, <1>3

\* I PDUs acknowledge what was received, unless flow is off.
LEMMA AfterInfoPdusSound ==
  ASSUME NEW s \in Station, NEW d, Sound(s, d), NEW k \in 0..Len(d.i_xmit_q)
  PROVE  Sound(s, AfterInfoPdus(d, k))
<1> DEFINE tx == (d.next_tx_seq + k) % SeqMod
           q  == SubSeq(d.i_xmit_q, k + 1, Len(d.i_xmit_q))
           ra == IF k = 0 \/ FlowOff(d) THEN d.sent_ack_seq ELSE d.next_rx_seq
           e  == [d EXCEPT !.next_tx_seq = tx, !.i_xmit_q = q, !.sent_ack_seq = ra]
<1>0. /\ d \in Dlcb /\ d.i_xmit_q \in Seq(Nat) /\ Len(d.i_xmit_q) \in Nat /\ k \in Nat
      /\ d.next_tx_seq \in Int /\ d.sent_ack_seq \in Seqno /\ d.next_rx_seq \in Seqno
      /\ d.i_rx_q \in Seq(Nat) /\ d.is_rx_congested \in BOOLEAN
  BY Fields, SeqModAssumption DEF Sound, Seqno
<1>1. tx \in Seqno /\ q \in Seq(Nat) /\ ra \in Seqno
  <2>1. tx \in Seqno
    BY <1>0, ModRange
  <2>2. q \in Seq(Nat)
    BY <1>0, SubSeqSeq
  <2> QED
    BY <1>0, <2>1, <2>2
<1>2. AfterInfoPdus(d, k) = e
  BY DEF AfterInfoPdus
<1>3. ra = d.sent_ack_seq \/ (~d.is_rx_congested /\ ra = d.next_rx_seq)
  BY DEF FlowOff
<1> HIDE DEF tx, q, ra
<1>4. /\ e \in Dlcb /\ e.state = d.state /\ e.i_rx_q = d.i_rx_q /\ e.next_rx_seq = d.next_rx_seq
      /\ e.sent_ack_seq = ra /\ e.is_rx_congested = d.is_rx_congested
      /\ e.local_busy = d.local_busy /\ e.rung = d.rung
  BY <1>0, <1>1 DEF Dlcb
<1> HIDE DEF e
<1>5. Receiving(s, e)
  <2>1. Minus(d.next_rx_seq, d.next_rx_seq) = 0 /\ Minus(d.next_rx_seq, d.sent_ack_seq) \in Nat
    BY <1>0, MinusIs
  <2> QED
    BY <1>0, <1>3, <1>4, <2>1, Thresholds DEF Sound, Receiving
<1>6. Notified(e)
  BY <1>4 DEF Sound, Notified
<1> QED
  BY <1>2, <1>4, <1>5, <1>6 DEF Sound

\* llcp_dlc_get_next_pdu without a PDU
LEMMA NoPduSound ==
  ASSUME NEW s \in Station, NEW d, Sound(s, d)
  PROVE  Sound(s, NoPdu(d))
<1> DEFINE e == CheckPendingDisc(d)
           fl == e.flags \ {"NOTIFY_TX_DONE"}
<1>1. Sound(s, e)
  BY CheckPendingDiscSound
<1>2. NoPdu(d) = d \/ NoPdu(d) = [e EXCEPT !.flags = fl]
  BY DEF NoPdu
<1> HIDE DEF e
<1>3. fl \in SUBSET Flag
  BY <1>1, Fields DEF Sound
<1> HIDE DEF fl
<1> QED
  BY <1>1, <1>2, <1>3, FlagsSound

\* llcp_link_check_uncongested concerns the sending side.
LEMMA CheckUncongestedSound ==
  ASSUME NEW s \in Station, NEW d, Sound(s, d)
  PROVE  Sound(s, CheckUncongested(s, d)) /\ SameRx(d, CheckUncongested(s, d))
<1> DEFINE t == d.told /\ d.remote_busy
           e == [d EXCEPT !.is_tx_congested = FALSE, !.told = t]
<1>1. t \in BOOLEAN /\ d \in Dlcb
  BY DEF Sound
<1>2. CheckUncongested(s, d) = d \/ CheckUncongested(s, d) = e
  BY DEF CheckUncongested
<1> HIDE DEF t
<1>3. e \in Dlcb /\ SameRx(d, e)
  BY <1>1 DEF Dlcb, SameRx
<1>4. SameRx(d, d)
  BY DEF SameRx
<1> QED
  BY <1>2, <1>3, <1>4, SameRxSound

\* The signalling queue may change.
LEMMA SigSound ==
  ASSUME NEW s, NEW d, Sound(s, d), NEW q \in Seq(PDU)
  PROVE  /\ Sound(s, [d EXCEPT !.sig_xmit_q = q]) /\ SameRx(d, [d EXCEPT !.sig_xmit_q = q])
         /\ [d EXCEPT !.sig_xmit_q = q].i_xmit_q = d.i_xmit_q
         /\ [d EXCEPT !.sig_xmit_q = q].sig_xmit_q = q
<1>1. [d EXCEPT !.sig_xmit_q = q] \in Dlcb /\ SameRx(d, [d EXCEPT !.sig_xmit_q = q])
      /\ [d EXCEPT !.sig_xmit_q = q].i_xmit_q = d.i_xmit_q
      /\ [d EXCEPT !.sig_xmit_q = q].sig_xmit_q = q
  BY DEF Sound, SameRx, Dlcb
<1> QED
  BY <1>1, SameRxSound

\* A frame takes no more I PDUs than there are SDUs.
LEMMA InfoCountsRange ==
  ASSUME NEW s \in Station, NEW d \in Dlcb
  PROVE  InfoCounts(s, d) \subseteq 0..Len(d.i_xmit_q)
<1>1. Len(d.i_xmit_q) \in Nat
  BY Fields
<1> QED
  BY <1>1 DEF InfoCounts

\* The frame with k I PDUs.
Frame(d, k, fits) ==
  LET one  == d.sig_xmit_q \o InfoPdus(d, k)
      d1   == AfterInfoPdus([d EXCEPT !.sig_xmit_q = <<>>], k)
      d2   == CheckToSendRrRnr(IF one = <<>> THEN NoPdu(d1) ELSE d1)
      both == k = 0 \/ fits
  IN  IF both THEN [pdus |-> one \o d2.sig_xmit_q, d |-> [d2 EXCEPT !.sig_xmit_q = <<>>]]
              ELSE [pdus |-> one, d |-> d2]

\* Every frame is one with some number of I PDUs.
LEMMA FramesAre ==
  ASSUME NEW s, NEW d, NEW f \in Frames(s, d)
  PROVE  \E k \in InfoCounts(s, d), fits \in BOOLEAN : f = Frame(d, k, fits)
<1>1. Frames(s, d) = {Frame(d, k, fits) : k \in InfoCounts(s, d), fits \in BOOLEAN}
  BY DEF Frames, Frame
<1> QED
  BY <1>1

\* A frame of llcp_link_build_next_pdu: its PDUs, and the control block it leaves.
LEMMA FramesSound ==
  ASSUME NEW s \in Station, NEW d, Sound(s, d), NEW f \in Frames(s, d)
  PROVE  f.pdus \in Seq(PDU) /\ Sound(s, f.d)
<1>1. PICK k \in InfoCounts(s, d), fits \in BOOLEAN : f = Frame(d, k, fits)
  BY FramesAre
<1> DEFINE one == d.sig_xmit_q \o InfoPdus(d, k)
           d0 == [d EXCEPT !.sig_xmit_q = <<>>]
           d1 == AfterInfoPdus(d0, k)
           n1 == IF one = <<>> THEN NoPdu(d1) ELSE d1
           d2 == CheckToSendRrRnr(n1)
           d3 == [d2 EXCEPT !.sig_xmit_q = <<>>]
           all == one \o d2.sig_xmit_q
<1>2. f = [pdus |-> all, d |-> d3] \/ f = [pdus |-> one, d |-> d2]
  BY <1>1, Zenon DEF Frame
<1>3. d \in Dlcb /\ k \in 0..Len(d.i_xmit_q) /\ d.sig_xmit_q \in Seq(PDU)
  BY InfoCountsRange, Fields DEF Sound
<1>4. one \in Seq(PDU)
  BY <1>3, InfoPdusType
<1> HIDE DEF one
<1>5. Sound(s, d0) /\ d0.i_xmit_q = d.i_xmit_q
  <2>1. <<>> \in Seq(PDU)
    OBVIOUS
  <2> QED
    BY <2>1, SigSound
<1> HIDE DEF d0
<1>6. Sound(s, d1)
  BY <1>3, <1>5, AfterInfoPdusSound
<1> HIDE DEF d1
<1>7. Sound(s, n1)
  BY <1>6, NoPduSound
<1> HIDE DEF n1
<1>8. Sound(s, d2)
  BY <1>7, CheckToSendRrRnrSound
<1> HIDE DEF d2
<1>9. Sound(s, d3) /\ all \in Seq(PDU)
  <2>1. <<>> \in Seq(PDU)
    OBVIOUS
  <2>2. d2.sig_xmit_q \in Seq(PDU)
    BY <1>8, Fields DEF Sound
  <2> QED
    <3>1. Sound(s, d3)
      BY <1>8, <2>1, SigSound
    <3> QED
      BY <1>4, <2>2, <3>1
<1> HIDE DEF d3, all
<1> QED
  BY <1>2, <1>4, <1>8, <1>9

\* The turn passes with a frame.
LEMMA PassType ==
  ASSUME NEW s \in Station, NEW q \in Seq(PDU)
  PROVE  Pass(s, q) \in Link /\ Turn(s) \in Link
<1>1. <<>> \in Seq(PDU)
  OBVIOUS
<1> QED
  BY <1>1 DEF Pass, Turn, Link, Peer, Station

\* llcp_link_check_send_data, whether it sends or not.
LEMMA CheckSendSound ==
  ASSUME NEW s \in Station, NEW d, Sound(s, d), NEW l \in Link, NEW o \in CheckSend(s, d, l)
  PROVE  Sound(s, o.d) /\ o.link \in Link
<1>1. CASE l # Turn(s)
  BY <1>1 DEF CheckSend
<1>2. CASE l = Turn(s)
  <2>1. PICK f \in Frames(s, d) :
          o = IF f.pdus # <<>>
                THEN [d |-> CheckUncongested(s, f.d), link |-> Pass(s, f.pdus)]
                ELSE [d |-> f.d, link |-> IF s \in Patient THEN l ELSE Pass(s, <<>>)]
    BY <1>2, Zenon DEF CheckSend
  <2>2. f.pdus \in Seq(PDU) /\ Sound(s, f.d)
    BY FramesSound
  <2>3. <<>> \in Seq(PDU)
    OBVIOUS
  <2>4. Pass(s, f.pdus) \in Link /\ Pass(s, <<>>) \in Link /\ Sound(s, CheckUncongested(s, f.d))
    BY <2>2, <2>3, PassType, CheckUncongestedSound
  <2> QED
    BY <2>1, <2>2, <2>4
<1> QED
  BY <1>1, <1>2

-------------------------------------------------------------------------------
(* Receiving a PDU.                                                          *)

\* The fields of a PDU.
LEMMA PduFields ==
  ASSUME NEW p \in PDU
  PROVE  /\ p.type = "I" => p.ns \in Seqno /\ p.nr \in Seqno /\ p.sdu \in Nat
         /\ p.type \in {"RR", "RNR"} => p.nr \in Seqno
         /\ p.type = "DM" => p.reason \in Reason
         /\ p.type \in {"CONNECT", "CC", "DISC", "FRMR", "DM", "RR", "RNR", "I"}
BY DEF PDU

\* A FRMR ends the connection.
LEMMA FrameErrorSound ==
  ASSUME NEW s \in Station, NEW d, Sound(s, d)
  PROVE  Sound(s, FrameError(d))
BY QueueSound, SignalPdu, DeallocateSound DEF FrameError

\* LLCP_DLC_EVENT_PEER_DATA_IND changes nothing but rung.
LEMMA RungSound ==
  ASSUME NEW s, NEW d \in Dlcb
  PROVE  /\ DataInd(d) \in Dlcb
         /\ Receiving(s, d) => Receiving(s, DataInd(d))
         /\ DataInd(d).state = d.state /\ DataInd(d).i_rx_q = d.i_rx_q
         /\ DataInd(d).local_busy = d.local_busy /\ DataInd(d).flags = d.flags
         /\ DataInd(d).is_rx_congested = d.is_rx_congested
         /\ DataInd(d).next_rx_seq = d.next_rx_seq /\ DataInd(d).sent_ack_seq = d.sent_ack_seq
         /\ DataInd(d).rung = (d.rung \/ d.state = "CONNECTED")
<1> DEFINE e == [d EXCEPT !.rung = TRUE]
<1>1. /\ e \in Dlcb /\ e.state = d.state /\ e.i_rx_q = d.i_rx_q
      /\ e.local_busy = d.local_busy /\ e.flags = d.flags
      /\ e.is_rx_congested = d.is_rx_congested /\ e.next_rx_seq = d.next_rx_seq
      /\ e.sent_ack_seq = d.sent_ack_seq /\ e.rung = TRUE
  BY DEF Dlcb
<1>2. DataInd(d) = IF d.state = "CONNECTED" THEN e ELSE d
  BY DEF DataInd
<1>3. d.rung \in BOOLEAN
  BY Fields
<1> HIDE DEF e
<1>4. Receiving(s, d) => Receiving(s, e)
  BY <1>1 DEF Receiving
<1> QED
  BY <1>1, <1>2, <1>3, <1>4

\* An I PDU in sequence and within the window.
LEMMA ProcISound ==
  ASSUME NEW s \in Station, NEW d, Sound(s, d), NEW p \in PDU, p.type = "I"
  PROVE  Sound(s, ProcI(s, d, p))
<1> DEFINE rx == (d.next_rx_seq + 1) % SeqMod
           q  == Append(d.i_rx_q, p.sdu)
           new == [d EXCEPT !.next_rx_seq = rx, !.rcvd_ack_seq = p.nr, !.i_rx_q = q]
           rung == IF ~new.local_busy /\ Len(new.i_rx_q) = 1 THEN DataInd(new) ELSE new
           fl == rung.flags \cup {"PENDING_RR_RNR"}
           full == [rung EXCEPT !.is_rx_congested = TRUE, !.flags = fl]
           good == /\ p.ns = d.next_rx_seq
                   /\ Minus(p.ns, d.sent_ack_seq) < Rw[s]
                   /\ ValidNr(d, p.nr)
<1>0. /\ d \in Dlcb /\ d.i_rx_q \in Seq(Nat) /\ d.next_rx_seq \in Seqno
      /\ d.sent_ack_seq \in Seqno /\ d.is_rx_congested \in BOOLEAN /\ d.rung \in BOOLEAN
      /\ d.local_busy \in BOOLEAN
      /\ p.nr \in Seqno /\ p.sdu \in Nat
  BY Fields, PduFields DEF Sound
<1>1. CASE d.state # "CONNECTED"
  BY <1>1, QueueSound, SignalPdu DEF ProcI, Reason
<1>2. CASE d.state = "CONNECTED" /\ ~good
  BY <1>2, FrameErrorSound DEF ProcI
<1>3. CASE d.state = "CONNECTED" /\ good
  <2>1. rx \in Seqno /\ q \in Seq(Nat) /\ Len(q) = Len(d.i_rx_q) + 1 /\ Len(d.i_rx_q) \in Nat
    <3>1. 1 \in 0..SeqMod
      BY SeqModAssumption
    <3> QED
      BY <1>0, <3>1, NextSeqno
  <2> DEFINE w == Minus(d.next_rx_seq, d.sent_ack_seq)
  <2>2. w \in Nat /\ w < Rw[s] /\ Minus(rx, d.sent_ack_seq) = w + 1
    <3>1. w \in Nat /\ w < Rw[s]
      BY <1>0, <1>3, MinusIs
    <3>2. w + 1 < SeqMod
      BY <3>1, Thresholds, SeqModAssumption
    <3> QED
      BY <1>0, <3>1, <3>2, MinusGrows
  <2> HIDE DEF w
  <2>3. ProcI(s, d, p) = IF ~rung.is_rx_congested /\ Len(rung.i_rx_q) >= Threshold(s)
                           THEN full ELSE rung
    BY <1>3 DEF ProcI
  <2> HIDE DEF rx, q
  <2>4. /\ new \in Dlcb /\ new.state = "CONNECTED" /\ new.i_rx_q = q /\ new.next_rx_seq = rx
        /\ new.sent_ack_seq = d.sent_ack_seq /\ new.is_rx_congested = d.is_rx_congested
        /\ new.local_busy = d.local_busy /\ new.rung = d.rung
    BY <1>0, <1>3, <2>1 DEF Dlcb
  <2> HIDE DEF new
  <2>5. /\ rung \in Dlcb /\ rung.state = "CONNECTED" /\ rung.i_rx_q = q /\ rung.next_rx_seq = rx
        /\ rung.sent_ack_seq = d.sent_ack_seq /\ rung.is_rx_congested = d.is_rx_congested
        /\ rung.local_busy = d.local_busy
        /\ (~d.local_busy => rung.rung)
    <3>1. ~d.local_busy /\ Len(q) # 1 => d.rung
      <4>1. d.i_rx_q # <<>> /\ ~d.local_busy => d.rung
        BY <1>3 DEF Sound, Notified
      <4> QED
        BY <1>0, <2>1, <4>1
    <3> QED
      BY <2>4, <3>1, RungSound
  <2> HIDE DEF rung
  <2>6. fl \in SUBSET Flag
    BY <2>5, Fields DEF Flag
  <2> HIDE DEF fl
  <2>7. /\ full \in Dlcb /\ full.state = "CONNECTED" /\ full.i_rx_q = q /\ full.next_rx_seq = rx
        /\ full.sent_ack_seq = d.sent_ack_seq /\ full.is_rx_congested = TRUE
        /\ full.local_busy = d.local_busy /\ full.rung = rung.rung
    BY <2>5, <2>6 DEF Dlcb
  <2> HIDE DEF full
  <2>8. /\ Len(d.i_rx_q) < Threshold(s) + (IF d.is_rx_congested THEN w ELSE 0)
        /\ Rw[s] \in Nat /\ Threshold(s) \in Nat \ {0}
    BY Thresholds DEF Sound, Receiving, w
  <2>9. CASE ~rung.is_rx_congested /\ Len(rung.i_rx_q) >= Threshold(s)
    <3>1. Receiving(s, full)
      BY <2>1, <2>2, <2>5, <2>7, <2>8, <2>9 DEF Receiving
    <3>2. Notified(full)
      BY <2>5, <2>7 DEF Notified
    <3> QED
      BY <2>3, <2>7, <2>9, <3>1, <3>2 DEF Sound
  <2>10. CASE ~(~rung.is_rx_congested /\ Len(rung.i_rx_q) >= Threshold(s))
    <3>1. Receiving(s, rung)
      BY <1>0, <2>1, <2>2, <2>5, <2>8, <2>10 DEF Receiving
    <3>2. Notified(rung)
      BY <2>5 DEF Notified
    <3> QED
      BY <2>3, <2>5, <2>10, <3>1, <3>2 DEF Sound
  <2> QED
    BY <2>9, <2>10
<1> QED
  BY <1>1, <1>2, <1>3

\* llcp_dlc_proc_rr_rnr_pdu
LEMMA ProcRrRnrSound ==
  ASSUME NEW s \in Station, NEW d, Sound(s, d), NEW p \in PDU, p.type \in {"RR", "RNR"}
  PROVE  Sound(s, ProcRrRnr(d, p))
<1> DEFINE busy == p.type = "RNR"
           t == IF busy # d.remote_busy /\ ~d.is_tx_congested THEN busy ELSE d.told
           e == [d EXCEPT !.rcvd_ack_seq = p.nr, !.remote_busy = busy, !.told = t]
<1>1. d \in Dlcb /\ busy \in BOOLEAN /\ t \in BOOLEAN /\ p.nr \in Seqno
  BY Fields, PduFields DEF Sound
<1>2. ProcRrRnr(d, p) \in {d, FrameError(d), CheckPendingDisc(e)}
  BY DEF ProcRrRnr
<1> HIDE DEF t, busy
<1>3. e \in Dlcb /\ SameRx(d, e)
  BY <1>1 DEF Dlcb, SameRx
<1> HIDE DEF e
<1>4. Sound(s, e)
  BY <1>3, SameRxSound
<1> QED
  BY <1>2, <1>4, FrameErrorSound, CheckPendingDiscSound

-------------------------------------------------------------------------------
(* The steps.                                                                *)

\* Every PDU leaves a sound control block, in every state.
LEMMA ProcessSound ==
  ASSUME NEW s \in Station, NEW d, Sound(s, d), NEW p \in PDU
  PROVE  Sound(s, Process(s, d, p))
<1>1. Sound(s, ProcConnect(d))
  <2>1. Sound(s, [Deallocate(d) EXCEPT !.state = "W4_LOCAL_RESP"])
    BY DeallocateSound, StateSound DEF State
  <2> QED
    BY <2>1, QueueSound, SignalPdu DEF ProcConnect, Reason
<1>2. Sound(s, ProcCc(d))
  <2>1. d.state = "W4_REMOTE_RESP" => d.i_rx_q = <<>>
    BY DEF Sound, Notified
  <2> QED
    BY <2>1, StateSound DEF ProcCc, State
<1>3. Sound(s, ProcDm(d, p.reason))
  BY DeallocateSound DEF ProcDm
<1>4. Sound(s, ProcDisc(d))
  <2>1. Sound(s, Queue(d, Dm("RESP_DISC")))
    BY QueueSound, SignalPdu DEF Reason
  <2> QED
    BY <2>1, DeallocateSound DEF ProcDisc
<1>5. p.type \in {"CONNECT", "CC", "DISC", "FRMR", "DM", "RR", "RNR", "I"}
  BY PduFields
<1>6. CASE p.type = "I"
  BY <1>6, ProcISound DEF Process
<1>7. CASE p.type \in {"RR", "RNR"}
  BY <1>7, ProcRrRnrSound DEF Process
<1>8. CASE p.type \in {"CONNECT", "CC", "DISC", "FRMR", "DM"}
  BY <1>1, <1>2, <1>3, <1>4, <1>8, DeallocateSound DEF Process
<1> QED
  BY <1>5, <1>6, <1>7, <1>8

\* The inductive invariant.
IInv == TypeOK /\ \A s \in Station : Receiving(s, dl[s]) /\ Notified(dl[s])

\* What the invariant says of each station.
LEMMA IInvSound ==
  ASSUME IInv
  PROVE  /\ \A s \in Station : Sound(s, dl[s])
         /\ dl \in [Station -> Dlcb] /\ link \in Link
         /\ sent \in [Station -> Nat] /\ budget \in Budget
BY DEF IInv, TypeOK, Sound

\* One station's control block changes and stays sound.
LEMMA SoundIInv ==
  ASSUME IInv, NEW s \in Station, NEW d, Sound(s, d),
         dl' = [dl EXCEPT ![s] = d],
         link' \in Link, sent' \in [Station -> Nat], budget' \in Budget
  PROVE  IInv'
<1>1. dl \in [Station -> Dlcb] /\ \A t \in Station : Sound(t, dl[t])
  BY IInvSound
<1>2. dl' \in [Station -> Dlcb] /\ \A t \in Station : Sound(t, dl'[t])
  BY <1>1 DEF Sound
<1> QED
  BY <1>2 DEF IInv, TypeOK, Sound

\* It changes, and llcp_link_check_send_data may send.
LEMMA UpdateStep ==
  ASSUME IInv, NEW s \in Station, NEW d, Sound(s, d), NEW l \in Link, Update(s, d, l),
         sent' \in [Station -> Nat], budget' \in Budget
  PROVE  IInv'
<1>1. PICK o \in CheckSend(s, d, l) : dl' = [dl EXCEPT ![s] = o.d] /\ link' = o.link
  BY DEF Update
<1>2. Sound(s, o.d) /\ o.link \in Link
  BY CheckSendSound
<1> QED
  BY <1>1, <1>2, SoundIInv

\* The bounds are used up one by one.
LEMMA BudgetType ==
  ASSUME budget \in Budget
  PROVE  /\ budget.conn > 0 => [budget EXCEPT !.conn = @ - 1] \in Budget
         /\ budget.busy > 0 => [budget EXCEPT !.busy = @ - 1] \in Budget
         /\ budget.faults > 0 => [budget EXCEPT !.faults = @ - 1] \in Budget
BY DEF Budget

\* The fields of the link.
LEMMA LinkFields ==
  ASSUME NEW l \in Link
  PROVE  l.at \in Station /\ l.mode \in {"rx", "tx"} /\ l.pdus \in Seq(PDU)
BY DEF Link

\* A PDU is handled, a frame ends, a station has nothing to send.
LEMMA LinkSteps ==
  ASSUME IInv, NEW s \in Station
  PROVE  ReceivePdu(s) \/ EndRx(s) \/ SymmTimeout(s) => IInv'
<1>0. /\ dl \in [Station -> Dlcb] /\ Sound(s, dl[s]) /\ link \in Link
      /\ sent \in [Station -> Nat] /\ budget \in Budget
  BY IInvSound
<1>1. ASSUME ReceivePdu(s) PROVE IInv'
  <2>1. Head(link.pdus) \in PDU /\ Tail(link.pdus) \in Seq(PDU)
    BY <1>0, <1>1, LinkFields, TailSeq DEF ReceivePdu
  <2> DEFINE d == Process(s, dl[s], Head(link.pdus))
             q == Tail(link.pdus)
  <2>2. Sound(s, d)
    BY <1>0, <2>1, ProcessSound
  <2>3. dl' = [dl EXCEPT ![s] = d] /\ link' = [link EXCEPT !.pdus = q] /\ sent' = sent /\ budget' = budget
    BY <1>1 DEF ReceivePdu
  <2> HIDE DEF d, q
  <2>4. link' \in Link
    BY <1>0, <2>1, <2>3 DEF Link, q
  <2> QED
    BY <1>0, <2>2, <2>3, <2>4, SoundIInv
<1>2. ASSUME EndRx(s) PROVE IInv'
  <2>1. <<>> \in Seq(PDU)
    OBVIOUS
  <2>2. Turn(s) \in Link
    BY <2>1, PassType
  <2> QED
    BY <1>0, <1>2, <2>2, UpdateStep DEF EndRx
<1>3. ASSUME SymmTimeout(s) PROVE IInv'
  <2>1. <<>> \in Seq(PDU)
    OBVIOUS
  <2>2. link' \in Link
    BY <1>3, <2>1, PassType DEF SymmTimeout
  <2> QED
    BY <1>3, <2>2 DEF SymmTimeout, IInv, TypeOK
<1> QED
  BY <1>1, <1>2, <1>3

\* LLCP_ConnectReq, LLCP_ConnectCfm, LLCP_ConnectReject.
LEMMA ConnectSteps ==
  ASSUME IInv, NEW s \in Station
  PROVE  ConnectReq(s) \/ ConnectCfm(s) \/ ConnectReject(s) => IInv'
<1>0. /\ dl \in [Station -> Dlcb] /\ Sound(s, dl[s]) /\ link \in Link
      /\ sent \in [Station -> Nat] /\ budget \in Budget
  BY IInvSound
<1>1. ASSUME ConnectReq(s) PROVE IInv'
  <2> DEFINE d == [Deallocate(dl[s]) EXCEPT !.state = "W4_REMOTE_RESP"]
  <2>1. Sound(s, d)
    BY <1>0, DeallocateSound, StateSound DEF State
  <2> HIDE DEF d
  <2>2. Sound(s, Queue(d, Signal("CONNECT")))
    BY <2>1, QueueSound, SignalPdu
  <2>3. budget' \in Budget /\ sent' = sent /\ Update(s, Queue(d, Signal("CONNECT")), link)
    BY <1>0, <1>1, BudgetType DEF ConnectReq, d
  <2> QED
    BY <1>0, <2>2, <2>3, UpdateStep
<1>2. ASSUME ConnectCfm(s) PROVE IInv'
  <2> DEFINE d == [dl[s] EXCEPT !.state = "CONNECTED"]
  <2>1. Sound(s, d)
    BY <1>0, <1>2, StateSound DEF State, ConnectCfm, Sound, Notified
  <2> HIDE DEF d
  <2>2. Sound(s, Queue(d, Signal("CC")))
    BY <2>1, QueueSound, SignalPdu
  <2>3. budget' = budget /\ sent' = sent /\ Update(s, Queue(d, Signal("CC")), link)
    BY <1>2 DEF ConnectCfm, d
  <2> QED
    BY <1>0, <2>2, <2>3, UpdateStep
<1>3. ASSUME ConnectReject(s) PROVE IInv'
  <2>1. Sound(s, Deallocate(Queue(dl[s], Dm("TEMP_REJECT_THIS"))))
    BY <1>0, QueueSound, SignalPdu, DeallocateSound DEF Reason
  <2> QED
    BY <1>0, <1>3, <2>1, UpdateStep DEF ConnectReject, Reject
<1> QED
  BY <1>1, <1>2, <1>3

\* LLCP_SendData
LEMMA SendDataStep ==
  ASSUME IInv, NEW s \in Station, SendData(s)
  PROVE  IInv'
<1>0. /\ dl \in [Station -> Dlcb] /\ Sound(s, dl[s]) /\ link \in Link
      /\ sent \in [Station -> Nat] /\ budget \in Budget
  BY IInvSound
<1> DEFINE n == sent[s] + 1
           q == Append(dl[s].i_xmit_q, n)
           d == [dl[s] EXCEPT !.i_xmit_q = q]
<1>1. n \in Nat /\ q \in Seq(Nat) /\ dl[s] \in Dlcb
  BY <1>0, Fields
<1>2. PICK o \in CheckSend(s, d, link) :
        /\ link' = o.link
        /\ \/ dl' = [dl EXCEPT ![s] = o.d]
           \/ dl' = [dl EXCEPT ![s] = [o.d EXCEPT !.is_tx_congested = TRUE, !.told = TRUE]]
  BY DEF SendData
<1>3. sent' = [sent EXCEPT ![s] = n] /\ budget' = budget
  BY DEF SendData
<1> HIDE DEF n, q
<1>4. sent' \in [Station -> Nat]
  BY <1>0, <1>1, <1>3
<1>5. d \in Dlcb /\ SameRx(dl[s], d)
  BY <1>1 DEF Dlcb, SameRx
<1> HIDE DEF d
<1>6. Sound(s, d)
  BY <1>0, <1>5, SameRxSound
<1>7. Sound(s, o.d) /\ o.link \in Link
  BY <1>0, <1>6, CheckSendSound
<1> DEFINE e == o.d
           f == [e EXCEPT !.is_tx_congested = TRUE, !.told = TRUE]
<1>8. e \in Dlcb
  BY <1>7 DEF Sound
<1> HIDE DEF e
<1>9. f \in Dlcb /\ SameRx(e, f)
  BY <1>8 DEF Dlcb, SameRx
<1>10. Sound(s, f)
  BY <1>7, <1>9, SameRxSound DEF e
<1> HIDE DEF f
<1> QED
  BY <1>0, <1>2, <1>3, <1>4, <1>7, <1>10, SoundIInv DEF e, f

\* Fewer SDUs in the receive queue, and the end of congestion.
LEMMA RxUncongestedSound ==
  ASSUME NEW s \in Station, NEW d, Sound(s, d), NEW low \in Nat, low < Threshold(s)
  PROVE  Sound(s, RxUncongested(d, low))
<1> DEFINE fl == d.flags \cup {"PENDING_RR_RNR"}
           e  == [d EXCEPT !.is_rx_congested = FALSE, !.flags = fl]
<1>1. d \in Dlcb /\ fl \in SUBSET Flag /\ d.i_rx_q \in Seq(Nat)
  BY Fields DEF Sound, Flag
<1>2. RxUncongested(d, low) = d \/ (Len(d.i_rx_q) <= low /\ RxUncongested(d, low) = e)
  BY DEF RxUncongested
<1> HIDE DEF fl
<1>3. /\ e \in Dlcb /\ e.state = d.state /\ e.i_rx_q = d.i_rx_q /\ e.next_rx_seq = d.next_rx_seq
      /\ e.sent_ack_seq = d.sent_ack_seq /\ e.is_rx_congested = FALSE
      /\ e.local_busy = d.local_busy /\ e.rung = d.rung
  BY <1>1 DEF Dlcb
<1> HIDE DEF e
<1>4. ASSUME Len(d.i_rx_q) <= low PROVE Sound(s, e)
  <2>1. Receiving(s, e)
    BY <1>1, <1>3, <1>4, Thresholds DEF Sound, Receiving
  <2>2. Notified(e)
    BY <1>3 DEF Sound, Notified
  <2> QED
    BY <1>3, <2>1, <2>2 DEF Sound
<1> QED
  BY <1>2, <1>4

\* The receive queue becomes shorter; the application has read on to its end.
LEMMA ShorterSound ==
  ASSUME NEW s \in Station, NEW d, Sound(s, d), NEW q \in Seq(Nat), Len(q) < Len(d.i_rx_q),
         NEW r \in BOOLEAN, r \/ q = <<>>
  PROVE  Sound(s, [d EXCEPT !.i_rx_q = q, !.rung = r])
<1> DEFINE e == [d EXCEPT !.i_rx_q = q, !.rung = r]
<1>1. /\ d \in Dlcb /\ d.i_rx_q \in Seq(Nat) /\ d.next_rx_seq \in Seqno /\ d.sent_ack_seq \in Seqno
  BY Fields DEF Sound
<1>2. /\ e \in Dlcb /\ e.state = d.state /\ e.i_rx_q = q /\ e.next_rx_seq = d.next_rx_seq
      /\ e.sent_ack_seq = d.sent_ack_seq /\ e.is_rx_congested = d.is_rx_congested
      /\ e.local_busy = d.local_busy /\ e.rung = r
  BY <1>1 DEF Dlcb
<1> HIDE DEF e
<1>3. Receiving(s, e)
  <2>1. Minus(d.next_rx_seq, d.sent_ack_seq) \in Nat /\ Len(q) \in Nat /\ Len(d.i_rx_q) \in Nat
    BY <1>1, MinusIs
  <2> QED
    BY <1>2, <2>1, Thresholds DEF Sound, Receiving
<1>4. Notified(e)
  BY <1>1, <1>2 DEF Sound, Notified
<1> QED
  BY <1>2, <1>3, <1>4 DEF Sound, e

\* LLCP_ReadDataLinkData and LLCP_FlushDataLinkRxData
LEMMA ReadSteps ==
  ASSUME IInv, NEW s \in Station
  PROVE  ReadData(s) \/ FlushRxData(s) => IInv'
<1>0. /\ dl \in [Station -> Dlcb] /\ Sound(s, dl[s]) /\ link \in Link
      /\ sent \in [Station -> Nat] /\ budget \in Budget
      /\ dl[s].i_rx_q \in Seq(Nat) /\ Threshold(s) \in Nat \ {0}
  BY IInvSound, Fields, Thresholds DEF Sound
<1>1. ASSUME ReadData(s) PROVE IInv'
  <2> DEFINE q == Tail(dl[s].i_rx_q)
             r == Len(dl[s].i_rx_q) > 1
             read == [dl[s] EXCEPT !.i_rx_q = q, !.rung = r]
             low == Threshold(s) \div 2
  <2>1. dl' = [dl EXCEPT ![s] = RxUncongested(read, low)] /\ link' = link /\ sent' = sent
        /\ budget' = budget /\ dl[s].i_rx_q # <<>>
    BY <1>1 DEF ReadData
  <2>2. q \in Seq(Nat) /\ Len(q) < Len(dl[s].i_rx_q) /\ r \in BOOLEAN /\ (r \/ q = <<>>)
    BY <1>0, <2>1, TailSeq
  <2>3. low \in Nat /\ low < Threshold(s)
    BY <1>0
  <2> HIDE DEF q, r, low
  <2>4. Sound(s, read)
    BY <1>0, <2>2, ShorterSound
  <2> HIDE DEF read
  <2>5. Sound(s, RxUncongested(read, low))
    BY <2>3, <2>4, RxUncongestedSound
  <2> QED
    BY <1>0, <2>1, <2>5, SoundIInv
<1>2. ASSUME FlushRxData(s) PROVE IInv'
  <2> DEFINE read == [dl[s] EXCEPT !.i_rx_q = <<>>, !.rung = FALSE]
  <2>1. dl' = [dl EXCEPT ![s] = RxUncongested(read, 0)] /\ link' = link /\ sent' = sent
        /\ budget' = budget /\ dl[s].i_rx_q # <<>>
    BY <1>2 DEF FlushRxData
  <2>2. <<>> \in Seq(Nat) /\ Len(<<>>) < Len(dl[s].i_rx_q) /\ 0 < Threshold(s)
    BY <1>0, <2>1
  <2>3. Sound(s, read)
    BY <1>0, <2>2, ShorterSound
  <2> HIDE DEF read
  <2>4. Sound(s, RxUncongested(read, 0))
    BY <2>2, <2>3, RxUncongestedSound
  <2> QED
    BY <1>0, <2>1, <2>4, SoundIInv
<1> QED
  BY <1>1, <1>2

\* LLCP_SetLocalBusyStatus
LEMMA BusySteps ==
  ASSUME IInv, NEW s \in Station
  PROVE  SetLocalBusy(s) \/ ClearLocalBusy(s) => IInv'
<1>0. /\ dl \in [Station -> Dlcb] /\ Sound(s, dl[s]) /\ link \in Link
      /\ sent \in [Station -> Nat] /\ budget \in Budget /\ dl[s] \in Dlcb
  BY IInvSound DEF Sound
<1> DEFINE fl == dl[s].flags \cup {"PENDING_RR_RNR"}
<1>1. fl \in SUBSET Flag
  BY <1>0, Fields DEF Flag
<1>2. ASSUME NEW b \in BOOLEAN
      PROVE  LET e == [dl[s] EXCEPT !.local_busy = b, !.flags = fl]
             IN  /\ e \in Dlcb /\ e.state = dl[s].state /\ e.i_rx_q = dl[s].i_rx_q
                 /\ e.local_busy = b /\ e.rung = dl[s].rung
                 /\ Receiving(s, e)
  <2> DEFINE e == [dl[s] EXCEPT !.local_busy = b, !.flags = fl]
  <2> HIDE DEF fl
  <2>1. /\ e \in Dlcb /\ e.state = dl[s].state /\ e.i_rx_q = dl[s].i_rx_q
        /\ e.local_busy = b /\ e.rung = dl[s].rung /\ e.next_rx_seq = dl[s].next_rx_seq
        /\ e.sent_ack_seq = dl[s].sent_ack_seq /\ e.is_rx_congested = dl[s].is_rx_congested
    BY <1>0, <1>1 DEF Dlcb
  <2> HIDE DEF e
  <2>2. Receiving(s, e)
    BY <1>0, <2>1 DEF Sound, Receiving
  <2> QED
    BY <2>1, <2>2 DEF e
<1>3. ASSUME SetLocalBusy(s) PROVE IInv'
  <2> DEFINE e == [dl[s] EXCEPT !.local_busy = TRUE, !.flags = fl]
  <2>1. dl' = [dl EXCEPT ![s] = e] /\ link' = link /\ sent' = sent /\ budget' \in Budget
    BY <1>0, <1>3, BudgetType DEF SetLocalBusy
  <2>2. /\ e \in Dlcb /\ e.state = dl[s].state /\ e.i_rx_q = dl[s].i_rx_q
        /\ e.local_busy = TRUE /\ Receiving(s, e)
    BY <1>2
  <2> HIDE DEF e
  <2>3. Sound(s, e)
    BY <1>0, <2>2 DEF Sound, Notified
  <2> QED
    BY <1>0, <2>1, <2>3, SoundIInv
<1>4. ASSUME ClearLocalBusy(s) PROVE IInv'
  <2> DEFINE e == [dl[s] EXCEPT !.local_busy = FALSE, !.flags = fl]
  <2>1. link' = link /\ sent' = sent /\ budget' = budget
        /\ dl' = [dl EXCEPT ![s] = IF e.i_rx_q # <<>> THEN DataInd(e) ELSE e]
    BY <1>4 DEF ClearLocalBusy
  <2>2. /\ e \in Dlcb /\ e.state = dl[s].state /\ e.i_rx_q = dl[s].i_rx_q
        /\ Receiving(s, e)
    BY <1>2
  <2> HIDE DEF e
  <2>3. e.i_rx_q = <<>> => Sound(s, e)
    BY <2>2 DEF Sound, Notified
  <2>4. Sound(s, DataInd(e))
    <3>1. /\ DataInd(e) \in Dlcb /\ Receiving(s, DataInd(e)) /\ DataInd(e).state = e.state
          /\ DataInd(e).i_rx_q = e.i_rx_q /\ (e.state = "CONNECTED" => DataInd(e).rung)
      BY <2>2, RungSound
    <3> QED
      BY <1>0, <2>2, <3>1 DEF Sound, Notified
  <2> QED
    BY <1>0, <2>1, <2>3, <2>4, SoundIInv
<1> QED
  BY <1>3, <1>4

\* LLCP_DisconnectReq and LLCP_SetTxCompleteNtf.
LEMMA DisconnectSteps ==
  ASSUME IInv, NEW s \in Station
  PROVE  Disconnect(s) \/ DisconnectFlush(s) \/ SetTxCompleteNtf(s) => IInv'
<1>0. /\ dl \in [Station -> Dlcb] /\ Sound(s, dl[s]) /\ link \in Link
      /\ sent \in [Station -> Nat] /\ budget \in Budget /\ Sound(s, SendDisc(dl[s]))
  BY IInvSound, SendDiscSound
<1>1. ASSUME NEW f \in Flag, dl' = [dl EXCEPT ![s].flags = @ \cup {f}],
             link' = link, sent' = sent, budget' = budget
      PROVE  IInv'
  <2> DEFINE fl == dl[s].flags \cup {f}
  <2>1. fl \in SUBSET Flag
    BY <1>0, Fields DEF Sound
  <2>2. Sound(s, [dl[s] EXCEPT !.flags = fl])
    BY <1>0, <2>1, FlagsSound
  <2>3. dl' = [dl EXCEPT ![s] = [dl[s] EXCEPT !.flags = fl]]
    BY <1>1
  <2> HIDE DEF fl
  <2> QED
    BY <1>0, <1>1, <2>2, <2>3, SoundIInv
<1>2. ASSUME Disconnect(s) PROVE IInv'
  <2>1. CASE Acked(dl[s])
    BY <1>0, <1>2, <2>1, UpdateStep DEF Disconnect
  <2>2. CASE ~Acked(dl[s])
    BY <1>1, <1>2, <2>2 DEF Disconnect, Flag
  <2> QED
    BY <2>1, <2>2
<1>3. ASSUME DisconnectFlush(s) PROVE IInv'
  BY <1>0, <1>3, UpdateStep DEF DisconnectFlush
<1>4. ASSUME SetTxCompleteNtf(s) PROVE IInv'
  BY <1>1, <1>4 DEF SetTxCompleteNtf, Flag
<1> QED
  BY <1>2, <1>3, <1>4

\* The control block after llcp_util_deallocate_data_link.
LEMMA Fresh ==
  ASSUME NEW s \in Station
  PROVE  Sound(s, Idle)
<1>1. <<>> \in Seq(PDU)
  OBVIOUS
<1>2. [Idle EXCEPT !.sig_xmit_q = <<>>] = Idle
  BY DEF Idle
<1> QED
  BY <1>1, <1>2, IdleSound

\* The timer of the data link, and the loss of the link.
LEMMA FaultSteps ==
  ASSUME IInv
  PROVE  (\E s \in Station : DlcTimeout(s)) \/ LinkLoss => IInv'
<1>0. /\ dl \in [Station -> Dlcb] /\ link \in Link
      /\ sent \in [Station -> Nat] /\ budget \in Budget
  BY IInvSound
<1>1. ASSUME NEW s \in Station, DlcTimeout(s) PROVE IInv'
  <2>1. sent' = sent /\ budget' \in Budget
    BY <1>0, <1>1, BudgetType DEF DlcTimeout
  <2>2. Sound(s, dl[s])
    BY IInvSound
  <2>3. Sound(s, Deallocate(dl[s])) /\ Sound(s, Deallocate(Queue(dl[s], Dm("TEMP_REJECT_THIS"))))
    BY <2>2, QueueSound, SignalPdu, DeallocateSound DEF Reason
  <2>4. CASE dl' = [dl EXCEPT ![s] = Deallocate(@)] /\ link' = link
    BY <1>0, <2>1, <2>3, <2>4, SoundIInv
  <2>5. CASE Reject(s)
    BY <1>0, <2>1, <2>3, <2>5, UpdateStep DEF Reject
  <2> QED
    BY <1>1, <2>4, <2>5 DEF DlcTimeout
<1>2. ASSUME LinkLoss PROVE IInv'
  <2>1. \A s \in Station : Sound(s, Idle)
    BY Fresh
  <2>2. dl' = [s \in Station |-> Idle] /\ link' \in Link /\ sent' = sent /\ budget' \in Budget
    <3>1. <<>> \in Seq(PDU) /\ "initiator" \in Station
      BY DEF Station
    <3> QED
      BY <1>0, <1>2, <3>1, BudgetType, PassType DEF LinkLoss
  <2> QED
    BY <1>0, <2>1, <2>2 DEF IInv, TypeOK, Sound
<1> QED
  BY <1>1, <1>2

\* The invariant holds at the start.
LEMMA InitIInv == Init => IInv
<1> SUFFICES ASSUME Init PROVE IInv
  OBVIOUS
<1>1. \A s \in Station : Sound(s, Idle)
  BY Fresh
<1>2. Turn("initiator") \in Link
  <2>1. <<>> \in Seq(PDU) /\ "initiator" \in Station
    BY DEF Station
  <2> QED
    BY <2>1, PassType
<1> QED
  BY <1>1, <1>2, BoundAssumption DEF Init, IInv, TypeOK, Sound

\* Every step keeps the invariant.
LEMMA NextIInv == IInv /\ [Next]_vars => IInv'
<1> SUFFICES ASSUME IInv, [Next]_vars PROVE IInv'
  OBVIOUS
<1>1. CASE LinkStep
  BY <1>1, LinkSteps DEF LinkStep
<1>2. CASE \E s \in Station : Application(s)
  BY <1>2, ConnectSteps, SendDataStep, ReadSteps, BusySteps, DisconnectSteps DEF Application
<1>3. CASE (\E s \in Station : DlcTimeout(s)) \/ LinkLoss
  BY <1>3, FaultSteps
<1>4. CASE UNCHANGED vars
  BY <1>4 DEF vars, IInv, TypeOK
<1> QED
  BY <1>1, <1>2, <1>3, <1>4 DEF Next

\* TypeOK holds of every behaviour: every number stays below the modulus whatever it is, and every
\* queue and frame holds what the code puts there.
THEOREM DlcTypes == Spec => []TypeOK
<1>1. IInv => TypeOK
  BY DEF IInv
<1> QED
  BY <1>1, InitIInv, NextIInv, PTL DEF Spec

\* RxBounded holds of every behaviour, with every window below the modulus and all
\* faults: what arrives after the congestion is noticed is less than a window.
THEOREM QueueBounded == Spec => []RxBounded
<1>1. IInv => RxBounded
  <2> SUFFICES ASSUME IInv, NEW s \in Station, Rw[s] > 0
               PROVE  Len(dl[s].i_rx_q) < Threshold(s) + Rw[s]
    BY DEF RxBounded
  <2>1. Sound(s, dl[s])
    BY IInvSound
  <2>2. dl[s].i_rx_q \in Seq(Nat) /\ dl[s].next_rx_seq \in Seqno /\ dl[s].sent_ack_seq \in Seqno
    BY <2>1, Fields DEF Sound
  <2>3. Minus(dl[s].next_rx_seq, dl[s].sent_ack_seq) \in Nat
    BY <2>2, MinusIs
  <2> QED
    BY <2>1, <2>2, <2>3, Thresholds DEF Sound, Receiving
<1> QED
  BY <1>1, InitIInv, NextIInv, PTL DEF Spec

\* DataNotified holds of every behaviour: however busy states, reads, flushes and PDUs
\* follow each other, data that waits was announced.
THEOREM NoLostWakeup == Spec => []DataNotified
<1>1. IInv => DataNotified
  BY DEF IInv, Notified, DataNotified
<1> QED
  BY <1>1, InitIInv, NextIInv, PTL DEF Spec
================================================================================
