------------------------------ MODULE LlcpDlcData ------------------------------
(***************************************************************************)
(* LlcpDlc implements DataLink (Implements): what one application sent and *)
(* the other may yet read is a queue, whatever the two control blocks and  *)
(* the link do with it.  The mapping is Pipe: the receive queue of the     *)
(* reader, the I PDUs of the frame under way (Carried), and the queue of   *)
(* the sender, as long as the reader listens.                              *)
(*                                                                         *)
(* Maps lists what a step of a station may be for the applications, and    *)
(* MapsData takes each to a step of DataLink.  Then one lemma for every    *)
(* action: Ships says what CheckSend moves from the queue to the frame,    *)
(* Takes what handling a PDU moves from the frame to the receive queue.    *)
(* That a connection opens with nothing left in the queues of its peer     *)
(* needs an invariant of its own (Unread).                                 *)
(***************************************************************************)
EXTENDS LlcpDlcPair

\* The I PDUs of a frame are one run only.
LEMMA RunAlone ==
  ASSUME NEW q \in Seq(PDU), NEW lo \in Nat, NEW n \in Nat, Run(q, lo, n),
         NEW u \in Nat, NEW v \in Nat, Run(q, u, v)
  PROVE  v = n /\ (n > 0 => u = lo)
<1> DEFINE l == Len(q)
<1>1. /\ l \in Nat /\ lo + n <= l /\ u + v <= l
      /\ \A i \in 1..l : (lo < i /\ i <= lo + n) <=> (u < i /\ i <= u + v)
  <2>1. DOMAIN q = 1..l /\ l \in Nat
    OBVIOUS
  <2> QED
    BY <2>1 DEF Run
<1> HIDE DEF l
<1>2. n > 0 => u < lo + 1 /\ lo + 1 <= u + v /\ lo + n <= u + v
  <2> SUFFICES ASSUME n > 0 PROVE u < lo + 1 /\ lo + 1 <= u + v /\ lo + n <= u + v
    OBVIOUS
  <2> DEFINE i == lo + 1
             j == lo + n
  <2>1. i \in 1..l /\ j \in 1..l /\ lo < i /\ i <= lo + n /\ lo < j /\ j <= lo + n
    BY <1>1
  <2> HIDE DEF i, j
  <2>2. u < i /\ i <= u + v /\ u < j /\ j <= u + v
    BY <1>1, <2>1
  <2> QED
    BY <2>2 DEF i, j
<1>3. v > 0 => lo < u + 1 /\ u + 1 <= lo + n /\ u + v <= lo + n
  <2> SUFFICES ASSUME v > 0 PROVE lo < u + 1 /\ u + 1 <= lo + n /\ u + v <= lo + n
    OBVIOUS
  <2> DEFINE i == u + 1
             j == u + v
  <2>1. i \in 1..l /\ j \in 1..l /\ u < i /\ i <= u + v /\ u < j /\ j <= u + v
    BY <1>1
  <2> HIDE DEF i, j
  <2>2. lo < i /\ i <= lo + n /\ lo < j /\ j <= lo + n
    BY <1>1, <2>1
  <2> QED
    BY <2>2 DEF i, j
<1> QED
  BY <1>2, <1>3

\* The SDUs of a run of I PDUs, whose place in the frame nobody else can take.
LEMMA RunCarried ==
  ASSUME NEW q \in Seq(PDU), NEW lo \in Nat, NEW n \in Nat, Run(q, lo, n)
  PROVE  Carried(q) = [k \in 1..n |-> q[lo + k].sdu]
<1> DEFINE r == CHOOSE r \in (0..Len(q)) \X (0..Len(q)) : Run(q, r[1], r[2])
<1>1. Len(q) \in Nat /\ DOMAIN q = 1..Len(q) /\ lo + n <= Len(q) /\ <<lo, n>> \in (0..Len(q)) \X (0..Len(q))
  BY DEF Run
<1>2. r \in (0..Len(q)) \X (0..Len(q)) /\ Run(q, r[1], r[2])
  BY <1>1
<1>3. Carried(q) = [k \in 1..r[2] |-> q[r[1] + k].sdu]
  BY DEF Carried
<1> HIDE DEF r
<1>4. r[2] = n /\ (n > 0 => r[1] = lo)
  <2>1. r[1] \in Nat /\ r[2] \in Nat
    BY <1>1, <1>2
  <2> QED
    BY <1>2, <2>1, RunAlone
<1> QED
  <2>1. CASE n = 0
    BY <1>3, <1>4, <2>1
  <2>2. CASE n > 0
    BY <1>3, <1>4, <2>2
  <2> QED
    BY <2>1, <2>2

\* Without I PDUs there is nothing.
LEMMA CarriedNone ==
  ASSUME NEW q \in Seq(PDU), ~HasI(q)
  PROVE  Carried(q) = <<>> /\ Run(q, 0, 0)
<1>1. Run(q, 0, 0)
  BY DEF Run, HasI
<1>2. Carried(q) = [k \in 1..0 |-> q[0 + k].sdu]
  <2> DEFINE z == 0
  <2>1. z \in Nat /\ Run(q, z, z)
    BY <1>1
  <2> HIDE DEF z
  <2>2. Carried(q) = [k \in 1..z |-> q[z + k].sdu]
    BY <2>1, RunCarried
  <2> QED
    BY <2>2 DEF z
<1> QED
  BY <1>1, <1>2

\* The first PDU of a frame is handled.
LEMMA CarriedTail ==
  ASSUME NEW q \in Seq(PDU), q # <<>>, NEW lo \in Nat, NEW n \in Nat, Run(q, lo, n)
  PROVE  /\ Carried(q) \in Seq(Nat) /\ Carried(Tail(q)) \in Seq(Nat)
         /\ q[1].type # "I" => Carried(Tail(q)) = Carried(q)
         /\ q[1].type = "I" => q[1].sdu \in Nat /\ <<q[1].sdu>> \o Carried(Tail(q)) = Carried(q)
<1> DEFINE t == Tail(q)
<1>1. /\ t \in Seq(PDU) /\ Len(t) = Len(q) - 1 /\ Len(q) \in Nat \ {0}
      /\ DOMAIN q = 1..Len(q) /\ DOMAIN t = 1..(Len(q) - 1)
      /\ \A i \in 1..(Len(q) - 1) : t[i] = q[i + 1]
  BY TailSeq
<1> HIDE DEF t
<1>2. /\ lo + n <= Len(q)
      /\ \A i \in 1..Len(q) : q[i].type = "I" <=> lo < i /\ i <= lo + n
  BY <1>1 DEF Run
<1>3. \A i \in 1..Len(q) : q[i].type = "I" => q[i].sdu \in Nat
  <2>1. \A i \in 1..Len(q) : q[i] \in PDU
    BY <1>1
  <2> QED
    BY <2>1, PduFields
<1> DEFINE c == [k \in 1..n |-> q[lo + k].sdu]
<1>4. Carried(q) = c
  BY RunCarried
<1>5. c \in Seq(Nat) /\ Len(c) = n /\ \A k \in 1..n : c[k] = q[lo + k].sdu
  <2>1. \A k \in 1..n : q[lo + k].sdu \in Nat
    BY <1>1, <1>2, <1>3
  <2> QED
    BY <2>1
<1> HIDE DEF c
<1>6. CASE q[1].type = "I"
  <2>1. lo = 0 /\ n >= 1 /\ n - 1 \in Nat
    BY <1>1, <1>2, <1>6
  <2> DEFINE m == n - 1
             z == 0
             x == q[1].sdu
             e == [k \in 1..m |-> t[z + k].sdu]
  <2>2. z \in Nat /\ m \in Nat /\ Run(t, z, m)
    <3>1. \A i \in 1..(Len(q) - 1) : i + 1 \in 1..Len(q)
      BY <1>1
    <3> QED
      BY <1>1, <1>2, <2>1, <3>1 DEF Run
  <2> HIDE DEF m, z
  <2>3. Carried(t) = e
    BY <1>1, <2>2, RunCarried
  <2>4. e \in Seq(Nat) /\ Len(e) = m /\ \A k \in 1..m : e[k] = c[k + 1]
    <3>1. \A k \in 1..m : k + 1 \in 1..n /\ c[k + 1] \in Nat
      BY <1>5, <2>1 DEF m
    <3>2. \A k \in 1..m : t[z + k] = q[k + 1] /\ c[k + 1] = q[k + 1].sdu
      BY <1>1, <1>2, <1>5, <2>1, <3>1 DEF m, z
    <3>3. \A k \in 1..m : t[z + k].sdu \in Nat /\ e[k] = t[z + k].sdu
      BY <3>1, <3>2
    <3>4. e \in Seq(Nat) /\ Len(e) = m
      BY <2>2, <3>3
    <3> QED
      BY <3>2, <3>3, <3>4
  <2> HIDE DEF e
  <2>5. x = c[1] /\ x \in Nat
    BY <1>1, <1>3, <1>5, <1>6, <2>1
  <2> HIDE DEF x
  <2>6. <<x>> \o e = c
    <3>1. m = n - 1
      BY DEF m
    <3> QED
      BY <1>5, <2>1, <2>4, <2>5, <3>1
  <2> QED
    BY <1>4, <1>5, <1>6, <2>3, <2>4, <2>5, <2>6 DEF t, x
<1>7. CASE q[1].type # "I"
  <2>1. CASE n = 0
    <3>1. ~HasI(q) /\ ~HasI(t)
      <4>1. \A i \in 1..Len(q) : q[i].type # "I"
        BY <1>1, <1>2, <2>1
      <4>2. \A i \in 1..(Len(q) - 1) : i + 1 \in 1..Len(q) /\ t[i] = q[i + 1]
        BY <1>1
      <4>3. \A i \in 1..(Len(q) - 1) : t[i].type # "I"
        BY <4>1, <4>2
      <4> QED
        BY <1>1, <4>1, <4>3 DEF HasI
    <3>2. Carried(q) = <<>> /\ Carried(t) = <<>>
      BY <1>1, <3>1, CarriedNone
    <3>3. <<>> \in Seq(Nat)
      OBVIOUS
    <3> QED
      BY <1>7, <3>2, <3>3 DEF t
  <2>2. CASE n > 0
    <3>1. lo >= 1 /\ lo - 1 \in Nat
      BY <1>1, <1>2, <1>7, <2>2
    <3> DEFINE z == lo - 1
    <3>2. z \in Nat /\ Run(t, z, n)
      <4>1. \A i \in 1..(Len(q) - 1) : i + 1 \in 1..Len(q)
        BY <1>1
      <4> QED
        BY <1>1, <1>2, <3>1, <4>1 DEF Run
    <3> HIDE DEF z
    <3>3. Carried(t) = [k \in 1..n |-> t[z + k].sdu]
      BY <1>1, <3>2, RunCarried
    <3>4. \A k \in 1..n : t[z + k].sdu = q[lo + k].sdu
      BY <1>1, <1>2, <3>1 DEF z
    <3>5. Carried(t) = c
      BY <3>3, <3>4 DEF c
    <3> QED
      BY <1>4, <1>5, <1>7, <3>5 DEF t
  <2> QED
    BY <2>1, <2>2
<1> QED
  BY <1>6, <1>7

\* I PDUs behind and before others.
LEMMA CarriedFrame ==
  ASSUME NEW q \in Seq(PDU), NEW o \in Seq(PDU), NEW r \in Seq(PDU), ~HasI(q), ~HasI(r),
         \A j \in 1..Len(o) : o[j].type = "I"
  PROVE  /\ Carried(q \o o) = [j \in 1..Len(o) |-> o[j].sdu]
         /\ Carried((q \o o) \o r) = [j \in 1..Len(o) |-> o[j].sdu]
<1> DEFINE x == q \o o
           y == x \o r
           lo == Len(q)
           n == Len(o)
<1>1. /\ x \in Seq(PDU) /\ Len(x) = lo + n /\ lo \in Nat /\ n \in Nat
      /\ \A i \in 1..lo : x[i] = q[i] /\ q[i].type # "I"
      /\ \A j \in 1..n : x[lo + j] = o[j]
      /\ \A i \in lo + 1 .. lo + n : x[i] = o[i - lo]
      /\ DOMAIN x = 1..(lo + n)
  BY ConcatSeq DEF HasI
<1> HIDE DEF x, lo, n
<1>2. /\ y \in Seq(PDU) /\ Len(y) = (lo + n) + Len(r) /\ Len(r) \in Nat /\ DOMAIN y = 1..((lo + n) + Len(r))
      /\ \A i \in 1..(lo + n) : y[i] = x[i]
      /\ \A i \in (lo + n) + 1 .. (lo + n) + Len(r) : y[i] = r[i - (lo + n)]
      /\ \A i \in 1..Len(r) : r[i].type # "I"
  <2>1. /\ y \in Seq(PDU) /\ Len(y) = Len(x) + Len(r) /\ Len(r) \in Nat
        /\ DOMAIN y = 1..(Len(x) + Len(r)) /\ DOMAIN r = 1..Len(r)
        /\ \A i \in 1..Len(x) : y[i] = x[i]
        /\ \A i \in Len(x) + 1 .. Len(x) + Len(r) : y[i] = r[i - Len(x)]
    <3>1. x \in Seq(PDU)
      BY <1>1
    <3> QED
      BY <3>1, ConcatSeq, SMTT(40)
  <2> HIDE DEF y
  <2> QED
    BY <1>1, <2>1 DEF HasI
<1> HIDE DEF y
<1>3. \A j \in 1..n : o[j].type = "I"
  BY DEF n
<1>4. \A i \in 1..(lo + n) : x[i].type = "I" <=> lo < i /\ i <= lo + n
  <2> SUFFICES ASSUME NEW i \in 1..(lo + n) PROVE x[i].type = "I" <=> lo < i /\ i <= lo + n
    OBVIOUS
  <2>1. CASE i \in 1..lo
    <3>1. x[i].type # "I"
      BY <1>1, <2>1, Zenon
    <3>2. ~(lo < i)
      BY <1>1, <2>1
    <3> QED
      BY <3>1, <3>2
  <2>2. CASE i \in lo + 1 .. lo + n
    <3>1. i - lo \in 1..n
      BY <1>1, <2>2
    <3>2. x[i] = o[i - lo]
      BY <1>1, <2>2
    <3> QED
      BY <1>1, <1>3, <2>2, <3>1, <3>2
  <2> QED
    BY <1>1, <2>1, <2>2
<1>5. Run(x, lo, n)
  BY <1>1, <1>4 DEF Run
<1>6. Run(y, lo, n)
  <2>1. \A i \in 1..((lo + n) + Len(r)) : y[i].type = "I" <=> lo < i /\ i <= lo + n
    <3> SUFFICES ASSUME NEW i \in 1..((lo + n) + Len(r))
                 PROVE  y[i].type = "I" <=> lo < i /\ i <= lo + n
      OBVIOUS
    <3>1. CASE i \in 1..(lo + n)
      BY <1>2, <1>4, <3>1
    <3>2. CASE i \in (lo + n) + 1 .. (lo + n) + Len(r)
      <4>1. i - (lo + n) \in 1..Len(r) /\ y[i] = r[i - (lo + n)]
        BY <1>1, <1>2, <3>2
      <4> QED
        BY <1>1, <1>2, <3>2, <4>1
    <3> QED
      BY <1>1, <1>2, <3>1, <3>2
  <2> QED
    BY <1>1, <1>2, <2>1 DEF Run
<1>7. Carried(x) = [j \in 1..n |-> x[lo + j].sdu]
  BY <1>1, <1>5, RunCarried
<1>8. Carried(y) = [j \in 1..n |-> y[lo + j].sdu]
  BY <1>1, <1>2, <1>6, RunCarried
<1>9. \A j \in 1..n : x[lo + j] = o[j] /\ y[lo + j] = o[j]
  <2>1. \A j \in 1..n : lo + j \in 1..(lo + n)
    BY <1>1
  <2> QED
    BY <1>1, <1>2, <2>1
<1>10. Carried(x) = [j \in 1..n |-> o[j].sdu] /\ Carried(y) = [j \in 1..n |-> o[j].sdu]
  BY <1>7, <1>8, <1>9
<1> QED
  BY <1>10 DEF x, y, n

-------------------------------------------------------------------------------
(* What sending leaves of the SDUs.                                          *)

\* From d to e no SDU moves; a connection that ends has sent everything, and waited.
Still(d, e) ==
  /\ e.i_xmit_q = d.i_xmit_q /\ e.i_rx_q = d.i_rx_q /\ e.flags \subseteq d.flags
  /\ e.next_tx_seq = d.next_tx_seq /\ e.rcvd_ack_seq = d.rcvd_ack_seq
  /\ \/ e.state = d.state
     \/ /\ d.state = "CONNECTED" /\ e.state = "W4_REMOTE_DM" /\ "PENDING_DISC" \in d.flags
        /\ d.i_xmit_q = <<>> /\ d.next_tx_seq = d.rcvd_ack_seq

\* One after the other.
LEMMA StillOn ==
  ASSUME NEW d, NEW e, NEW f, Still(d, e), Still(e, f)
  PROVE  Still(d, f)
BY DEF Still

\* The DISC that waited goes out, or nothing does.
LEMMA CheckPendingDiscStill ==
  ASSUME NEW d \in Dlcb
  PROVE  Still(d, CheckPendingDisc(d))
<1> DEFINE f == d.flags \ {"PENDING_DISC"}
           e == [d EXCEPT !.flags = f]
           q == Append(d.sig_xmit_q, Disc)
           g == [d EXCEPT !.flags = f, !.state = "W4_REMOTE_DM", !.sig_xmit_q = q]
<1>1. SendDisc(e) = g
  BY DEF SendDisc, Queue, Disc, Dlcb
<1>2. f \subseteq d.flags /\ e.state = d.state
  BY DEF Dlcb
<1>3. \/ CheckPendingDisc(d) = d
      \/ CheckPendingDisc(d) = e
      \/ /\ Acked(d) /\ d.state = "CONNECTED" /\ "PENDING_DISC" \in d.flags
         /\ CheckPendingDisc(d) = g
  BY <1>1, <1>2, Zenon DEF CheckPendingDisc
<1> HIDE DEF f, q
<1>4. Still(d, d)
  BY Fields DEF Still
<1>5. Still(d, e)
  BY <1>2 DEF Still, Dlcb
<1>6. Acked(d) /\ d.state = "CONNECTED" /\ "PENDING_DISC" \in d.flags => Still(d, g)
  BY <1>2 DEF Still, Dlcb, Acked
<1> QED
  BY <1>3, <1>4, <1>5, <1>6

\* llcp_dlc_send_rr_rnr: nothing of the data changes.
LEMMA SendRrRnrStill ==
  ASSUME NEW d \in Dlcb
  PROVE  Still(d, SendRrRnr(d))
<1> DEFINE fl == d.flags \ {"PENDING_RR_RNR"}
           rnr == [type |-> "RNR", nr |-> d.sent_ack_seq]
           rr == [type |-> "RR", nr |-> d.next_rx_seq]
           qn == Append(d.sig_xmit_q, rnr)
           qr == Append(d.sig_xmit_q, rr)
           en == [d EXCEPT !.flags = fl, !.sig_xmit_q = qn]
           er == [d EXCEPT !.flags = fl, !.sent_ack_seq = d.next_rx_seq, !.sig_xmit_q = qr]
           e == [d EXCEPT !.flags = fl]
           a == [e EXCEPT !.sent_ack_seq = d.next_rx_seq]
<1>1. SendRrRnr(d) = d \/ SendRrRnr(d) = Queue(e, rnr) \/ SendRrRnr(d) = Queue(a, rr)
  BY Zenon DEF SendRrRnr, e, a, fl
<1>2. Queue(e, rnr) = en
  BY DEF Queue, Dlcb
<1>3. Queue(a, rr) = er
  BY DEF Queue, Dlcb
<1>4. fl \subseteq d.flags
  OBVIOUS
<1> HIDE DEF fl, qn, qr, e, a
<1>5. Still(d, en) /\ Still(d, er) /\ Still(d, d)
  BY <1>4 DEF Still, Dlcb
<1> QED
  BY <1>1, <1>2, <1>3, <1>5

\* llcp_dlc_check_to_send_rr_rnr: neither here.
LEMMA CheckToSendRrRnrStill ==
  ASSUME NEW d \in Dlcb
  PROVE  Still(d, CheckToSendRrRnr(d))
<1>1. Still(d, d)
  BY Fields DEF Still
<1>2. CASE d.state = "CONNECTED"
  <2>1. PICK o : Moves(d, SendRrRnr(d), o)
    BY <1>2, SendRrRnrMoves
  <2> DEFINE e == SendRrRnr(d)
  <2>2. e \in Dlcb /\ Still(d, e)
    BY <2>1, SendRrRnrStill DEF Moves
  <2>3. CheckToSendRrRnr(d) = CheckPendingDisc(e)
    BY <1>2 DEF CheckToSendRrRnr
  <2> HIDE DEF e
  <2> QED
    BY <2>2, <2>3, CheckPendingDiscStill, StillOn
<1> QED
  BY <1>1, <1>2 DEF CheckToSendRrRnr

\* llcp_dlc_get_next_pdu with nothing to send.
LEMMA NoPduStill ==
  ASSUME NEW d \in Dlcb
  PROVE  Still(d, NoPdu(d))
<1> DEFINE e == CheckPendingDisc(d)
           fl == e.flags \ {"NOTIFY_TX_DONE"}
           f == [e EXCEPT !.flags = fl]
<1>1. NoPdu(d) = d \/ NoPdu(d) = f
  BY DEF NoPdu
<1>2. \E o : Moves(d, e, o)
  BY CheckPendingDiscMoves
<1>3. e \in Dlcb /\ Still(d, e) /\ Still(d, d)
  BY <1>2, CheckPendingDiscStill, Fields DEF Moves, Still
<1> HIDE DEF e
<1>4. fl \subseteq e.flags
  OBVIOUS
<1> HIDE DEF fl
<1>5. Still(e, f)
  BY <1>3, <1>4 DEF Still, Dlcb
<1> QED
  BY <1>1, <1>3, <1>5, StillOn

\* The end of congestion is no change of the data.
LEMMA CheckUncongestedStill ==
  ASSUME NEW s, NEW d \in Dlcb
  PROVE  Still(d, CheckUncongested(s, d))
<1> DEFINE t == d.told /\ d.remote_busy
           e == [d EXCEPT !.is_tx_congested = FALSE, !.told = t]
<1>1. CheckUncongested(s, d) = d \/ CheckUncongested(s, d) = e
  BY DEF CheckUncongested
<1> HIDE DEF t
<1>2. Still(d, e) /\ Still(d, d)
  BY DEF Still, Dlcb
<1> QED
  BY <1>1, <1>2

\* The window is smaller than the modulus: with an I PDU just sent something is
\* unacknowledged.
LEMMA SentUnacked ==
  ASSUME NEW s \in Station, NEW d \in Dlcb, NEW k \in InfoCounts(s, d), k > 0
  PROVE  (d.next_tx_seq + k) % SeqMod # d.rcvd_ack_seq
<1>1. /\ Peer(s) \in Station /\ Rw[Peer(s)] \in Nat /\ Rw[Peer(s)] < SeqMod
      /\ d.next_tx_seq \in Seqno /\ d.rcvd_ack_seq \in Seqno
      /\ k \in 0..Len(d.i_xmit_q) /\ Len(d.i_xmit_q) \in Nat
  BY Peers, Thresholds, Fields, InfoCountsRange
<1>2. k \in Nat /\ RwOpen(s, d, k)
  BY <1>1 DEF InfoCounts
<1>3. Minus(d.next_tx_seq, d.rcvd_ack_seq) + k <= Rw[Peer(s)]
  BY <1>2 DEF RwOpen
<1>4. Minus(d.next_tx_seq, d.rcvd_ack_seq) \in Nat /\ SeqMod \in Nat
  BY <1>1, MinusIs, SeqModAssumption
<1>5. Minus(d.next_tx_seq, d.rcvd_ack_seq) + k < SeqMod
  BY <1>1, <1>2, <1>3, <1>4
<1>6. Minus((d.next_tx_seq + k) % SeqMod, d.rcvd_ack_seq) = Minus(d.next_tx_seq, d.rcvd_ack_seq) + k
  BY <1>1, <1>2, <1>5, MinusGrows
<1>7. Minus(d.rcvd_ack_seq, d.rcvd_ack_seq) = 0
  BY <1>1, MinusIs
<1> QED
  BY <1>2, <1>4, <1>6, <1>7

\* The SDUs of a frame's I PDUs and those that stay are those that were queued.
LEMMA InfosShip ==
  ASSUME NEW d \in Dlcb, NEW k \in 0..Len(d.i_xmit_q)
  PROVE  LET e == AfterInfoPdus([d EXCEPT !.sig_xmit_q = <<>>], k)
             o == InfoPdus(d, k)
         IN  /\ [j \in 1..Len(o) |-> o[j].sdu] \o e.i_xmit_q = d.i_xmit_q
             /\ e.i_rx_q = d.i_rx_q /\ e.flags = d.flags
<1> DEFINE o == InfoPdus(d, k)
           d0 == [d EXCEPT !.sig_xmit_q = <<>>]
           e == AfterInfoPdus(d0, k)
           c == [j \in 1..k |-> d.i_xmit_q[j]]
           t == SubSeq(d.i_xmit_q, k + 1, Len(d.i_xmit_q))
<1>1. d.i_xmit_q \in Seq(Nat) /\ Len(d.i_xmit_q) \in Nat /\ k \in Nat
  BY Fields
<1>2. Len(o) = k /\ \A j \in 1..k : o[j].sdu = d.i_xmit_q[j]
  <2>1. Len(o) = k
    BY InfoPdusType
  <2> QED
    BY <2>1 DEF InfoPdus
<1>3. [j \in 1..Len(o) |-> o[j].sdu] = c
  BY <1>2
<1>4. e.i_xmit_q = t /\ e.i_rx_q = d.i_rx_q /\ e.flags = d.flags
  <2>1. d0.i_xmit_q = d.i_xmit_q /\ d0.i_rx_q = d.i_rx_q /\ d0.flags = d.flags /\ d0 \in Dlcb
    <3>1. <<>> \in Seq(PDU)
      OBVIOUS
    <3> QED
      BY <3>1 DEF Dlcb
  <2> HIDE DEF d0
  <2> DEFINE tx == (d0.next_tx_seq + k) % SeqMod
             q == SubSeq(d0.i_xmit_q, k + 1, Len(d0.i_xmit_q))
             ra == IF k = 0 \/ FlowOff(d0) THEN d0.sent_ack_seq ELSE d0.next_rx_seq
             f == [d0 EXCEPT !.next_tx_seq = tx, !.i_xmit_q = q, !.sent_ack_seq = ra]
  <2>2. e = f
    BY DEF AfterInfoPdus
  <2>3. q = t
    BY <2>1
  <2> HIDE DEF tx, q, ra, t
  <2>4. f.i_xmit_q = q /\ f.i_rx_q = d0.i_rx_q /\ f.flags = d0.flags
    BY <2>1 DEF Dlcb
  <2> QED
    BY <2>1, <2>2, <2>3, <2>4
<1>5. c \o t = d.i_xmit_q
  <2>1. c \in Seq(Nat) /\ Len(c) = k /\ \A j \in 1..k : c[j] = d.i_xmit_q[j]
    BY <1>1
  <2>2. k + 1 \in 1..(Len(d.i_xmit_q) + 1) /\ Len(d.i_xmit_q) \in (k + 1 - 1)..Len(d.i_xmit_q)
    BY <1>1
  <2>3. /\ t \in Seq(Nat) /\ Len(t) = Len(d.i_xmit_q) - k
        /\ \A i \in 1..(Len(d.i_xmit_q) - k) : t[i] = d.i_xmit_q[k + i]
    <3> DEFINE a == k + 1
               b == Len(d.i_xmit_q)
    <3>1. a \in 1..(Len(d.i_xmit_q) + 1) /\ b \in (a - 1)..Len(d.i_xmit_q)
      BY <2>2
    <3>2. b - a + 1 = Len(d.i_xmit_q) - k /\ \A i \in Nat : a + i - 1 = k + i
      BY <1>1
    <3>3. t = SubSeq(d.i_xmit_q, a, b)
      BY DEF t
    <3> HIDE DEF a, b, t
    <3>4. /\ t \in Seq(Nat) /\ Len(t) = b - a + 1
          /\ \A i \in 1..(b - a + 1) : t[i] = d.i_xmit_q[a + i - 1]
      BY <1>1, <3>1, <3>3, SubSeqSeq
    <3>5. \A i \in 1..(b - a + 1) : i \in Nat /\ a + i - 1 = k + i
      BY <3>2
    <3> QED
      BY <3>2, <3>4, <3>5
  <2> HIDE DEF c, t
  <2> DEFINE r == c \o t
  <2>4. /\ r \in Seq(Nat) /\ Len(r) = Len(c) + Len(t)
        /\ \A i \in 1..Len(c) : r[i] = c[i]
        /\ \A i \in Len(c) + 1 .. Len(c) + Len(t) : r[i] = t[i - Len(c)]
    <3>1. c \in Seq(Nat) /\ t \in Seq(Nat)
      BY <2>1, <2>3
    <3>2. Len(c) \in Nat /\ Len(t) \in Nat
      BY <1>1, <2>1, <2>3
    <3>3. /\ r \in Seq(Nat) /\ Len(r) = Len(c) + Len(t)
          /\ \A i \in 1..(Len(c) + Len(t)) : r[i] = IF i <= Len(c) THEN c[i] ELSE t[i - Len(c)]
      BY <3>1, ConcatProperties
    <3> DEFINE m == Len(c)
               n == Len(t)
    <3> HIDE DEF r, m, n
    <3>4. m \in Nat /\ n \in Nat
      BY <3>2 DEF m, n
    <3>5. \A i \in 1..(m + n) : r[i] = IF i <= m THEN c[i] ELSE t[i - m]
      BY <3>3 DEF m, n
    <3>6. \A i \in 1..m : r[i] = c[i]
      BY <3>4, <3>5
    <3>7. \A i \in m + 1 .. m + n : r[i] = t[i - m]
      BY <3>4, <3>5
    <3> QED
      BY <3>3, <3>6, <3>7 DEF m, n
  <2> HIDE DEF r
  <2>5. Len(r) = Len(d.i_xmit_q)
    BY <1>1, <2>1, <2>3, <2>4
  <2>6. \A i \in 1..Len(d.i_xmit_q) : r[i] = d.i_xmit_q[i]
    <3> SUFFICES ASSUME NEW i \in 1..Len(d.i_xmit_q) PROVE r[i] = d.i_xmit_q[i]
      OBVIOUS
    <3>1. CASE i \in 1..k
      BY <2>1, <2>4, <3>1
    <3>2. CASE i \in k + 1 .. Len(d.i_xmit_q)
      <4>1. i - k \in 1..(Len(d.i_xmit_q) - k) /\ k + (i - k) = i
        BY <1>1, <3>2
      <4>2. r[i] = t[i - k]
        BY <1>1, <2>1, <2>3, <2>4, <3>2
      <4> QED
        BY <2>3, <4>1, <4>2
    <3> QED
      BY <1>1, <3>1, <3>2
  <2>7. r = d.i_xmit_q
    BY <1>1, <2>4, <2>5, <2>6, SeqEqual
  <2> QED
    BY <2>7 DEF r
<1> QED
  BY <1>3, <1>4, <1>5 DEF e, o, d0

\* A frame takes SDUs off the transmit queue and leaves the others.
LEMMA FramesShip ==
  ASSUME NEW s \in Station, NEW d \in Dlcb, ~HasI(d.sig_xmit_q), NEW f \in Frames(s, d)
  PROVE  /\ f.d \in Dlcb /\ f.pdus \in Seq(PDU)
         /\ Carried(f.pdus) \o f.d.i_xmit_q = d.i_xmit_q
         /\ f.d.i_rx_q = d.i_rx_q
         /\ \/ f.d.state = d.state
            \/ /\ d.state = "CONNECTED" /\ f.d.state = "W4_REMOTE_DM"
               /\ d.i_xmit_q = <<>> /\ "PENDING_DISC" \in d.flags
<1>1. PICK k \in InfoCounts(s, d), fits \in BOOLEAN : f = Frame(d, k, fits)
  BY FramesAre
<1> DEFINE o == InfoPdus(d, k)
           one == d.sig_xmit_q \o o
           d1 == AfterInfoPdus([d EXCEPT !.sig_xmit_q = <<>>], k)
           n1 == IF one = <<>> THEN NoPdu(d1) ELSE d1
           d2 == CheckToSendRrRnr(n1)
           d3 == [d2 EXCEPT !.sig_xmit_q = <<>>]
           all == one \o d2.sig_xmit_q
           c == [j \in 1..Len(o) |-> o[j].sdu]
<1>2. f = [pdus |-> all, d |-> d3] \/ f = [pdus |-> one, d |-> d2]
  BY <1>1, Zenon DEF Frame
<1>3. k \in 0..Len(d.i_xmit_q) /\ d.sig_xmit_q \in Seq(PDU)
  BY InfoCountsRange, Fields
<1>4. /\ o \in Seq(PDU) /\ Len(o) = k /\ (\A j \in 1..k : o[j].type = "I")
      /\ d1 \in Dlcb /\ d1.sig_xmit_q = <<>> /\ d1.state = d.state
      /\ d1.next_tx_seq = (d.next_tx_seq + k) % SeqMod /\ d1.rcvd_ack_seq = d.rcvd_ack_seq
      /\ k = 0 => d1 = [d EXCEPT !.sig_xmit_q = <<>>]
  BY <1>3, InfosAre, Zenon
<1>5. c \o d1.i_xmit_q = d.i_xmit_q /\ d1.i_rx_q = d.i_rx_q /\ d1.flags = d.flags
  BY <1>3, InfosShip, Zenon
<1>6. k > 0 => d1.next_tx_seq # d1.rcvd_ack_seq
  BY <1>4, SentUnacked
<1>7. k = 0 => d1.i_xmit_q = d.i_xmit_q
  BY <1>4 DEF Dlcb
<1> HIDE DEF o, d1
<1>8. PICK x : Moves(d1, n1, x)
  <2>1. \E x : Moves(d1, NoPdu(d1), x)
    BY <1>4, NoPduMoves
  <2>2. Moves(d1, d1, <<>>)
    BY <1>4, Stays DEF Keeps, SameNumbers
  <2> QED
    BY <2>1, <2>2
<1>9. Still(d1, n1)
  <2>1. Still(d1, NoPdu(d1))
    BY <1>4, NoPduStill
  <2>2. Still(d1, d1)
    BY <1>4, Fields DEF Still
  <2> QED
    BY <2>1, <2>2
<1> HIDE DEF n1
<1>10. n1 \in Dlcb
  BY <1>8 DEF Moves
<1>11. PICK y : Moves(n1, d2, y)
  BY <1>10, CheckToSendRrRnrMoves
<1>12. Still(d1, d2)
  BY <1>9, <1>10, CheckToSendRrRnrStill, StillOn
<1> HIDE DEF d2
<1>13. d2 \in Dlcb /\ d2.sig_xmit_q \in Seq(PDU)
  BY <1>11, Fields DEF Moves
<1>14. ~HasI(d2.sig_xmit_q)
  <2>1. /\ n1.sig_xmit_q = <<>> \o x /\ ~HasI(x) /\ x \in Seq(PDU)
        /\ d2.sig_xmit_q = n1.sig_xmit_q \o y /\ ~HasI(y) /\ y \in Seq(PDU)
    BY <1>4, <1>8, <1>11 DEF Moves
  <2>2. <<>> \o x = x
    BY <2>1
  <2>3. \A u, v \in Seq(PDU) : HasI(u \o v) => HasI(u) \/ HasI(v)
    BY InfoParts
  <2> QED
    BY <2>1, <2>2, <2>3
<1>15. /\ one \in Seq(PDU) /\ all \in Seq(PDU) /\ Carried(one) = c /\ Carried(all) = c
  <2>1. \A j \in 1..Len(o) : o[j].type = "I"
    BY <1>4
  <2>2. one \in Seq(PDU) /\ all \in Seq(PDU)
    BY <1>3, <1>4, <1>13
  <2> QED
    BY <1>3, <1>4, <1>13, <1>14, <2>1, <2>2, CarriedFrame, Zenon
<1> HIDE DEF one, all, c
<1>16. /\ d3 \in Dlcb /\ d3.i_xmit_q = d2.i_xmit_q /\ d3.i_rx_q = d2.i_rx_q /\ d3.state = d2.state
  <2>1. <<>> \in Seq(PDU)
    OBVIOUS
  <2> QED
    BY <1>13, <2>1 DEF Dlcb
<1> HIDE DEF d3
<1>17. /\ c \o d2.i_xmit_q = d.i_xmit_q /\ d2.i_rx_q = d.i_rx_q
  BY <1>5, <1>12 DEF Still
<1>18. \/ d2.state = d.state
       \/ /\ d.state = "CONNECTED" /\ d2.state = "W4_REMOTE_DM"
          /\ d.i_xmit_q = <<>> /\ "PENDING_DISC" \in d.flags
  <2>1. CASE d2.state = d1.state
    BY <1>4, <2>1
  <2>2. CASE /\ d1.state = "CONNECTED" /\ d2.state = "W4_REMOTE_DM" /\ "PENDING_DISC" \in d1.flags
             /\ d1.i_xmit_q = <<>> /\ d1.next_tx_seq = d1.rcvd_ack_seq
    <3>1. k = 0
      BY <1>3, <1>6, <2>2
    <3> QED
      BY <1>4, <1>5, <1>7, <2>2, <3>1
  <2> QED
    BY <1>12, <2>1, <2>2 DEF Still
<1>19. CASE f = [pdus |-> all, d |-> d3]
  <2>1. f.pdus = all /\ f.d = d3
    BY <1>19
  <2> QED
    BY <1>15, <1>16, <1>17, <1>18, <2>1
<1>20. CASE f = [pdus |-> one, d |-> d2]
  <2>1. f.pdus = one /\ f.d = d2
    BY <1>20
  <2> QED
    BY <1>13, <1>15, <1>17, <1>18, <2>1
<1> QED
  BY <1>2, <1>19, <1>20

\* From d and the link l station s goes on to e and the link m: the SDUs that went are
\* on the link, and the peer is not touched.
Ships(s, d, l, e, m) ==
  /\ Ahead(m, s) = Ahead(l, s)
  /\ Carried(Ahead(m, Peer(s))) \o e.i_xmit_q = Carried(Ahead(l, Peer(s))) \o d.i_xmit_q
  /\ e.i_rx_q = d.i_rx_q
  /\ \/ e.state = d.state
     \/ /\ d.state = "CONNECTED" /\ e.state = "W4_REMOTE_DM"
        /\ d.i_xmit_q = <<>> /\ "PENDING_DISC" \in d.flags

\* What CheckSend moves into a frame leaves the queue of SDUs at its front.
LEMMA CheckSendShips ==
  ASSUME NEW s \in Station, NEW d \in Dlcb, ~HasI(d.sig_xmit_q), NEW l \in Link,
         NEW o \in CheckSend(s, d, l)
  PROVE  Ships(s, d, l, o.d, o.link)
<1>1. CASE l # Turn(s)
  <2>1. o = [d |-> d, link |-> l]
    BY <1>1 DEF CheckSend
  <2>2. o.d = d /\ o.link = l
    BY <2>1
  <2> QED
    BY <2>2 DEF Ships
<1>2. CASE l = Turn(s)
  <2> DEFINE p == Peer(s)
  <2>0. p \in Station /\ p # s /\ <<>> \in Seq(PDU) /\ d.i_xmit_q \in Seq(Nat)
    BY Peers, Fields
  <2>1. Ahead(l, s) = <<>> /\ Ahead(l, p) = <<>>
    BY <1>2 DEF Turn, Ahead
  <2>2. \A q : Ahead(Pass(s, q), s) = <<>> /\ Ahead(Pass(s, q), p) = q
    BY <2>0 DEF Pass, Ahead
  <2>3. PICK f \in Frames(s, d) :
          o = IF f.pdus # <<>>
                THEN [d |-> CheckUncongested(s, f.d), link |-> Pass(s, f.pdus)]
                ELSE [d |-> f.d, link |-> IF s \in Patient THEN l ELSE Pass(s, <<>>)]
    BY <1>2, Zenon DEF CheckSend
  <2>4. /\ f.d \in Dlcb /\ f.pdus \in Seq(PDU)
        /\ Carried(f.pdus) \o f.d.i_xmit_q = d.i_xmit_q
        /\ f.d.i_rx_q = d.i_rx_q
        /\ \/ f.d.state = d.state
           \/ /\ d.state = "CONNECTED" /\ f.d.state = "W4_REMOTE_DM"
              /\ d.i_xmit_q = <<>> /\ "PENDING_DISC" \in d.flags
    BY FramesShip, Zenon
  <2>5. Carried(<<>>) = <<>>
    <3>1. ~HasI(<<>>)
      BY DEF HasI
    <3> QED
      BY <2>0, <3>1, CarriedNone
  <2>6. <<>> \o d.i_xmit_q = d.i_xmit_q
    BY <2>0
  <2>7. CASE f.pdus # <<>>
    <3> DEFINE e == CheckUncongested(s, f.d)
    <3>1. o.d = e /\ o.link = Pass(s, f.pdus)
      BY <2>3, <2>7
    <3>2. Still(f.d, e) /\ e.state = f.d.state
      <4>1. Still(f.d, e)
        BY <2>4, CheckUncongestedStill
      <4>2. Moves(f.d, e, <<>>)
        BY <2>4, CheckUncongestedMoves
      <4>3. e.state = f.d.state
        BY <2>4 DEF CheckUncongested, Dlcb
      <4> QED
        BY <4>1, <4>3
    <3> HIDE DEF e
    <3>3. e.i_xmit_q = f.d.i_xmit_q /\ e.i_rx_q = f.d.i_rx_q
      BY <3>2 DEF Still
    <3> QED
      BY <2>1, <2>2, <2>4, <2>5, <2>6, <3>1, <3>2, <3>3 DEF Ships
  <2>8. CASE f.pdus = <<>>
    <3>1. o.d = f.d /\ o.link \in {l, Pass(s, <<>>)}
      BY <2>3, <2>8
    <3>2. Ahead(o.link, s) = <<>> /\ Ahead(o.link, p) = <<>>
      BY <2>1, <2>2, <3>1
    <3> QED
      BY <2>1, <2>4, <2>5, <2>6, <2>8, <3>1, <3>2 DEF Ships
  <2> QED
    BY <2>7, <2>8
<1> QED
  BY <1>1, <1>2

-------------------------------------------------------------------------------
(* The steps of the abstract specification.                                  *)

Up(s) == dl[s].state = "CONNECTED"

\* What station s does for the two applications.
Idles(s)   == Up(s)' = Up(s) /\ Pipe(Peer(s))' = Pipe(Peer(s)) /\ Pipe(s)' = Pipe(s) /\ sent' = sent
Opens(s)   == /\ ~Up(s) /\ Up(s)' /\ Pipe(s) = <<>>
              /\ Pipe(Peer(s))' = Pipe(Peer(s)) /\ Pipe(s)' = Pipe(s) /\ sent' = sent
Sends(s)   == /\ Up(s) /\ Up(s)' /\ sent' = [sent EXCEPT ![s] = @ + 1]
              /\ Pipe(Peer(s))' = Pipe(Peer(s))
              /\ \/ Pipe(s)' = Append(Pipe(s), sent[s] + 1)
                 \/ Pipe(s)' = Pipe(s) /\ ~Up(Peer(s))
Reads(s)   == /\ Up(s)' = Up(s) /\ Pipe(Peer(s)) # <<>>
              /\ Pipe(Peer(s))' = Tail(Pipe(Peer(s))) /\ Pipe(s)' = Pipe(s) /\ sent' = sent
Closes(s)  == /\ Up(s) /\ ~Up(s)' /\ Pipe(Peer(s))' \in Data!Cut(Pipe(Peer(s)))
              /\ Pipe(s)' = Pipe(s) /\ sent' = sent
Forgets(s) == /\ ~Up(s) /\ ~Up(s)' /\ Pipe(Peer(s))' = <<>> /\ Pipe(s)' = Pipe(s) /\ sent' = sent

Maps(s) == Idles(s) \/ Opens(s) \/ Sends(s) \/ Reads(s) \/ Closes(s) \/ Forgets(s)

\* What a station does for the applications is a step of the abstract queues.
LEMMA MapsData ==
  ASSUME Undisturbed, Undisturbed', NEW s \in Station, dl'[Peer(s)] = dl[Peer(s)],
         sent \in [Station -> Nat], Maps(s)
  PROVE  [Data!Next]_(Data!vars)
<1> DEFINE p == Peer(s)
           up == [t \in Station |-> Undisturbed /\ dl[t].state = "CONNECTED"]
           pipe == [t \in Station |-> IF Undisturbed THEN Pipe(t) ELSE <<>>]
           cnt == [t \in Station |-> IF Undisturbed THEN sent[t] ELSE 0]
<1>1. p \in Station /\ p # s /\ Peer(p) = s /\ Station = {s, p}
  BY Peers
<1>2. Up(p)' = Up(p)
  BY DEF Up
<1>3. /\ up = [t \in Station |-> Up(t)] /\ up' = [t \in Station |-> Up(t)']
      /\ pipe = [t \in Station |-> Pipe(t)] /\ pipe' = [t \in Station |-> Pipe(t)']
      /\ cnt = sent
  BY DEF Up
<1> HIDE DEF up, pipe, cnt
<1>4. CASE Idles(s)
  <2>1. up' = up
    BY <1>1, <1>2, <1>3, <1>4, Zenon DEF Idles
  <2>2. pipe' = pipe
    BY <1>1, <1>3, <1>4 DEF Idles
  <2>3. cnt' = cnt
    BY <1>4 DEF cnt, Idles
  <2> QED
    BY <2>1, <2>2, <2>3 DEF Data!vars, up, pipe, cnt
<1>5. CASE Opens(s)
  <2>1. up' = [up EXCEPT ![s] = TRUE] /\ ~up[s]
    BY <1>1, <1>2, <1>3, <1>5 DEF Opens
  <2>2. pipe' = pipe /\ pipe[s] = <<>>
    BY <1>1, <1>3, <1>5 DEF Opens
  <2>3. cnt' = cnt
    BY <1>5 DEF cnt, Opens
  <2>4. Data!Open(s)
    BY <2>1, <2>2, <2>3 DEF Data!Open, up, pipe, cnt
  <2> QED
    BY <2>4 DEF Data!Next
<1>6. CASE Sends(s)
  <2>1. up' = up /\ up[s] /\ (up[p] <=> Up(p))
    <3>1. \A t \in Station : Up(t)' = Up(t)
      BY <1>1, <1>2, <1>6 DEF Sends, Up
    <3>2. up[s] /\ (up[p] <=> Up(p))
      BY <1>1, <1>3, <1>6 DEF Sends
    <3> QED
      BY <1>3, <3>1, <3>2, Zenon
  <2>2. cnt' = [cnt EXCEPT ![s] = @ + 1] /\ cnt'[s] = sent[s] + 1
    BY <1>1, <1>6 DEF cnt, Sends
  <2>3. pipe' = [pipe EXCEPT ![s] = Append(@, cnt'[s])] \/ (~up[p] /\ pipe' = pipe)
    BY <1>1, <1>3, <1>6, <2>1, <2>2 DEF Sends
  <2>4. Data!Send(s)
    BY <2>1, <2>2, <2>3 DEF Data!Send, up, pipe, cnt
  <2> QED
    BY <2>4 DEF Data!Next
<1>7. CASE Reads(s)
  <2>1. up' = up
    BY <1>1, <1>2, <1>3, <1>7, Zenon DEF Reads
  <2>2. pipe' = [pipe EXCEPT ![p] = Tail(@)] /\ pipe[p] # <<>>
    BY <1>1, <1>3, <1>7 DEF Reads
  <2>3. cnt' = cnt
    BY <1>7 DEF cnt, Reads
  <2>4. Data!Read(s)
    BY <2>1, <2>2, <2>3 DEF Data!Read, up, pipe, cnt
  <2> QED
    BY <2>4 DEF Data!Next
<1>8. CASE Closes(s)
  <2>1. up' = [up EXCEPT ![s] = FALSE] /\ up[s]
    <3>1. Up(s) /\ Up(s)' = FALSE /\ \A t \in Station : t # s => Up(t)' = Up(t)
      BY <1>1, <1>2, <1>8 DEF Closes, Up
    <3>2. up[s]
      BY <1>3, <3>1
    <3>3. up' = [up EXCEPT ![s] = FALSE]
      BY <1>3, <3>1, Zenon
    <3> QED
      BY <3>2, <3>3
  <2>2. \E q \in Data!Cut(pipe[p]) : pipe' = [pipe EXCEPT ![p] = q]
    BY <1>1, <1>3, <1>8 DEF Closes
  <2>3. cnt' = cnt
    BY <1>8 DEF cnt, Closes
  <2>4. Data!Close(s)
    BY <2>1, <2>2, <2>3 DEF Data!Close, up, pipe, cnt
  <2> QED
    BY <2>4 DEF Data!Next
<1>9. CASE Forgets(s)
  <2>1. up' = up /\ ~up[s]
    <3>1. \A t \in Station : Up(t)' = Up(t)
      BY <1>1, <1>2, <1>9 DEF Forgets, Up
    <3>2. ~up[s]
      BY <1>3, <1>9 DEF Forgets
    <3> QED
      BY <1>3, <3>1, <3>2, Zenon
  <2>2. pipe' = [pipe EXCEPT ![p] = <<>>]
    BY <1>1, <1>3, <1>9 DEF Forgets
  <2>3. cnt' = cnt
    BY <1>9 DEF cnt, Forgets
  <2>4. Data!Forget(s)
    BY <2>1, <2>2, <2>3 DEF Data!Forget, up, pipe, cnt
  <2> QED
    BY <2>4 DEF Data!Next
<1> QED
  BY <1>4, <1>5, <1>6, <1>7, <1>8, <1>9 DEF Maps

\* What is handled of a line is a line.
LEMMA RunPart ==
  ASSUME NEW q \in Seq(PDU), NEW r \in Seq(PDU), ~HasI(r), NEW lo \in Nat, NEW n \in Nat,
         Run(q \o r, lo, n)
  PROVE  \E m \in Nat : Run(q, m, n)
<1> DEFINE x == q \o r
<1>1. /\ Len(x) = Len(q) + Len(r) /\ Len(q) \in Nat /\ Len(r) \in Nat
      /\ DOMAIN q = 1..Len(q) /\ DOMAIN x = 1..(Len(q) + Len(r))
      /\ \A i \in 1..Len(q) : x[i] = q[i]
      /\ \A j \in 1..Len(r) : x[Len(q) + j] = r[j] /\ r[j].type # "I"
  BY ConcatSeq DEF HasI
<1>2. /\ lo + n <= Len(x)
      /\ \A i \in 1..(Len(q) + Len(r)) : x[i].type = "I" <=> lo < i /\ i <= lo + n
  BY <1>1 DEF Run
<1> HIDE DEF x
<1>3. \A i \in 1..Len(q) : q[i].type = "I" <=> lo < i /\ i <= lo + n
  <2>1. \A i \in 1..Len(q) : i \in 1..(Len(q) + Len(r))
    BY <1>1
  <2> QED
    BY <1>1, <1>2, <2>1
<1>4. \A i \in Len(q) + 1 .. Len(q) + Len(r) : ~(lo < i /\ i <= lo + n)
  <2> SUFFICES ASSUME NEW i \in Len(q) + 1 .. Len(q) + Len(r) PROVE ~(lo < i /\ i <= lo + n)
    OBVIOUS
  <2>1. i - Len(q) \in 1..Len(r) /\ Len(q) + (i - Len(q)) = i /\ i \in 1..(Len(q) + Len(r))
    BY <1>1
  <2>2. x[i].type # "I"
    BY <1>1, <2>1
  <2> QED
    BY <1>2, <2>1, <2>2
<1>5. CASE n = 0
  <2> DEFINE z == 0
  <2>1. z \in Nat /\ Run(q, z, n)
    BY <1>1, <1>3, <1>5 DEF Run
  <2> HIDE DEF z
  <2> QED
    BY <2>1
<1>6. CASE n > 0
  <2>1. lo + n <= Len(q)
    <3>1. SUFFICES ASSUME lo + n > Len(q) PROVE FALSE
      BY <1>1
    <3>2. lo + n \in Len(q) + 1 .. Len(q) + Len(r)
      BY <1>1, <1>2, <3>1
    <3>3. ~(lo < lo + n /\ lo + n <= lo + n)
      BY <1>4, <3>2
    <3> QED
      BY <1>6, <3>3
  <2> QED
    BY <1>1, <1>3, <2>1 DEF Run
<1> QED
  BY <1>5, <1>6

\* A line of I PDUs is a run.
LEMMA LineRun ==
  ASSUME NEW q \in Seq(PDU), NEW lo \in 0..Len(q), NEW n \in 0..Len(q), NEW f, Line(q, lo, n, f)
  PROVE  Run(q, lo, n)
<1>1. DOMAIN q = 1..Len(q) /\ Len(q) \in Nat
  OBVIOUS
<1> QED
  BY <1>1 DEF Line, Run

\* Whoever listens has I PDUs ahead that follow one another.
LEMMA RunComing ==
  ASSUME NEW d, NEW b, NEW qa, NEW qb, NEW wa, NEW wb, Ends(d, b, qa, qb, wa, wb),
         Paired(d, b, qa, qb, wa, wb), d.state \in {"CONNECTED", "W4_REMOTE_RESP"}
  PROVE  \E lo, n \in Nat : Run(qa, lo, n)
<1>1. qa \in Seq(PDU) /\ qb \in Seq(PDU)
  BY DEF Ends
<1>2. ASSUME Flows(d, b, qa, qb, wa, wb) PROVE \E lo, n \in Nat : Run(qa, lo, n)
  <2>1. d.state # "W4_REMOTE_DM"
    OBVIOUS
  <2>2. PICK lo, n \in 0..Len(qa) : Line(qa, lo, n, d.next_rx_seq)
    BY <1>2, <2>1 DEF Flows, Flow, Carries
  <2>3. Run(qa, lo, n)
    BY <1>1, <2>2, LineRun
  <2>4. lo \in Nat /\ n \in Nat
    BY <1>1
  <2> QED
    BY <2>3, <2>4
<1>3. ASSUME ~HasI(qa) PROVE \E lo, n \in Nat : Run(qa, lo, n)
  <2>1. Run(qa, 0, 0)
    BY <1>1, <1>3, CarriedNone
  <2> QED
    BY <2>1
<1>4. CASE d.state = "CONNECTED"
  <2>1. Flows(d, b, qa, qb, wa, wb)
    BY <1>4, ConnectedPhases
  <2> QED
    BY <1>2, <2>1
<1>5. CASE d.state = "W4_REMOTE_RESP" /\ qa # <<>>
  <2>1. Flows(d, b, qa, qb, wa, wb) \/ qa \in {<<Connect>>, <<Rejected>>, <<Connect, Rejected>>, <<Rejected, Connect>>}
    BY <1>5, HandlePhases
  <2>2. qa \in {<<Connect>>, <<Rejected>>, <<Connect, Rejected>>, <<Rejected, Connect>>} => ~HasI(qa)
    BY Kinds DEF HasI
  <2> QED
    BY <1>2, <1>3, <2>1, <2>2
<1>6. CASE qa = <<>>
  <2>1. ~HasI(qa)
    BY <1>6 DEF HasI
  <2> QED
    BY <1>3, <2>1
<1> QED
  BY <1>4, <1>5, <1>6

\* What is under way to a station that listens.
Heard(d, q) == d.state \in {"CONNECTED", "W4_REMOTE_RESP"} => \E lo, n \in Nat : Run(q, lo, n)

\* What b sent that station s, with control block d, may yet read: Pipe(Peer(s)).
Into(s, d, b, l) ==
  d.i_rx_q \o (IF d.state \in {"CONNECTED", "W4_REMOTE_RESP"}
                 THEN Carried(Ahead(l, s)) \o b.i_xmit_q ELSE <<>>)

\* What the invariants say of a station and its peer.
LEMMA Setting ==
  ASSUME IInv, Pair, Undisturbed, NEW s \in Station
  PROVE  LET d == dl[s]
             b == dl[Peer(s)]
         IN  /\ Matched(s, d, b, link) /\ Sound(s, d) /\ d \in Dlcb /\ b \in Dlcb /\ link \in Link
             /\ Ahead(link, s) \in Seq(PDU) /\ Ahead(link, Peer(s)) \in Seq(PDU)
             /\ Heard(d, Ahead(link, s)) /\ Heard(b, Ahead(link, Peer(s)))
             /\ ~HasI(d.sig_xmit_q) /\ ~HasI(b.sig_xmit_q)
<1> DEFINE p == Peer(s)
           d == dl[s]
           b == dl[p]
           qa == Ahead(link, s) \o b.sig_xmit_q
           qb == Ahead(link, p) \o d.sig_xmit_q
<1>1. p \in Station /\ Peer(p) = s
  BY Peers
<1>2. /\ Matched(s, d, b, link) /\ Sound(s, d) /\ d \in Dlcb /\ b \in Dlcb /\ link \in Link
      /\ Matched(p, b, d, link)
  <2>1. Matched(s, d, b, link) /\ Sound(s, d) /\ d \in Dlcb /\ b \in Dlcb
    BY PairMatched
  <2>2. Matched(p, b, d, link)
    BY <1>1, PairMatched
  <2> QED
    BY <2>1, <2>2, IInvSound
<1>3. Ahead(link, s) \in Seq(PDU) /\ Ahead(link, p) \in Seq(PDU)
  <2>1. <<>> \in Seq(PDU)
    OBVIOUS
  <2> QED
    BY <1>2, <2>1, LinkFields DEF Ahead
<1>4. ~HasI(d.sig_xmit_q) /\ ~HasI(b.sig_xmit_q)
  BY <1>2 DEF Matched, Signals
<1>5. d.sig_xmit_q \in Seq(PDU) /\ b.sig_xmit_q \in Seq(PDU)
  BY <1>2, Fields
<1>6. /\ Ends(d, b, qa, qb, Rw[s], Rw[p]) /\ Paired(d, b, qa, qb, Rw[s], Rw[p])
      /\ Ends(b, d, qb, qa, Rw[p], Rw[s]) /\ Paired(b, d, qb, qa, Rw[p], Rw[s])
  BY <1>1, <1>2 DEF Matched
<1> HIDE DEF d, b, p
<1>7. Heard(d, Ahead(link, s))
  <2> SUFFICES ASSUME d.state \in {"CONNECTED", "W4_REMOTE_RESP"}
               PROVE  \E lo, n \in Nat : Run(Ahead(link, s), lo, n)
    BY DEF Heard
  <2>1. PICK lo \in Nat, n \in Nat : Run(qa, lo, n)
    BY <1>6, RunComing
  <2> QED
    BY <1>3, <1>4, <1>5, <2>1, RunPart
<1>8. Heard(b, Ahead(link, p))
  <2> SUFFICES ASSUME b.state \in {"CONNECTED", "W4_REMOTE_RESP"}
               PROVE  \E lo, n \in Nat : Run(Ahead(link, p), lo, n)
    BY DEF Heard
  <2>1. PICK lo \in Nat, n \in Nat : Run(qb, lo, n)
    BY <1>6, RunComing
  <2> QED
    BY <1>3, <1>4, <1>5, <2>1, RunPart
<1> QED
  BY <1>2, <1>3, <1>4, <1>7, <1>8 DEF d, b, p

\* The SDUs of a run.
LEMMA CarriedSeq ==
  ASSUME NEW q \in Seq(PDU), NEW d, Heard(d, q), d.state \in {"CONNECTED", "W4_REMOTE_RESP"}
  PROVE  Carried(q) \in Seq(Nat)
<1>1. PICK lo \in Nat, n \in Nat : Run(q, lo, n)
  BY DEF Heard
<1>2. CASE q # <<>>
  BY <1>1, <1>2, CarriedTail
<1>3. CASE q = <<>>
  <2>1. ~HasI(q) /\ <<>> \in Seq(Nat)
    BY <1>3 DEF HasI
  <2> QED
    BY <2>1, CarriedNone
<1> QED
  BY <1>2, <1>3

\* The two pipes of a station and its peer.
LEMMA PipesAre ==
  ASSUME NEW s \in Station
  PROVE  /\ Pipe(Peer(s)) = Into(s, dl[s], dl[Peer(s)], link)
         /\ Pipe(s) = Into(Peer(s), dl[Peer(s)], dl[s], link)
         /\ Pipe(Peer(s))' = Into(s, dl'[s], dl'[Peer(s)], link')
         /\ Pipe(s)' = Into(Peer(s), dl'[Peer(s)], dl'[s], link')
<1>1. Peer(Peer(s)) = s /\ Peer(s) \in Station
  BY Peers
<1> QED
  BY <1>1 DEF Pipe, Into, Listens, Underway, Ahead

\* What had reached a station is what may be left of its queue.
LEMMA CutPrefix ==
  ASSUME NEW q \in Seq(Nat), NEW x \in Seq(Nat)
  PROVE  q \in Data!Cut(q \o x) /\ <<>> \in Data!Cut(q) /\ q \o <<>> = q /\ <<>> \o q = q
<1> DEFINE r == q \o x
           n == Len(q)
           t == SubSeq(r, 1, n)
<1>1. /\ r \in Seq(Nat) /\ n \in 0..Len(r) /\ n \in Nat /\ Len(r) \in Nat
      /\ \A i \in 1..n : r[i] = q[i]
  <2>1. /\ r \in Seq(Nat) /\ Len(r) = Len(q) + Len(x) /\ Len(x) \in Nat /\ Len(q) \in Nat
        /\ \A i \in 1..Len(q) : r[i] = q[i]
    BY ConcatSeq
  <2> HIDE DEF r
  <2> QED
    BY <2>1
<1> HIDE DEF r
<1>2. t = q
  <2> DEFINE one == 1
  <2>1. one \in 1..(Len(r) + 1) /\ n \in (one - 1)..Len(r)
    BY <1>1
  <2>2. n - one + 1 = n /\ \A i \in Nat : one + i - 1 = i
    BY <1>1
  <2>3. t = SubSeq(r, one, n)
    OBVIOUS
  <2> HIDE DEF one, t, n
  <2>4. /\ t \in Seq(Nat) /\ Len(t) = n - one + 1
        /\ \A i \in 1..(n - one + 1) : t[i] = r[one + i - 1]
    BY <1>1, <2>1, <2>3, SubSeqSeq
  <2>5. Len(t) = n /\ \A i \in 1..n : t[i] = q[i]
    <3>1. \A i \in 1..n : i \in Nat /\ one + i - 1 = i
      BY <1>1, <2>2
    <3> QED
      BY <1>1, <2>2, <2>4, <3>1
  <2> QED
    BY <1>1, <2>4, <2>5, SeqEqual DEF n
<1>3. q \in Data!Cut(r)
  BY <1>1, <1>2 DEF Data!Cut
<1>4. <<>> \in Data!Cut(q)
  <2>1. SubSeq(q, 1, 0) = <<>> /\ 0 \in 0..Len(q)
    OBVIOUS
  <2> QED
    BY <2>1 DEF Data!Cut
<1> QED
  BY <1>3, <1>4 DEF r

\* What b sent, one SDU after the other.
LEMMA IntoSeq ==
  ASSUME NEW s, NEW d \in Dlcb, NEW b \in Dlcb, NEW l, Ahead(l, s) \in Seq(PDU),
         Heard(d, Ahead(l, s))
  PROVE  /\ d.i_rx_q \in Seq(Nat) /\ b.i_xmit_q \in Seq(Nat)
         /\ d.state \in {"CONNECTED", "W4_REMOTE_RESP"} =>
              /\ Carried(Ahead(l, s)) \in Seq(Nat)
              /\ Carried(Ahead(l, s)) \o b.i_xmit_q \in Seq(Nat)
              /\ Into(s, d, b, l) = d.i_rx_q \o (Carried(Ahead(l, s)) \o b.i_xmit_q)
         /\ d.state \notin {"CONNECTED", "W4_REMOTE_RESP"} => Into(s, d, b, l) = d.i_rx_q
         /\ Into(s, d, b, l) \in Seq(Nat)
<1>1. d.i_rx_q \in Seq(Nat) /\ b.i_xmit_q \in Seq(Nat)
  BY Fields
<1>2. d.i_rx_q \o <<>> = d.i_rx_q
  BY <1>1
<1>3. CASE d.state \in {"CONNECTED", "W4_REMOTE_RESP"}
  <2>1. Carried(Ahead(l, s)) \in Seq(Nat)
    BY <1>3, CarriedSeq
  <2>2. Carried(Ahead(l, s)) \o b.i_xmit_q \in Seq(Nat)
    BY <1>1, <2>1
  <2>3. d.i_rx_q \o (Carried(Ahead(l, s)) \o b.i_xmit_q) \in Seq(Nat)
    BY <1>1, <2>2
  <2> QED
    BY <1>1, <1>3, <2>1, <2>2, <2>3 DEF Into
<1>4. CASE d.state \notin {"CONNECTED", "W4_REMOTE_RESP"}
  BY <1>1, <1>2, <1>4 DEF Into
<1> QED
  BY <1>3, <1>4

\* What a step of station s that handles no PDU leaves true.
Steady(s) ==
  /\ Ahead(link', s) = Ahead(link, s) /\ dl'[Peer(s)] = dl[Peer(s)]
  /\ (dl[s].i_rx_q = <<>> => dl'[s].i_rx_q = <<>>)
  /\ (dl'[s].state \in {"CONNECTED", "W4_REMOTE_DM"}
        => dl[s].state \in {"CONNECTED", "W4_REMOTE_DM", "W4_LOCAL_RESP"})
  /\ (dl'[s].state = "W4_REMOTE_RESP"
        => \/ dl[s].state = "W4_REMOTE_RESP"
           \/ dl[s].state = "IDLE" /\ Underway(s) = <<>>)

\* What only sends is no step for the applications, or closes a connection.
LEMMA ShipsMaps ==
  ASSUME IInv, Pair, Undisturbed, NEW s \in Station, NEW e \in Dlcb, dl' = [dl EXCEPT ![s] = e],
         sent' = sent, Ships(s, dl[s], link, e, link')
  PROVE  Maps(s) /\ Steady(s)
<1> DEFINE p == Peer(s)
           d == dl[s]
           b == dl[p]
<1>1. /\ d \in Dlcb /\ b \in Dlcb /\ Ahead(link, s) \in Seq(PDU) /\ Heard(d, Ahead(link, s))
  BY Setting
<1>2. dl'[s] = e /\ dl'[p] = b
  BY Peers DEF IInv, TypeOK
<1>3. /\ Pipe(p) = Into(s, d, b, link) /\ Pipe(s) = Into(p, b, d, link)
      /\ Pipe(p)' = Into(s, e, b, link') /\ Pipe(s)' = Into(p, b, e, link')
  BY <1>2, PipesAre
<1>4. Pipe(s)' = Pipe(s)
  BY <1>3 DEF Into, Ships
<1>5. Steady(s)
  BY <1>2 DEF Steady, Ships
<1>6. CASE e.state = d.state
  <2>1. Pipe(p)' = Pipe(p)
    <3>1. e.i_rx_q = d.i_rx_q /\ Ahead(link', s) = Ahead(link, s)
      BY DEF Ships
    <3> QED
      BY <1>3, <1>6, <3>1 DEF Into
  <2>2. Up(s)' = Up(s)
    BY <1>2, <1>6 DEF Up
  <2> QED
    BY <1>4, <1>5, <2>1, <2>2 DEF Maps, Idles
<1>7. CASE d.state = "CONNECTED" /\ e.state = "W4_REMOTE_DM"
  <2>1. Up(s) /\ ~Up(s)'
    BY <1>2, <1>7 DEF Up
  <2>2. /\ d.i_rx_q \in Seq(Nat) /\ Carried(Ahead(link, s)) \o b.i_xmit_q \in Seq(Nat)
        /\ Into(s, d, b, link) = d.i_rx_q \o (Carried(Ahead(link, s)) \o b.i_xmit_q)
    BY <1>1, <1>7, IntoSeq
  <2>3. Into(s, e, b, link') = d.i_rx_q \o <<>>
    BY <1>7 DEF Into, Ships
  <2>4. Pipe(p)' \in Data!Cut(Pipe(p))
    <3> DEFINE q == d.i_rx_q
               w == Carried(Ahead(link, s)) \o b.i_xmit_q
    <3>1. q \in Seq(Nat) /\ w \in Seq(Nat) /\ Pipe(p) = q \o w /\ Pipe(p)' = q \o <<>>
      BY <1>3, <2>2, <2>3
    <3> HIDE DEF q, w
    <3> QED
      BY <3>1, CutPrefix
  <2> QED
    BY <1>4, <1>5, <2>1, <2>4 DEF Maps, Closes
<1> QED
  BY <1>5, <1>6, <1>7 DEF Ships

\* After Update the control block is what CheckSend leaves.
LEMMA UpdateShips ==
  ASSUME IInv, NEW s \in Station, NEW d, Sound(s, d), ~HasI(d.sig_xmit_q), NEW l \in Link,
         Update(s, d, l)
  PROVE  \E e \in Dlcb : /\ dl' = [dl EXCEPT ![s] = e] /\ Ships(s, d, l, e, link')
                         /\ dl'[s] = e /\ dl'[Peer(s)] = dl[Peer(s)]
<1>1. PICK o \in CheckSend(s, d, l) : dl' = [dl EXCEPT ![s] = o.d] /\ link' = o.link
  BY DEF Update
<1>2. d \in Dlcb /\ o.d \in Dlcb
  BY CheckSendSound DEF Sound
<1>3. Ships(s, d, l, o.d, o.link)
  BY <1>2, CheckSendShips
<1>4. dl'[s] = o.d /\ dl'[Peer(s)] = dl[Peer(s)]
  BY <1>1, Peers DEF IInv, TypeOK
<1> QED
  BY <1>1, <1>2, <1>3, <1>4

\* A frame has been handled, or a SYMM was due: what is sent is sent on.
LEMMA TurnsMap ==
  ASSUME IInv, Pair, Undisturbed, NEW s \in Station
  PROVE  EndRx(s) \/ SymmTimeout(s) => Maps(s) /\ Steady(s)
<1> DEFINE d == dl[s]
<1>1. /\ d \in Dlcb /\ Sound(s, d) /\ link \in Link /\ ~HasI(d.sig_xmit_q) /\ Turn(s) \in Link
  <2>1. <<>> \in Seq(PDU)
    OBVIOUS
  <2> QED
    BY <2>1, Setting, PassType
<1>2. ASSUME EndRx(s) PROVE Maps(s) /\ Steady(s)
  <2>1. Update(s, d, Turn(s)) /\ sent' = sent /\ link = [Turn(s) EXCEPT !.mode = "rx"]
    BY <1>2 DEF EndRx
  <2>2. \A t : Ahead(Turn(s), t) = Ahead(link, t)
    BY <2>1 DEF Ahead, Turn
  <2>3. PICK e \in Dlcb : dl' = [dl EXCEPT ![s] = e] /\ Ships(s, d, Turn(s), e, link')
    BY <1>1, <2>1, UpdateShips
  <2>4. Ships(s, d, link, e, link')
    BY <2>2, <2>3 DEF Ships
  <2> QED
    BY <2>1, <2>3, <2>4, ShipsMaps
<1>3. ASSUME SymmTimeout(s) PROVE Maps(s) /\ Steady(s)
  <2>1. link = Turn(s) /\ link' = Pass(s, <<>>) /\ dl' = dl /\ sent' = sent
    BY <1>3 DEF SymmTimeout
  <2>2. \A t : Ahead(link', t) = <<>> /\ Ahead(link, t) = <<>>
    BY <2>1 DEF Ahead, Turn, Pass
  <2>3. dl' = [dl EXCEPT ![s] = d]
    BY <2>1 DEF IInv, TypeOK
  <2>4. Ships(s, d, link, d, link')
    BY <2>2 DEF Ships
  <2> HIDE DEF d
  <2> QED
    BY <1>1, <2>1, <2>3, <2>4, ShipsMaps DEF d
<1> QED
  BY <1>2, <1>3

\* Nothing ahead, nothing queued.
LEMMA CarriedEmpty == Carried(<<>>) = <<>> /\ \A q \in Seq(Nat) : <<>> \o q = q /\ q \o <<>> = q
<1>1. ~HasI(<<>>) /\ <<>> \in Seq(PDU)
  BY DEF HasI
<1>2. Carried(<<>>) = <<>>
  BY <1>1, CarriedNone
<1>3. \A q \in Seq(Nat) : <<>> \o q = q /\ q \o <<>> = q
  OBVIOUS
<1> QED
  BY <1>2, <1>3

\* LLCP_ConnectReq: nothing is left of the connection before.
LEMMA ConnectReqMaps ==
  ASSUME IInv, Pair, Undisturbed, NEW s \in Station, ConnectReq(s)
  PROVE  Maps(s) /\ Steady(s)
<1> DEFINE p == Peer(s)
           d == dl[s]
           b == dl[p]
           f == Deallocate(d)
           w == [f EXCEPT !.state = "W4_REMOTE_RESP"]
           e == Queue(w, Connect)
           qa == Ahead(link, s) \o b.sig_xmit_q
           qb == Ahead(link, p) \o d.sig_xmit_q
<1>1. /\ Matched(s, d, b, link) /\ Sound(s, d) /\ d \in Dlcb /\ b \in Dlcb /\ link \in Link
      /\ ~HasI(d.sig_xmit_q)
  BY Setting
<1>2. d.state = "IDLE" /\ Underway(s) = <<>> /\ Update(s, e, link) /\ sent' = sent
  BY DEF ConnectReq, Undisturbed, Connect
<1>3. f \in Dlcb /\ f.sig_xmit_q = d.sig_xmit_q /\ Blank(f) /\ Sound(s, f) /\ f.i_rx_q = <<>>
  BY <1>1, DeallocateIs, DeallocateSound
<1> HIDE DEF f
<1>4. /\ w \in Dlcb /\ w.sig_xmit_q = d.sig_xmit_q /\ w.state = "W4_REMOTE_RESP" /\ Blank(w)
      /\ Sound(s, w)
  BY <1>3, StateIs, StateSound DEF State
<1> HIDE DEF w
<1>5. /\ e.sig_xmit_q = Append(d.sig_xmit_q, Connect) /\ e.state = "W4_REMOTE_RESP" /\ Blank(e)
      /\ Sound(s, e)
  <2>1. Connect \in PDU
    BY Kinds
  <2>2. e.sig_xmit_q = Append(w.sig_xmit_q, Connect) /\ e.state = w.state /\ (Blank(w) => Blank(e))
    BY <1>4, <2>1, QueueIs
  <2>3. Sound(s, e)
    BY <1>4, <2>1, QueueSound
  <2> QED
    BY <1>4, <2>2, <2>3
<1> HIDE DEF e
<1>6. ~HasI(e.sig_xmit_q)
  <2>1. Connect \in PDU /\ Connect.type # "I" /\ d.sig_xmit_q \in Seq(PDU)
    BY <1>1, Kinds, Fields
  <2> QED
    BY <1>1, <1>5, <2>1, InfoMore
<1>7. PICK g \in Dlcb : /\ dl' = [dl EXCEPT ![s] = g] /\ Ships(s, e, link, g, link')
                        /\ dl'[s] = g /\ dl'[p] = b
  BY <1>1, <1>2, <1>5, <1>6, UpdateShips
<1>8. Blank(d) /\ b.i_xmit_q = <<>>
  <2>1. /\ Ends(d, b, qa, qb, Rw[s], Rw[p]) /\ Paired(d, b, qa, qb, Rw[s], Rw[p])
        /\ Signals(b.sig_xmit_q)
    BY <1>1 DEF Matched
  <2>2. Signals(qa) /\ qa \in Seq(PDU)
    <3>1. Ahead(link, s) = <<>>
      BY <1>2 DEF Ahead, Underway
    <3>2. b.sig_xmit_q \in Seq(PDU)
      BY <1>1, Fields
    <3>3. <<>> \o b.sig_xmit_q = b.sig_xmit_q
      BY <3>2
    <3> QED
      BY <2>1, <3>1, <3>2, <3>3
  <2> HIDE DEF qa, qb
  <2>3. Blank(b) \/ Leaving(b, qb)
    BY <1>2, <2>1, <2>2, IdlePhases
  <2>4. Blank(d)
    BY <1>2, <2>1, EarlyBlank DEF Early
  <2> QED
    BY <2>3, <2>4, BlankFields DEF Leaving
<1>9. /\ d.i_rx_q = <<>> /\ d.i_xmit_q = <<>> /\ e.i_rx_q = <<>> /\ e.i_xmit_q = <<>>
  BY <1>5, <1>8, BlankFields
<1>10. g.state = "W4_REMOTE_RESP" /\ g.i_rx_q = <<>> /\ Ahead(link', s) = <<>>
  BY <1>2, <1>5, <1>7, <1>9 DEF Ships, Ahead, Underway
<1>11. /\ Pipe(p) = Into(s, d, b, link) /\ Pipe(s) = Into(p, b, d, link)
       /\ Pipe(p)' = Into(s, g, b, link') /\ Pipe(s)' = Into(p, b, g, link')
  BY <1>7, PipesAre
<1>12. Pipe(s)' = Pipe(s)
  BY <1>7, <1>9, <1>11 DEF Into, Ships
<1>13. Pipe(p)' = Pipe(p)
  <2>1. <<>> \o <<>> = <<>> /\ Carried(<<>>) = <<>>
    BY CarriedEmpty
  <2>2. Into(s, d, b, link) = <<>>
    BY <1>2, <1>9, <2>1 DEF Into
  <2>3. Into(s, g, b, link') = <<>>
    BY <1>8, <1>10, <2>1 DEF Into
  <2> QED
    BY <1>11, <2>2, <2>3
<1>14. Up(s)' = Up(s)
  BY <1>2, <1>7, <1>10 DEF Up
<1>15. Steady(s)
  BY <1>2, <1>7, <1>10 DEF Steady, Ships
<1> QED
  BY <1>2, <1>12, <1>13, <1>14, <1>15 DEF Maps, Idles

\* Between CONNECT_IND and its answer nothing is under way.
LEMMA AnswerPhase ==
  ASSUME IInv, Pair, Undisturbed, NEW s \in Station, dl[s].state = "W4_LOCAL_RESP"
  PROVE  /\ Blank(dl[s]) /\ Blank(dl[Peer(s)]) /\ dl[Peer(s)].state = "W4_REMOTE_RESP"
         /\ Ahead(link, s) = <<>> /\ Ahead(link, Peer(s)) = <<>>
<1> DEFINE p == Peer(s)
           d == dl[s]
           b == dl[p]
           qa == Ahead(link, s) \o b.sig_xmit_q
           qb == Ahead(link, p) \o d.sig_xmit_q
<1>1. /\ Matched(s, d, b, link) /\ d \in Dlcb /\ b \in Dlcb
      /\ Ahead(link, s) \in Seq(PDU) /\ Ahead(link, p) \in Seq(PDU)
  BY Setting
<1>2. Paired(d, b, qa, qb, Rw[s], Rw[p])
  BY <1>1 DEF Matched
<1>3. (qa = <<>> => Ahead(link, s) = <<>>) /\ (qb = <<>> => Ahead(link, p) = <<>>)
  <2>1. \A q, r \in Seq(PDU) : q \o r = <<>> => q = <<>>
    OBVIOUS
  <2>2. d.sig_xmit_q \in Seq(PDU) /\ b.sig_xmit_q \in Seq(PDU)
    BY <1>1, Fields
  <2> QED
    BY <1>1, <2>1, <2>2
<1> HIDE DEF qa, qb
<1>4. Blank(d) /\ Blank(b) /\ b.state = "W4_REMOTE_RESP" /\ qa = <<>> /\ qb = <<>>
  <2>1. CASE Setup(d, b, qa, qb) \/ Setup(b, d, qb, qa)
    BY <2>1 DEF Setup
  <2>2. CASE Open(d, b, qa, qb) \/ Open(b, d, qb, qa)
    BY <2>2 DEF Open, Joined, Accepted, Fleeting, Left, Leaving
  <2>3. CASE \/ BothLeft(d, b, qa, qb) \/ BothLeft(b, d, qb, qa)
             \/ Answered(d, b, qa, qb) \/ Answered(b, d, qb, qa)
    BY <2>3 DEF BothLeft, Answered, Leaving
  <2> QED
    BY <1>2, <2>1, <2>2, <2>3 DEF Paired, Half
<1> QED
  BY <1>3, <1>4

\* LLCP_ConnectCfm opens the connection, LLCP_ConnectReject does not.
LEMMA ConnectAnswerMaps ==
  ASSUME IInv, Pair, Undisturbed, NEW s \in Station
  PROVE  ConnectCfm(s) \/ ConnectReject(s) => Maps(s) /\ Steady(s)
<1> SUFFICES ASSUME ConnectCfm(s) \/ ConnectReject(s) PROVE Maps(s) /\ Steady(s)
  OBVIOUS
<1> DEFINE p == Peer(s)
           d == dl[s]
           b == dl[p]
           c == [d EXCEPT !.state = "CONNECTED"]
           e == Queue(c, Cc)
           r == Queue(d, Rejected)
           f == Deallocate(r)
<1>1. /\ Sound(s, d) /\ d \in Dlcb /\ b \in Dlcb /\ link \in Link
      /\ ~HasI(d.sig_xmit_q) /\ d.sig_xmit_q \in Seq(PDU)
  BY Setting, Fields
<1>2. d.state = "W4_LOCAL_RESP"
  BY DEF ConnectCfm, ConnectReject
<1>3. /\ Blank(d) /\ Blank(b) /\ b.state = "W4_REMOTE_RESP"
      /\ Ahead(link, s) = <<>> /\ Ahead(link, p) = <<>>
  BY <1>2, AnswerPhase
<1>4. /\ d.i_rx_q = <<>> /\ d.i_xmit_q = <<>> /\ d.flags = {}
      /\ b.i_rx_q = <<>> /\ b.i_xmit_q = <<>>
  BY <1>3, BlankFields
<1>5. <<>> \o <<>> = <<>> /\ Carried(<<>>) = <<>>
  BY CarriedEmpty
<1>6. Into(s, d, b, link) = <<>> /\ Into(p, b, d, link) = <<>>
  BY <1>2, <1>3, <1>4, <1>5 DEF Into
<1>7. /\ Cc \in PDU /\ Cc.type # "I" /\ Rejected \in PDU /\ Rejected.type # "I"
      /\ ~HasI(Append(d.sig_xmit_q, Cc)) /\ ~HasI(Append(d.sig_xmit_q, Rejected))
  BY <1>1, Kinds, InfoMore
<1>8. ASSUME NEW x, NEW g \in Dlcb, Ships(s, x, link, g, link'), dl'[s] = g, dl'[p] = b,
             x.i_rx_q = <<>>, x.i_xmit_q = <<>>
      PROVE  /\ Pipe(p) = <<>> /\ Pipe(s) = <<>> /\ Pipe(p)' = <<>> /\ Pipe(s)' = <<>>
  <2>1. /\ g.i_rx_q = <<>> /\ Ahead(link', s) = <<>>
        /\ Carried(Ahead(link', p)) \o g.i_xmit_q = <<>>
    BY <1>3, <1>5, <1>8 DEF Ships
  <2>2. Into(s, g, b, link') = <<>> /\ Into(p, b, g, link') = <<>>
    BY <1>3, <1>4, <1>5, <2>1 DEF Into
  <2> QED
    BY <1>6, <1>8, <2>2, PipesAre
<1>9. ASSUME ConnectCfm(s) PROVE Maps(s) /\ Steady(s)
  <2>1. /\ c \in Dlcb /\ c.sig_xmit_q = d.sig_xmit_q /\ c.state = "CONNECTED" /\ c.i_xmit_q = <<>>
        /\ c.i_rx_q = <<>> /\ c.flags = {}
    <3>1. c \in Dlcb /\ c.sig_xmit_q = d.sig_xmit_q /\ c.state = "CONNECTED" /\ c.i_xmit_q = d.i_xmit_q
      BY <1>1, StateIs DEF State
    <3>2. c.i_rx_q = d.i_rx_q /\ c.flags = d.flags
      BY <1>1 DEF Dlcb
    <3> QED
      BY <1>4, <3>1, <3>2
  <2>2. Sound(s, c)
    BY <1>1, <1>2, StateSound DEF State, Sound, Notified
  <2> HIDE DEF c
  <2>3. /\ e.sig_xmit_q = Append(d.sig_xmit_q, Cc) /\ e.state = "CONNECTED" /\ Sound(s, e)
        /\ e.i_xmit_q = <<>> /\ e.i_rx_q = <<>> /\ e.flags = {}
    <3>1. e.sig_xmit_q = Append(c.sig_xmit_q, Cc) /\ e.state = c.state /\ e.i_xmit_q = c.i_xmit_q
      BY <1>7, <2>1, QueueIs
    <3>2. e.i_rx_q = c.i_rx_q /\ e.flags = c.flags
      BY <2>1 DEF Queue, Dlcb
    <3>3. Sound(s, e)
      BY <1>7, <2>2, QueueSound
    <3> QED
      BY <2>1, <3>1, <3>2, <3>3
  <2>4. Update(s, e, link) /\ sent' = sent
    BY <1>9 DEF ConnectCfm, Cc, c
  <2> HIDE DEF e
  <2>5. PICK g \in Dlcb : Ships(s, e, link, g, link') /\ dl'[s] = g /\ dl'[p] = b
    BY <1>1, <1>7, <2>3, <2>4, UpdateShips
  <2>6. g.state = "CONNECTED"
    BY <2>3, <2>5 DEF Ships
  <2>7. /\ Pipe(p) = <<>> /\ Pipe(s) = <<>> /\ Pipe(p)' = <<>> /\ Pipe(s)' = <<>>
    BY <1>8, <2>3, <2>5
  <2>8. ~Up(s) /\ Up(s)'
    BY <1>2, <2>5, <2>6 DEF Up
  <2>9. Steady(s)
    BY <1>2, <2>3, <2>5, <2>6 DEF Steady, Ships
  <2> QED
    BY <2>4, <2>7, <2>8, <2>9 DEF Maps, Opens
<1>10. ASSUME ConnectReject(s) PROVE Maps(s) /\ Steady(s)
  <2>1. r \in Dlcb /\ r.sig_xmit_q = Append(d.sig_xmit_q, Rejected) /\ Sound(s, r)
    BY <1>1, <1>7, QueueIs, QueueSound
  <2>2. Update(s, f, link) /\ sent' = sent
    BY <1>10 DEF ConnectReject, Reject, Rejected
  <2> HIDE DEF r
  <2>3. /\ f.sig_xmit_q = Append(d.sig_xmit_q, Rejected) /\ f.state = "IDLE" /\ Blank(f)
        /\ Sound(s, f)
    BY <2>1, DeallocateIs, DeallocateSound
  <2> HIDE DEF f
  <2>4. f.i_xmit_q = <<>> /\ f.i_rx_q = <<>>
    BY <2>3, BlankFields
  <2>5. PICK g \in Dlcb : Ships(s, f, link, g, link') /\ dl'[s] = g /\ dl'[p] = b
    BY <1>1, <1>7, <2>2, <2>3, UpdateShips
  <2>6. g.state = "IDLE"
    BY <2>3, <2>5 DEF Ships
  <2>7. /\ Pipe(p) = <<>> /\ Pipe(s) = <<>> /\ Pipe(p)' = <<>> /\ Pipe(s)' = <<>>
    BY <1>8, <2>4, <2>5
  <2>8. Up(s)' = Up(s)
    BY <1>2, <2>5, <2>6 DEF Up
  <2>9. Steady(s)
    BY <1>2, <2>4, <2>5, <2>6 DEF Steady, Ships
  <2> QED
    BY <2>2, <2>7, <2>8, <2>9 DEF Maps, Idles
<1> QED
  BY <1>9, <1>10

\* One more at the end, one less at the front.
LEMMA AppendConcat ==
  ASSUME NEW x \in Seq(Nat), NEW y \in Seq(Nat), NEW z \in Seq(Nat), NEW n \in Nat
  PROVE  x \o (y \o Append(z, n)) = Append(x \o (y \o z), n)
<1>1. y \o Append(z, n) = Append(y \o z, n) /\ y \o z \in Seq(Nat)
  OBVIOUS
<1> DEFINE w == y \o z
<1>2. w \in Seq(Nat) /\ y \o Append(z, n) = Append(w, n)
  BY <1>1
<1> HIDE DEF w
<1>3. x \o Append(w, n) = Append(x \o w, n)
  BY <1>2
<1> QED
  BY <1>2, <1>3 DEF w

\* The first is taken from the front of two sequences.
LEMMA TailConcat ==
  ASSUME NEW x \in Seq(Nat), NEW y \in Seq(Nat), x # <<>>
  PROVE  Tail(x \o y) = Tail(x) \o y /\ x \o y # <<>>
<1> DEFINE r == x \o y
           t == Tail(x)
           u == Tail(r)
           v == t \o y
<1>1. /\ r \in Seq(Nat) /\ Len(r) = Len(x) + Len(y) /\ Len(x) \in Nat \ {0} /\ Len(y) \in Nat
      /\ \A i \in 1..Len(x) : r[i] = x[i]
      /\ \A i \in Len(x) + 1 .. Len(x) + Len(y) : r[i] = y[i - Len(x)]
  <2>1. Len(x) # 0
    OBVIOUS
  <2> QED
    BY <2>1, ConcatSeq
<1>2. r # <<>>
  BY <1>1
<1> HIDE DEF r
<1>3. /\ t \in Seq(Nat) /\ Len(t) = Len(x) - 1 /\ \A i \in 1..(Len(x) - 1) : t[i] = x[i + 1]
  BY TailSeq
<1>4. /\ u \in Seq(Nat) /\ Len(u) = Len(r) - 1 /\ \A i \in 1..(Len(r) - 1) : u[i] = r[i + 1]
  BY <1>1, <1>2, TailSeq
<1> HIDE DEF t, u
<1>5. /\ v \in Seq(Nat) /\ Len(v) = Len(t) + Len(y)
      /\ \A i \in 1..Len(t) : v[i] = t[i]
      /\ \A i \in Len(t) + 1 .. Len(t) + Len(y) : v[i] = y[i - Len(t)]
  <2>1. t \in Seq(Nat) /\ y \in Seq(Nat)
    BY <1>3
  <2> QED
    BY <2>1, ConcatSeq, SMTT(40)
<1> HIDE DEF v
<1> DEFINE m == Len(x)
           n == Len(y)
<1>6. /\ m \in Nat \ {0} /\ n \in Nat /\ Len(u) = m + n - 1 /\ Len(v) = m + n - 1
      /\ \A i \in 1..(m + n - 1) : u[i] = r[i + 1]
      /\ \A i \in 1..(m - 1) : v[i] = t[i] /\ t[i] = x[i + 1]
      /\ \A i \in m .. m + n - 1 : v[i] = y[i - (m - 1)]
      /\ \A i \in 1..m : r[i] = x[i]
      /\ \A i \in m + 1 .. m + n : r[i] = y[i - m]
  <2>1. m = Len(x) /\ n = Len(y) /\ m \in Nat \ {0} /\ n \in Nat
    BY <1>1
  <2>2. /\ \A i \in 1..m : r[i] = x[i]
        /\ \A i \in m + 1 .. m + n : r[i] = y[i - m]
    BY <1>1
  <2> HIDE DEF m, n
  <2>3. Len(r) = m + n /\ Len(t) = m - 1
    BY <1>1, <1>3, <2>1
  <2>4. Len(u) = m + n - 1 /\ Len(v) = m + n - 1
    BY <1>4, <1>5, <2>1, <2>3
  <2>5. \A i \in 1..(m + n - 1) : u[i] = r[i + 1]
    <3>1. Len(r) - 1 = m + n - 1
      BY <2>1, <2>3
    <3> QED
      BY <1>4, <3>1
  <2>6. \A i \in 1..(m - 1) : v[i] = t[i] /\ t[i] = x[i + 1]
    BY <1>3, <1>5, <2>1, <2>3
  <2>7. \A i \in m .. m + n - 1 : v[i] = y[i - (m - 1)]
    <3>1. Len(t) + 1 = m /\ Len(t) + Len(y) = m + n - 1
      BY <2>1, <2>3
    <3> QED
      BY <1>5, <2>3, <3>1
  <2> QED
    BY <2>1, <2>2, <2>4, <2>5, <2>6, <2>7
<1> HIDE DEF m, n
<1>7. \A i \in 1..(m + n - 1) : u[i] = v[i]
  <2> SUFFICES ASSUME NEW i \in 1..(m + n - 1) PROVE u[i] = v[i]
    OBVIOUS
  <2>1. CASE i < m
    <3>1. i \in 1..(m - 1) /\ i + 1 \in 1..m
      BY <1>6, <2>1
    <3> QED
      BY <1>6, <3>1
  <2>2. CASE i >= m
    <3>1. i \in m .. m + n - 1 /\ i + 1 \in m + 1 .. m + n /\ (i + 1) - m = i - (m - 1)
      BY <1>6, <2>2
    <3> QED
      BY <1>6, <3>1
  <2> QED
    BY <1>6, <2>1, <2>2
<1>8. u = v
  BY <1>4, <1>5, <1>6, <1>7, SeqEqual
<1> QED
  BY <1>2, <1>8 DEF r, t, u, v

\* LLCP_SendData: the SDU joins what its peer may yet read, if that listens.
LEMMA SendDataMaps ==
  ASSUME IInv, Pair, Undisturbed, NEW s \in Station, SendData(s)
  PROVE  Maps(s) /\ Steady(s)
<1> DEFINE p == Peer(s)
           d == dl[s]
           b == dl[p]
           k == sent[s] + 1
           q == Append(d.i_xmit_q, k)
           e == [d EXCEPT !.i_xmit_q = q]
<1>1. /\ Sound(s, d) /\ d \in Dlcb /\ b \in Dlcb /\ link \in Link /\ p \in Station /\ p # s
      /\ ~HasI(d.sig_xmit_q) /\ sent \in [Station -> Nat] /\ d.state = "CONNECTED"
      /\ Ahead(link, s) \in Seq(PDU) /\ Ahead(link, p) \in Seq(PDU)
      /\ Heard(d, Ahead(link, s)) /\ Heard(b, Ahead(link, p))
  BY Setting, IInvSound, Peers DEF SendData
<1>2. q \in Seq(Nat) /\ d.i_xmit_q \in Seq(Nat) /\ k \in Nat /\ q # <<>>
  <2>1. d.i_xmit_q \in Seq(Nat) /\ k \in Nat
    BY <1>1, Fields
  <2> HIDE DEF k
  <2> QED
    BY <2>1
<1>3. PICK o \in CheckSend(s, e, link) :
        /\ link' = o.link
        /\ \/ dl' = [dl EXCEPT ![s] = o.d]
           \/ dl' = [dl EXCEPT ![s] = [o.d EXCEPT !.is_tx_congested = TRUE, !.told = TRUE]]
  BY DEF SendData
<1>4. sent' = [sent EXCEPT ![s] = @ + 1]
  BY DEF SendData
<1> HIDE DEF q
<1>5. /\ e \in Dlcb /\ e.state = "CONNECTED" /\ e.sig_xmit_q = d.sig_xmit_q
      /\ e.i_xmit_q = q /\ e.i_rx_q = d.i_rx_q
  BY <1>1, <1>2 DEF Dlcb
<1> HIDE DEF e
<1>6. Ships(s, e, link, o.d, o.link) /\ o.d \in Dlcb
  <2>1. Ships(s, e, link, o.d, o.link)
    BY <1>1, <1>5, CheckSendShips
  <2>2. SameRx(d, e)
    BY <1>1, <1>2 DEF Dlcb, SameRx, e
  <2>3. Sound(s, e)
    BY <1>1, <1>5, <2>2, SameRxSound
  <2>4. o.d \in Dlcb
    BY <1>1, <2>3, CheckSendSound DEF Sound
  <2> QED
    BY <2>1, <2>4
<1> DEFINE f == o.d
           h == [f EXCEPT !.is_tx_congested = TRUE, !.told = TRUE]
           g == dl'[s]
<1>7. /\ f \in Dlcb /\ f.state = "CONNECTED" /\ f.i_rx_q = d.i_rx_q
      /\ Ahead(link', s) = Ahead(link, s)
      /\ Carried(Ahead(link', p)) \o f.i_xmit_q = Carried(Ahead(link, p)) \o q
  BY <1>2, <1>3, <1>5, <1>6 DEF Ships
<1>8. (g = f \/ g = h) /\ dl'[p] = b
  BY <1>1, <1>3 DEF IInv, TypeOK
<1> HIDE DEF f, g
<1>9. g.state = "CONNECTED" /\ g.i_rx_q = d.i_rx_q /\ g.i_xmit_q = f.i_xmit_q
  BY <1>7, <1>8 DEF Dlcb
<1> HIDE DEF h
<1>10. /\ Pipe(p) = Into(s, d, b, link) /\ Pipe(s) = Into(p, b, d, link)
       /\ Pipe(p)' = Into(s, g, b, link') /\ Pipe(s)' = Into(p, b, g, link')
  BY <1>8, PipesAre DEF g
<1>11. Pipe(p)' = Pipe(p)
  BY <1>1, <1>7, <1>9, <1>10 DEF Into
<1>12. Up(s) /\ Up(s)'
  BY <1>1, <1>9 DEF Up, g
<1>15. Steady(s)
  BY <1>1, <1>7, <1>8, <1>9 DEF Steady, g
<1>13. CASE b.state \in {"CONNECTED", "W4_REMOTE_RESP"}
  <2> DEFINE x == b.i_rx_q
             y == Carried(Ahead(link, p))
             z == d.i_xmit_q
  <2>1. x \in Seq(Nat) /\ y \in Seq(Nat) /\ z \in Seq(Nat)
    BY <1>1, <1>2, <1>13, CarriedSeq, Fields
  <2>2. Pipe(s) = x \o (y \o z) /\ Pipe(s)' = x \o (y \o Append(z, k))
    <3>1. Pipe(s)' = x \o (Carried(Ahead(link', p)) \o f.i_xmit_q)
      BY <1>9, <1>10, <1>13 DEF Into
    <3> QED
      BY <1>7, <1>10, <1>13, <3>1 DEF Into, q
  <2> HIDE DEF x, y, z, k
  <2>3. Pipe(s)' = Append(Pipe(s), k)
    <3>1. k \in Nat
      BY <1>2
    <3>2. x \o (y \o Append(z, k)) = Append(x \o (y \o z), k)
      BY <2>1, <3>1, AppendConcat, Zenon
    <3> QED
      BY <2>2, <3>2, Zenon
  <2> QED
    BY <1>4, <1>11, <1>12, <1>15, <2>3 DEF Maps, Sends, k
<1>14. CASE b.state \notin {"CONNECTED", "W4_REMOTE_RESP"}
  <2>1. Pipe(s)' = Pipe(s)
    BY <1>10, <1>14 DEF Into
  <2>2. ~Up(p)
    BY <1>14 DEF Up
  <2> QED
    BY <1>4, <1>11, <1>12, <1>15, <2>1, <2>2 DEF Maps, Sends
<1> QED
  BY <1>13, <1>14

\* Only flags change.
LEMMA QuietMaps ==
  ASSUME NEW s \in Station, dl \in [Station -> Dlcb], NEW e, dl' = [dl EXCEPT ![s] = e],
         link' = link, sent' = sent,
         e.state = dl[s].state, e.i_xmit_q = dl[s].i_xmit_q, e.i_rx_q = dl[s].i_rx_q
  PROVE  Maps(s) /\ Steady(s)
<1>1. dl'[s] = e /\ dl'[Peer(s)] = dl[Peer(s)]
  BY Peers
<1>2. Pipe(s)' = Pipe(s) /\ Pipe(Peer(s))' = Pipe(Peer(s))
  <2> DEFINE p == Peer(s)
             d == dl[s]
             b == dl[p]
  <2>1. /\ Pipe(p) = Into(s, d, b, link) /\ Pipe(s) = Into(p, b, d, link)
        /\ Pipe(p)' = Into(s, e, b, link) /\ Pipe(s)' = Into(p, b, e, link)
    BY <1>1, PipesAre
  <2> HIDE DEF b, p
  <2>2. Into(s, e, b, link) = Into(s, d, b, link) /\ Into(p, b, e, link) = Into(p, b, d, link)
    BY DEF Into
  <2> QED
    BY <2>1, <2>2 DEF p
<1>3. Up(s)' = Up(s)
  BY <1>1 DEF Up
<1>4. Steady(s)
  BY <1>1 DEF Steady, Ahead
<1> QED
  BY <1>2, <1>3, <1>4 DEF Maps, Idles

\* LLCP_ReadDataLinkData
LEMMA ReadDataMaps ==
  ASSUME IInv, Pair, Undisturbed, NEW s \in Station, ReadData(s)
  PROVE  Maps(s) /\ Steady(s)
<1> DEFINE p == Peer(s)
           d == dl[s]
           b == dl[p]
           q == Tail(d.i_rx_q)
           t == Len(d.i_rx_q) > 1
           x == [d EXCEPT !.i_rx_q = q, !.rung = t]
           y == RxUncongested(x, Threshold(s) \div 2)
           f == x.flags \cup {"PENDING_RR_RNR"}
           z == [x EXCEPT !.is_rx_congested = FALSE, !.flags = f]
           Read(e) == e \in Dlcb /\ e.state = d.state /\ e.i_xmit_q = d.i_xmit_q /\ e.i_rx_q = q
<1>1. /\ d \in Dlcb /\ b \in Dlcb /\ d.i_rx_q \in Seq(Nat) /\ p \in Station /\ p # s
      /\ Ahead(link, s) \in Seq(PDU) /\ Heard(d, Ahead(link, s)) /\ dl \in [Station -> Dlcb]
  BY Setting, Peers, Fields DEF IInv, TypeOK
<1>2. d.i_rx_q # <<>> /\ dl' = [dl EXCEPT ![s] = y] /\ link' = link /\ sent' = sent
  BY DEF ReadData
<1>3. q \in Seq(Nat) /\ t \in BOOLEAN
  BY <1>1, <1>2
<1> HIDE DEF q, t
<1>4. Read(x)
  BY <1>1, <1>3 DEF Dlcb
<1>5. y = x \/ y = z
  BY DEF RxUncongested
<1> HIDE DEF x
<1>6. f \in SUBSET Flag
  BY <1>4, Fields DEF Flag
<1> HIDE DEF f
<1>7. Read(z)
  BY <1>4, <1>6 DEF Dlcb
<1> HIDE DEF z, y
<1>8. Read(y) /\ dl'[s] = y /\ dl'[p] = b
  BY <1>1, <1>2, <1>4, <1>5, <1>7
<1>9. /\ Pipe(p) = Into(s, d, b, link) /\ Pipe(s) = Into(p, b, d, link)
      /\ Pipe(p)' = Into(s, y, b, link) /\ Pipe(s)' = Into(p, b, y, link)
  BY <1>2, <1>8, PipesAre
<1>10. Pipe(s)' = Pipe(s)
  BY <1>8, <1>9 DEF Into
<1>11. Pipe(p) # <<>> /\ Pipe(p)' = Tail(Pipe(p))
  <2>1. CASE d.state \in {"CONNECTED", "W4_REMOTE_RESP"}
    <3> DEFINE w == Carried(Ahead(link, s)) \o b.i_xmit_q
    <3>1. w \in Seq(Nat)
      BY <1>1, <2>1, IntoSeq
    <3>2. Pipe(p) = d.i_rx_q \o w /\ Pipe(p)' = q \o w
      BY <1>8, <1>9, <2>1 DEF Into
    <3> HIDE DEF w
    <3> QED
      BY <1>1, <1>2, <3>1, <3>2, TailConcat DEF q
  <2>2. CASE d.state \notin {"CONNECTED", "W4_REMOTE_RESP"}
    <3>1. Pipe(p) = d.i_rx_q \o <<>> /\ Pipe(p)' = q \o <<>>
      BY <1>8, <1>9, <2>2 DEF Into
    <3>2. d.i_rx_q \o <<>> = d.i_rx_q /\ q \o <<>> = q
      BY <1>1, <1>3, CarriedEmpty
    <3> QED
      BY <1>2, <3>1, <3>2 DEF q
  <2> QED
    BY <2>1, <2>2
<1>12. Up(s)' = Up(s)
  BY <1>8 DEF Up
<1>13. Steady(s)
  BY <1>2, <1>8 DEF Steady, Ahead
<1> QED
  BY <1>2, <1>10, <1>11, <1>12, <1>13 DEF Maps, Reads

\* LLCP_SetLocalBusyStatus and LLCP_SetTxCompleteNtf
LEMMA FlagsMap ==
  ASSUME IInv, Pair, Undisturbed, NEW s \in Station
  PROVE  SetLocalBusy(s) \/ ClearLocalBusy(s) \/ SetTxCompleteNtf(s) => Maps(s) /\ Steady(s)
<1> DEFINE d == dl[s]
           fl == d.flags \cup {"PENDING_RR_RNR"}
           Same(e) == /\ e \in Dlcb /\ e.state = d.state
                      /\ e.i_xmit_q = d.i_xmit_q /\ e.i_rx_q = d.i_rx_q
<1>1. d \in Dlcb /\ fl \in SUBSET Flag /\ dl \in [Station -> Dlcb]
  BY Setting, Fields DEF Flag, IInv, TypeOK
<1> HIDE DEF fl
<1>2. ASSUME NEW e, Same(e), dl' = [dl EXCEPT ![s] = e], link' = link, sent' = sent
      PROVE  Maps(s) /\ Steady(s)
  BY <1>1, <1>2, QuietMaps
<1>3. ASSUME SetLocalBusy(s) PROVE Maps(s) /\ Steady(s)
  <2> DEFINE e == [d EXCEPT !.local_busy = TRUE, !.flags = fl]
  <2>1. dl' = [dl EXCEPT ![s] = e] /\ link' = link /\ sent' = sent
    BY <1>1, <1>3 DEF SetLocalBusy, fl
  <2>2. Same(e)
    BY <1>1 DEF Dlcb
  <2> HIDE DEF e
  <2> QED
    BY <1>2, <2>1, <2>2
<1>4. ASSUME ClearLocalBusy(s) PROVE Maps(s) /\ Steady(s)
  <2> DEFINE e == [d EXCEPT !.local_busy = FALSE, !.flags = fl]
             r == [e EXCEPT !.rung = TRUE]
  <2>1. /\ \/ dl' = [dl EXCEPT ![s] = e]
           \/ dl' = [dl EXCEPT ![s] = r]
        /\ link' = link /\ sent' = sent
    BY <1>4 DEF ClearLocalBusy, DataInd, fl
  <2>2. Same(e)
    BY <1>1 DEF Dlcb
  <2> HIDE DEF e
  <2>3. Same(r)
    BY <2>2 DEF Dlcb
  <2> HIDE DEF r
  <2> QED
    BY <1>2, <2>1, <2>2, <2>3
<1>5. ASSUME SetTxCompleteNtf(s) PROVE Maps(s) /\ Steady(s)
  <2> DEFINE f == d.flags \cup {"NOTIFY_TX_DONE"}
             e == [d EXCEPT !.flags = f]
  <2>1. dl' = [dl EXCEPT ![s] = e] /\ link' = link /\ sent' = sent
    BY <1>1, <1>5 DEF SetTxCompleteNtf
  <2>2. f \in SUBSET Flag
    BY <1>1, Fields DEF Flag
  <2> HIDE DEF f
  <2>3. Same(e)
    BY <1>1, <2>2 DEF Dlcb
  <2> HIDE DEF e
  <2> QED
    BY <1>2, <2>1, <2>3
<1> QED
  BY <1>3, <1>4, <1>5

\* LLCP_DisconnectReq closes at once when everything is acknowledged.
LEMMA DisconnectMaps ==
  ASSUME IInv, Pair, Undisturbed, NEW s \in Station, Disconnect(s)
  PROVE  Maps(s) /\ Steady(s)
<1> DEFINE p == Peer(s)
           d == dl[s]
           b == dl[p]
           c == [d EXCEPT !.state = "W4_REMOTE_DM"]
           e == SendDisc(d)
           f == d.flags \cup {"PENDING_DISC"}
           g == [d EXCEPT !.flags = f]
<1>1. /\ Sound(s, d) /\ d \in Dlcb /\ b \in Dlcb /\ link \in Link /\ ~HasI(d.sig_xmit_q)
      /\ d.state = "CONNECTED" /\ dl \in [Station -> Dlcb] /\ d.sig_xmit_q \in Seq(PDU)
  BY Setting, IInvSound, Fields DEF Disconnect
<1>2. sent' = sent
  BY DEF Disconnect
<1>3. CASE Acked(d)
  <2>1. Moves(d, e, <<Disc>>) /\ Sound(s, e)
    BY <1>1, <1>3, SendDiscMoves, SendDiscSound
  <2>2. Update(s, e, link)
    BY <1>3 DEF Disconnect
  <2>3. e.state = "W4_REMOTE_DM" /\ e.i_xmit_q = d.i_xmit_q /\ e.i_rx_q = d.i_rx_q
    BY <1>1 DEF SendDisc, Queue, Dlcb
  <2>4. ~HasI(e.sig_xmit_q)
    <3>1. Disc \in PDU /\ Disc.type # "I" /\ e.sig_xmit_q = Append(d.sig_xmit_q, Disc)
      BY <1>1, <2>1, Kinds, InfoMore DEF Moves
    <3> QED
      BY <1>1, <3>1, InfoMore
  <2> HIDE DEF e
  <2>5. PICK h \in Dlcb : /\ dl' = [dl EXCEPT ![s] = h] /\ Ships(s, e, link, h, link')
    BY <1>1, <2>1, <2>2, <2>4, UpdateShips
  <2>6. d.i_xmit_q = <<>>
    BY <1>3 DEF Acked
  <2>7. h.state = "W4_REMOTE_DM" /\ h.i_rx_q = d.i_rx_q
    BY <2>3, <2>5 DEF Ships
  <2>8. Pipe(s)' = Pipe(s)
    <3>1. dl'[s] = h /\ dl'[p] = b
      BY <1>1, <2>5, Peers
    <3>2. Pipe(s) = Into(p, b, d, link) /\ Pipe(s)' = Into(p, b, h, link')
      BY <3>1, PipesAre
    <3> QED
      BY <2>3, <2>5, <3>2 DEF Into, Ships
  <2>9. Pipe(p)' \in Data!Cut(Pipe(p))
    <3> DEFINE w == Carried(Ahead(link, s)) \o b.i_xmit_q
    <3>1. w \in Seq(Nat) /\ d.i_rx_q \in Seq(Nat)
      BY <1>1, Setting, IntoSeq
    <3>2. dl'[s] = h /\ dl'[p] = b
      BY <1>1, <2>5, Peers
    <3>3. Pipe(p) = d.i_rx_q \o w /\ Pipe(p)' = d.i_rx_q \o <<>>
      BY <1>1, <2>7, <3>2, PipesAre DEF Into
    <3> HIDE DEF w
    <3> QED
      BY <3>1, <3>3, CutPrefix
  <2>10. Up(s) /\ ~Up(s)'
    BY <1>1, <2>5, <2>7 DEF Up
  <2>11. Steady(s)
    <3>1. dl'[s] = h /\ dl'[p] = b
      BY <1>1, <2>5, Peers
    <3> QED
      BY <1>1, <2>3, <2>5, <2>7, <3>1 DEF Steady, Ships
  <2> QED
    BY <1>2, <2>8, <2>9, <2>10, <2>11 DEF Maps, Closes
<1>4. CASE ~Acked(d)
  <2>1. dl' = [dl EXCEPT ![s] = g] /\ link' = link
    BY <1>1, <1>4 DEF Disconnect
  <2>2. f \in SUBSET Flag
    BY <1>1, Fields DEF Flag
  <2> HIDE DEF f
  <2>3. g.state = d.state /\ g.i_xmit_q = d.i_xmit_q /\ g.i_rx_q = d.i_rx_q
    BY <1>1, <2>2 DEF Dlcb
  <2> HIDE DEF g
  <2> QED
    BY <1>1, <1>2, <2>1, <2>3, QuietMaps
<1> QED
  BY <1>3, <1>4

\* What handling the first of qa makes of the SDUs of d.
Takes(d, e, b, qa) ==
  \/ /\ e.state = d.state /\ e.i_xmit_q = d.i_xmit_q
     /\ e.i_rx_q = IF d.state = "CONNECTED" /\ qa[1].type = "I"
                     THEN Append(d.i_rx_q, qa[1].sdu) ELSE d.i_rx_q
     /\ d.state = "W4_REMOTE_RESP" => qa[1].type # "I"
  \/ /\ d.state = "CONNECTED" /\ e.state = "W4_REMOTE_DM"
     /\ e.i_xmit_q = d.i_xmit_q /\ e.i_rx_q = d.i_rx_q
  \/ /\ d.state = "CONNECTED" /\ e.state = "IDLE" /\ b.state = "W4_REMOTE_DM"
     /\ e.i_xmit_q = <<>> /\ e.i_rx_q = <<>>
  \/ /\ d.state \in {"IDLE", "W4_REMOTE_RESP"} /\ e.state \in {"IDLE", "W4_LOCAL_RESP"}
     /\ d.i_xmit_q = <<>> /\ d.i_rx_q = <<>> /\ e.i_xmit_q = <<>> /\ e.i_rx_q = <<>>
     /\ d.state = "W4_REMOTE_RESP" => b.i_xmit_q = <<>> /\ ~HasI(qa)
  \/ /\ d.state = "W4_REMOTE_RESP" /\ e.state = "CONNECTED" /\ qa[1] = Cc
     /\ d.i_xmit_q = <<>> /\ d.i_rx_q = <<>> /\ e.i_xmit_q = <<>> /\ e.i_rx_q = <<>>
     /\ b.state \in {"CONNECTED", "W4_REMOTE_DM"}
  \/ /\ d.state = "W4_REMOTE_DM" /\ e.state = "IDLE"
     /\ d.i_xmit_q = <<>> /\ e.i_xmit_q = <<>> /\ e.i_rx_q = <<>>

\* A signalling PDU more, a state other, a control block given back.
LEMMA QueueSdus ==
  ASSUME NEW d \in Dlcb, NEW p \in PDU
  PROVE  LET e == Queue(d, p)
         IN  e \in Dlcb /\ e.state = d.state /\ e.i_xmit_q = d.i_xmit_q /\ e.i_rx_q = d.i_rx_q
<1> DEFINE q == Append(d.sig_xmit_q, p)
           e == [d EXCEPT !.sig_xmit_q = q]
<1>1. Queue(d, p) = e /\ q \in Seq(PDU)
  BY Fields DEF Queue
<1> HIDE DEF q
<1>2. e \in Dlcb /\ e.state = d.state /\ e.i_xmit_q = d.i_xmit_q /\ e.i_rx_q = d.i_rx_q
  BY <1>1 DEF Dlcb
<1> QED
  BY <1>1, <1>2

\* The state alone changes.
LEMMA StateSdus ==
  ASSUME NEW d \in Dlcb, NEW st \in State
  PROVE  LET e == [d EXCEPT !.state = st]
         IN  e \in Dlcb /\ e.state = st /\ e.i_xmit_q = d.i_xmit_q /\ e.i_rx_q = d.i_rx_q
BY DEF Dlcb

\* The control block is given back with all it held.
LEMMA DeallocateSdus ==
  ASSUME NEW d \in Dlcb
  PROVE  LET e == Deallocate(d)
         IN  e \in Dlcb /\ e.state = "IDLE" /\ e.i_xmit_q = <<>> /\ e.i_rx_q = <<>>
<1> DEFINE e == Deallocate(d)
<1>1. e \in Dlcb /\ e.state = "IDLE" /\ Blank(e)
  BY DeallocateIs
<1> QED
  BY <1>1, BlankFields

\* A good I PDU of a connection is received.
LEMMA ProcISdus ==
  ASSUME NEW s, NEW d \in Dlcb, d.state = "CONNECTED", NEW p \in PDU, p.type = "I",
         ValidNr(d, p.nr), p.ns = d.next_rx_seq, Minus(p.ns, d.sent_ack_seq) < Rw[s]
  PROVE  LET e == Process(s, d, p)
         IN  /\ e.state = "CONNECTED" /\ e.i_xmit_q = d.i_xmit_q
             /\ e.i_rx_q = Append(d.i_rx_q, p.sdu)
<1> DEFINE rx == (d.next_rx_seq + 1) % SeqMod
           q  == Append(d.i_rx_q, p.sdu)
           new == [d EXCEPT !.next_rx_seq = rx, !.rcvd_ack_seq = p.nr, !.i_rx_q = q]
           told == [new EXCEPT !.rung = TRUE]
           rung == IF ~new.local_busy /\ Len(new.i_rx_q) = 1 THEN DataInd(new) ELSE new
           fl == rung.flags \cup {"PENDING_RR_RNR"}
           full == [rung EXCEPT !.is_rx_congested = TRUE, !.flags = fl]
           Taken(e) == /\ e \in Dlcb /\ e.state = "CONNECTED" /\ e.i_xmit_q = d.i_xmit_q
                       /\ e.i_rx_q = q
<1>1. rx \in Seqno /\ q \in Seq(Nat) /\ p.nr \in Seqno
  <2>1. p.nr \in Seqno /\ p.sdu \in Nat /\ d.i_rx_q \in Seq(Nat) /\ d.next_rx_seq \in Seqno
    BY Fields, PduFields
  <2>2. 1 \in 0..SeqMod
    BY SeqModAssumption
  <2> QED
    BY <2>1, <2>2, NextSeqno
<1>2. Process(s, d, p) = ProcI(s, d, p)
  BY DEF Process
<1>3. ProcI(s, d, p) = rung \/ ProcI(s, d, p) = full
  BY DEF ProcI
<1> HIDE DEF rx, q
<1>4. Taken(new)
  BY <1>1 DEF Dlcb
<1>5. rung = new \/ rung = told
  BY DEF DataInd
<1> HIDE DEF new
<1>6. Taken(told)
  BY <1>4 DEF Dlcb
<1> HIDE DEF told, rung
<1>7. Taken(rung)
  BY <1>4, <1>5, <1>6
<1>8. fl \in SUBSET Flag
  BY <1>7, Fields DEF Flag
<1> HIDE DEF fl
<1>9. Taken(full)
  BY <1>7, <1>8 DEF Dlcb
<1> HIDE DEF full
<1> QED
  BY <1>2, <1>3, <1>7, <1>9 DEF q

\* A good RR or RNR moves no SDU.
LEMMA ProcRrRnrSdus ==
  ASSUME NEW s, NEW d \in Dlcb, d.state # "IDLE", NEW p \in PDU, Ack(p), ValidNr(d, p.nr)
  PROVE  LET e == Process(s, d, p)
         IN  /\ e.i_xmit_q = d.i_xmit_q /\ e.i_rx_q = d.i_rx_q
             /\ e.state = d.state \/ (d.state = "CONNECTED" /\ e.state = "W4_REMOTE_DM")
<1> DEFINE busy == p.type = "RNR"
           t == IF busy # d.remote_busy /\ ~d.is_tx_congested THEN busy ELSE d.told
           x == [d EXCEPT !.rcvd_ack_seq = p.nr, !.remote_busy = busy, !.told = t]
<1>1. busy \in BOOLEAN /\ t \in BOOLEAN /\ p.nr \in Seqno
  BY Fields, PduFields DEF Ack
<1>2. Process(s, d, p) = ProcRrRnr(d, p)
  BY DEF Process, Ack
<1>3. ProcRrRnr(d, p) = CheckPendingDisc(x)
  BY DEF ProcRrRnr
<1> HIDE DEF busy, t
<1>4. /\ x \in Dlcb /\ x.state = d.state /\ x.i_xmit_q = d.i_xmit_q /\ x.i_rx_q = d.i_rx_q
  BY <1>1 DEF Dlcb
<1> HIDE DEF x
<1> DEFINE e == CheckPendingDisc(x)
<1>5. Still(x, e)
  BY <1>4, CheckPendingDiscStill
<1>6. Process(s, d, p) = e
  BY <1>2, <1>3
<1> HIDE DEF e
<1>7. /\ e.i_xmit_q = d.i_xmit_q /\ e.i_rx_q = d.i_rx_q
      /\ e.state = d.state \/ (d.state = "CONNECTED" /\ e.state = "W4_REMOTE_DM")
  BY <1>4, <1>5 DEF Still
<1> QED
  BY <1>6, <1>7

\* Handling a PDU.
LEMMA Taken ==
  ASSUME NEW s \in Station, NEW d, NEW b, NEW qa, NEW wa, NEW wb,
         Ends(d, b, qa, d.sig_xmit_q, wa, wb), wa = Rw[s],
         Paired(d, b, qa, d.sig_xmit_q, wa, wb), Signals(d.sig_xmit_q), qa # <<>>
  PROVE  Takes(d, Process(s, d, qa[1]), b, qa)
<1> DEFINE qb == d.sig_xmit_q
           e == Process(s, d, qa[1])
<1>1. /\ d \in Dlcb /\ b \in Dlcb /\ qa \in Seq(PDU) /\ qb \in Seq(PDU) /\ wa \in Seqno
      /\ wb \in Seqno /\ qa[1] \in PDU
  BY TailParts DEF Ends
<1>2. /\ d.state \in {"IDLE", "W4_REMOTE_RESP", "CONNECTED", "W4_REMOTE_DM"}
  BY HandlePhases
<1>3. /\ Connect.type # "I" /\ Cc.type # "I" /\ Disc.type # "I" /\ Rejected.type # "I"
      /\ Closed.type # "I" /\ NotHere.type # "I"
      /\ Closed \in PDU /\ Rejected \in PDU /\ NotHere \in PDU
  BY Kinds
<1>4. CASE d.state = "IDLE"
  <2>1. Blank(d) /\ (qa[1] = Connect \/ qa[1] = NotHere)
    <3>1. Blank(d) /\ (qa = <<Connect>> \/ All(qa, NotHere))
      BY <1>4, HandlePhases
    <3> QED
      BY <1>1, <3>1, TailParts
  <2>2. d.i_rx_q = <<>> /\ d.i_xmit_q = <<>>
    BY <2>1, BlankFields
  <2>3. CASE qa[1] = Connect
    <3> DEFINE f == Deallocate(d)
               g == [f EXCEPT !.state = "W4_LOCAL_RESP"]
    <3>1. e = g
      BY <1>4, <2>3, ProcessIs
    <3>2. f \in Dlcb /\ f.i_xmit_q = <<>> /\ f.i_rx_q = <<>>
      BY <1>1, DeallocateSdus
    <3> HIDE DEF f
    <3>3. g.state = "W4_LOCAL_RESP" /\ g.i_xmit_q = <<>> /\ g.i_rx_q = <<>>
      BY <3>2, StateSdus DEF State
    <3> HIDE DEF g, e
    <3> QED
      BY <1>4, <2>2, <3>1, <3>3 DEF Takes, e
  <2>4. CASE qa[1] = NotHere
    <3>1. e = d
      BY <1>4, <2>4, ProcessIs
    <3> HIDE DEF e
    <3> QED
      BY <1>4, <3>1 DEF Takes, e
  <2> QED
    BY <2>1, <2>3, <2>4
<1>5. CASE d.state = "W4_REMOTE_RESP"
  <2>1. /\ Blank(d)
        /\ \/ Blank(b) /\ ~HasI(qa) /\ (qa[1] = Connect \/ qa[1] = Rejected)
           \/ qa[1] = Cc /\ b.state \in {"CONNECTED", "W4_REMOTE_DM"}
    <3>1. /\ Blank(d)
          /\ \/ Blank(b) /\ \/ qa = <<Connect>> \/ qa = <<Rejected>>
                            \/ qa = <<Connect, Rejected>> \/ qa = <<Rejected, Connect>>
             \/ Accepted(b, d, qb, qa) \/ Fleeting(b, d, qb, qa)
      BY <1>5, HandlePhases
    <3>2. ASSUME qa \in {<<Connect>>, <<Rejected>>, <<Connect, Rejected>>, <<Rejected, Connect>>}
          PROVE  ~HasI(qa) /\ (qa[1] = Connect \/ qa[1] = Rejected)
      BY <1>3, <3>2 DEF HasI
    <3>3. Accepted(b, d, qb, qa) \/ Fleeting(b, d, qb, qa)
            => qa[1] = Cc /\ b.state \in {"CONNECTED", "W4_REMOTE_DM"}
      BY DEF Accepted, Fleeting, Leaving
    <3> QED
      BY <3>1, <3>2, <3>3
  <2>2. d.i_rx_q = <<>> /\ d.i_xmit_q = <<>>
    BY <2>1, BlankFields
  <2>3. CASE qa[1] = Connect
    <3>1. e = Queue(d, Rejected)
      BY <1>5, <2>3, ProcessIs
    <3>2. e.state = d.state /\ e.i_xmit_q = d.i_xmit_q /\ e.i_rx_q = d.i_rx_q
      BY <1>1, <1>3, <3>1, QueueSdus
    <3> HIDE DEF e
    <3> QED
      BY <1>3, <1>5, <2>3, <3>2 DEF Takes, e
  <2>4. CASE Blank(b) /\ ~HasI(qa) /\ qa[1] = Rejected
    <3>1. e = Deallocate(d) /\ b.i_xmit_q = <<>>
      BY <1>5, <2>4, ProcessIs, BlankFields
    <3>2. e.state = "IDLE" /\ e.i_xmit_q = <<>> /\ e.i_rx_q = <<>>
      BY <1>1, <3>1, DeallocateSdus
    <3> HIDE DEF e
    <3> QED
      BY <1>5, <2>2, <2>4, <3>1, <3>2 DEF Takes, e
  <2>5. CASE qa[1] = Cc /\ b.state \in {"CONNECTED", "W4_REMOTE_DM"}
    <3>1. e = [d EXCEPT !.state = "CONNECTED"]
      BY <1>5, <2>5, ProcessIs
    <3>2. e.state = "CONNECTED" /\ e.i_xmit_q = d.i_xmit_q /\ e.i_rx_q = d.i_rx_q
      BY <1>1, <3>1, StateSdus DEF State
    <3> HIDE DEF e
    <3> QED
      BY <1>5, <2>2, <2>5, <3>2 DEF Takes, e
  <2> QED
    BY <2>1, <2>3, <2>4, <2>5
<1>6. CASE d.state = "CONNECTED"
  <2>1. Flows(d, b, qa, qb, wa, wb) /\ Connected(d, b, qa, qb)
    BY <1>6, ConnectedPhases
  <2>2. \/ Info(qa[1])
        \/ b.state = "W4_REMOTE_DM" /\ qa[1] = Disc
    <3>1. CASE Joined(d, b, qa, qb)
      BY <1>1, <3>1, TailParts DEF Joined
    <3>2. CASE Left(b, d, qb, qa)
      BY <1>1, <3>2, PartingSteps DEF Left, Ack, Info, Leaving
    <3> QED
      BY <2>1, <3>1, <3>2 DEF Connected, Accepted
  <2>3. CASE Info(qa[1])
    <3>1. /\ ValidNr(d, qa[1].nr)
          /\ qa[1].type = "I" => qa[1].ns = d.next_rx_seq /\ Minus(qa[1].ns, d.sent_ack_seq) < wa
      BY <1>6, <2>3, InfoGood
    <3>2. CASE qa[1].type = "I"
      <4>1. e.state = "CONNECTED" /\ e.i_xmit_q = d.i_xmit_q /\ e.i_rx_q = Append(d.i_rx_q, qa[1].sdu)
        BY <1>1, <1>6, <3>1, <3>2, ProcISdus
      <4> HIDE DEF e
      <4> QED
        BY <1>6, <3>2, <4>1 DEF Takes, e
    <3>3. CASE qa[1].type # "I"
      <4>1. Ack(qa[1])
        BY <2>3, <3>3 DEF Ack, Info
      <4>2. /\ e.i_xmit_q = d.i_xmit_q /\ e.i_rx_q = d.i_rx_q
            /\ e.state = d.state \/ e.state = "W4_REMOTE_DM"
        BY <1>1, <1>6, <3>1, <4>1, ProcRrRnrSdus
      <4> HIDE DEF e
      <4> QED
        BY <1>6, <3>3, <4>2 DEF Takes, e
    <3> QED
      BY <3>2, <3>3
  <2>4. CASE b.state = "W4_REMOTE_DM" /\ qa[1] = Disc
    <3> DEFINE x == Queue(d, Closed)
    <3>1. e = Deallocate(x)
      BY <1>6, <2>4, ProcessIs
    <3>2. x \in Dlcb
      BY <1>1, <1>3, QueueSdus
    <3> HIDE DEF x
    <3>3. e.state = "IDLE" /\ e.i_xmit_q = <<>> /\ e.i_rx_q = <<>>
      BY <3>1, <3>2, DeallocateSdus
    <3> HIDE DEF e
    <3> QED
      BY <1>6, <2>4, <3>3 DEF Takes, e
  <2> QED
    BY <2>2, <2>3, <2>4
<1>7. CASE d.state = "W4_REMOTE_DM"
  <2>1. d.i_xmit_q = <<>>
    BY <1>7, SendsConnected
  <2>2. Ack(qa[1]) \/ qa[1].type = "I" \/ qa[1] = Disc \/ qa[1] = Closed
    <3>1. /\ <<Disc>> \in Seq(PDU) /\ <<Disc, Closed>> \in Seq(PDU)
          /\ <<Closed>> \in Seq(PDU) /\ <<Closed, Connect>> \in Seq(PDU)
          /\ <<Disc>>[1] = Disc /\ <<Disc, Closed>>[1] = Disc /\ <<Closed>>[1] = Closed
          /\ <<Closed, Connect>>[1] = Closed
      BY Kinds, Short
    <3>2. \A w \in Seq(PDU) : Acks(qa, w) /\ ~Ack(qa[1]) => qa = w
      BY <1>1, AcksSteps
    <3>3. Left(d, b, qa, qb) => Info(qa[1])
      BY <1>1, TailParts DEF Left
    <3>4. BothLeft(d, b, qa, qb) \/ BothLeft(b, d, qb, qa) \/ Answered(d, b, qa, qb)
            => Ack(qa[1]) \/ qa[1] = Disc \/ qa[1] = Closed
      BY <3>1, <3>2 DEF BothLeft, Answered
    <3> QED
      BY <1>7, <3>3, <3>4, HandlePhases DEF Info, Ack
  <2>3. CASE Ack(qa[1])
    <3>1. qa[1].nr = d.rcvd_ack_seq
      BY <1>7, <2>3, AckDropped
    <3>2. ValidNr(d, qa[1].nr)
      <4>1. d.rcvd_ack_seq \in Seqno
        BY <1>1, Fields
      <4>2. Minus(d.rcvd_ack_seq, d.rcvd_ack_seq) = 0
        BY <4>1, MinusIs
      <4>3. d.next_tx_seq = d.rcvd_ack_seq
        BY <1>7, <2>3, AckDropped
      <4> QED
        BY <3>1, <4>2, <4>3 DEF ValidNr
    <3>3. e.i_xmit_q = d.i_xmit_q /\ e.i_rx_q = d.i_rx_q /\ e.state = d.state
      BY <1>1, <1>7, <2>3, <3>2, ProcRrRnrSdus
    <3> HIDE DEF e
    <3> QED
      BY <1>7, <3>3 DEF Takes, e
  <2>4. CASE qa[1].type = "I" \/ qa[1] = Disc
    <3>1. e = Queue(d, NotHere) \/ e = Queue(d, Closed)
      <4>1. CASE qa[1].type = "I"
        <5>1. e = ProcI(s, d, qa[1])
          BY <4>1 DEF Process
        <5> QED
          BY <1>7, <5>1 DEF ProcI, NotHere
      <4> QED
        BY <1>7, <2>4, <4>1, ProcessIs
    <3>2. e.state = d.state /\ e.i_xmit_q = d.i_xmit_q /\ e.i_rx_q = d.i_rx_q
      <4> HIDE DEF e
      <4>1. CASE e = Queue(d, NotHere)
        BY <1>1, <1>3, <4>1, QueueSdus
      <4>2. CASE e = Queue(d, Closed)
        BY <1>1, <1>3, <4>2, QueueSdus
      <4> QED
        BY <3>1, <4>1, <4>2
    <3> HIDE DEF e
    <3> QED
      BY <1>7, <3>2 DEF Takes, e
  <2>5. CASE qa[1] = Closed
    <3>1. e = Deallocate(d)
      BY <1>7, <2>5, ProcessIs
    <3>2. e.state = "IDLE" /\ e.i_xmit_q = <<>> /\ e.i_rx_q = <<>>
      BY <1>1, <3>1, DeallocateSdus
    <3> HIDE DEF e
    <3> QED
      BY <1>7, <2>1, <3>2 DEF Takes, e
  <2> QED
    BY <2>2, <2>3, <2>4, <2>5
<1> QED
  BY <1>2, <1>4, <1>5, <1>6, <1>7

\* s waits for the CC that is on its way: its peer may have closed again already.
Unheard(s) ==
  /\ dl[s].state = "W4_REMOTE_RESP" /\ dl[Peer(s)].state \in {"CONNECTED", "W4_REMOTE_DM"}
  /\ Coming(s) # <<>>

\* Whoever accepted a connection has received nothing before its peer knows.
Unread == Undisturbed => \A s \in Station : Unheard(s) => dl[Peer(s)].i_rx_q = <<>>

\* An SDU is received: it leaves the frame and joins the queue.
LEMMA ReceivedConcat ==
  ASSUME NEW x \in Seq(Nat), NEW a \in Seq(Nat), NEW z \in Seq(Nat), NEW k \in Nat
  PROVE  x \o ((<<k>> \o a) \o z) = Append(x, k) \o (a \o z)
<1> DEFINE o == <<k>>
           w == a \o z
<1>1. o \in Seq(Nat) /\ w \in Seq(Nat) /\ Append(x, k) = x \o o
  <2>1. o \in Seq(Nat) /\ Append(x, k) = x \o o
    OBVIOUS
  <2>2. w \in Seq(Nat)
    OBVIOUS
  <2> QED
    BY <2>1, <2>2
<1>2. ASSUME NEW q \in Seq(Nat), NEW r \in Seq(Nat), NEW t \in Seq(Nat)
      PROVE  (q \o r) \o t = q \o (r \o t)
  OBVIOUS
<1>3. (o \o a) \o z = o \o w
  BY <1>1, <1>2
<1> HIDE DEF o, w
<1>4. x \o (o \o w) = (x \o o) \o w
  BY <1>1, <1>2
<1> QED
  BY <1>1, <1>3, <1>4 DEF o, w

\* Handling a PDU moves an SDU from under way to received, opens or closes a connection,
\* or is no step for the applications.
LEMMA ReceiveMaps ==
  ASSUME IInv, Pair, Unread, Undisturbed, NEW s \in Station, ReceivePdu(s)
  PROVE  /\ Maps(s) /\ dl'[Peer(s)] = dl[Peer(s)]
         /\ Coming(s) # <<>> /\ Coming(s)' = Tail(Coming(s))
         /\ Takes(dl[s], dl'[s], dl[Peer(s)], Coming(s))
<1> DEFINE p == Peer(s)
           d == dl[s]
           b == dl[p]
           pdus == link.pdus
           sb == b.sig_xmit_q
           qa == pdus \o sb
           e == Process(s, d, qa[1])
<1>1. /\ Matched(s, d, b, link) /\ Sound(s, d) /\ d \in Dlcb /\ b \in Dlcb /\ link \in Link
      /\ Heard(d, Ahead(link, s)) /\ p \in Station /\ p # s /\ Peer(p) = s
  BY Setting, Peers
<1>2. link.at = s /\ pdus # <<>> /\ pdus \in Seq(PDU) /\ sb \in Seq(PDU) /\ d.sig_xmit_q \in Seq(PDU)
  BY <1>1, LinkFields, Fields DEF ReceivePdu
<1>3. Ahead(link, s) = pdus /\ Ahead(link, p) = <<>> /\ <<>> \o d.sig_xmit_q = d.sig_xmit_q
  BY <1>1, <1>2 DEF Ahead
<1>4. /\ Ends(d, b, qa, d.sig_xmit_q, Rw[s], Rw[p]) /\ Paired(d, b, qa, d.sig_xmit_q, Rw[s], Rw[p])
      /\ Signals(d.sig_xmit_q)
  BY <1>1, <1>3 DEF Matched
<1>5. /\ Tail(qa) = Tail(pdus) \o sb /\ qa[1] = pdus[1] /\ qa # <<>> /\ Tail(pdus) \in Seq(PDU)
      /\ Head(pdus) = pdus[1]
  <2>1. \A q, r \in Seq(PDU) : q # <<>> => /\ Tail(q \o r) = Tail(q) \o r /\ (q \o r)[1] = q[1]
                                           /\ q \o r # <<>> /\ Tail(q) \in Seq(PDU)
    BY InfoParts
  <2>2. Head(pdus) = pdus[1]
    BY <1>2, TailParts
  <2> QED
    BY <1>2, <2>1, <2>2
<1>6. /\ dl' = [dl EXCEPT ![s] = e] /\ link' = [link EXCEPT !.pdus = Tail(pdus)] /\ sent' = sent
      /\ dl \in [Station -> Dlcb]
  BY <1>5, IInvSound DEF ReceivePdu
<1>7. Takes(d, e, b, qa)
  BY <1>4, <1>5, Taken
<1>8. Ahead(link', s) = Tail(pdus) /\ Ahead(link', p) = <<>>
  BY <1>1, <1>2, <1>6 DEF Ahead, Link
<1>9. HasI(pdus) => HasI(qa)
  <2>1. \A q, r \in Seq(PDU) : HasI(q) => HasI(q \o r)
    BY DEF HasI
  <2> QED
    BY <1>2, <2>1
<1>10. Coming(s) = qa /\ Coming(s)' = Tail(qa)
  BY <1>1, <1>2, <1>5, <1>6 DEF Coming, Underway, Link
<1> HIDE DEF qa, e, pdus
<1>11. dl'[s] = e /\ dl'[p] = b
  BY <1>1, <1>6
<1>12. /\ d.i_rx_q \in Seq(Nat) /\ b.i_xmit_q \in Seq(Nat) /\ b.i_rx_q \in Seq(Nat)
  BY <1>1, Fields
<1>13. /\ Pipe(p) = Into(s, d, b, link) /\ Pipe(s) = Into(p, b, d, link)
       /\ Pipe(p)' = Into(s, e, b, link') /\ Pipe(s)' = Into(p, b, e, link')
  BY <1>11, PipesAre
<1>14. /\ d.state \in {"CONNECTED", "W4_REMOTE_RESP"}
            => Pipe(p) = d.i_rx_q \o (Carried(pdus) \o b.i_xmit_q)
       /\ d.state \notin {"CONNECTED", "W4_REMOTE_RESP"} => Pipe(p) = d.i_rx_q
       /\ Pipe(p) \in Seq(Nat)
  <2> DEFINE q == Ahead(link, s)
  <2>1. q \in Seq(PDU) /\ q = pdus /\ Heard(d, q)
    BY <1>1, <1>2, <1>3
  <2>2. /\ d.state \in {"CONNECTED", "W4_REMOTE_RESP"}
              => Into(s, d, b, link) = d.i_rx_q \o (Carried(q) \o b.i_xmit_q)
        /\ d.state \notin {"CONNECTED", "W4_REMOTE_RESP"} => Into(s, d, b, link) = d.i_rx_q
        /\ Into(s, d, b, link) \in Seq(Nat)
    <3>1. d \in Dlcb /\ b \in Dlcb
      BY <1>1
    <3> HIDE DEF d, b
    <3> QED
      BY <2>1, <3>1, IntoSeq
  <2> HIDE DEF q
  <2> QED
    BY <1>13, <2>1, <2>2
<1>15. /\ e.state \in {"CONNECTED", "W4_REMOTE_RESP"}
            => Pipe(p)' = e.i_rx_q \o (Carried(Tail(pdus)) \o b.i_xmit_q)
       /\ e.state \notin {"CONNECTED", "W4_REMOTE_RESP"} => Pipe(p)' = e.i_rx_q \o <<>>
  BY <1>8, <1>13 DEF Into
<1>16. (e.i_xmit_q = d.i_xmit_q \/ b.state = "W4_REMOTE_DM") => Pipe(s)' = Pipe(s)
  BY <1>3, <1>8, <1>13 DEF Into
<1>17. d.state \in {"CONNECTED", "W4_REMOTE_RESP"} =>
         /\ Carried(pdus) \in Seq(Nat) /\ Carried(Tail(pdus)) \in Seq(Nat)
         /\ pdus[1].type # "I" => Carried(Tail(pdus)) = Carried(pdus)
         /\ pdus[1].type = "I" =>
              pdus[1].sdu \in Nat /\ <<pdus[1].sdu>> \o Carried(Tail(pdus)) = Carried(pdus)
  <2> SUFFICES ASSUME d.state \in {"CONNECTED", "W4_REMOTE_RESP"}
               PROVE  /\ Carried(pdus) \in Seq(Nat) /\ Carried(Tail(pdus)) \in Seq(Nat)
                      /\ pdus[1].type # "I" => Carried(Tail(pdus)) = Carried(pdus)
                      /\ pdus[1].type = "I" =>
                           pdus[1].sdu \in Nat /\ <<pdus[1].sdu>> \o Carried(Tail(pdus)) = Carried(pdus)
    OBVIOUS
  <2>1. PICK lo \in Nat, n \in Nat : Run(pdus, lo, n)
    BY <1>1, <1>3 DEF Heard
  <2> QED
    BY <1>2, <2>1, CarriedTail
<1>18. Up(s) = (d.state = "CONNECTED") /\ Up(s)' = (e.state = "CONNECTED")
  BY <1>11 DEF Up
<1>19. Maps(s)
  <2>1. CASE /\ e.state = d.state /\ e.i_xmit_q = d.i_xmit_q
             /\ e.i_rx_q = IF d.state = "CONNECTED" /\ qa[1].type = "I"
                             THEN Append(d.i_rx_q, qa[1].sdu) ELSE d.i_rx_q
             /\ d.state = "W4_REMOTE_RESP" => qa[1].type # "I"
    <3>1. Pipe(p)' = Pipe(p)
      <4>1. CASE d.state \in {"CONNECTED", "W4_REMOTE_RESP"} /\ pdus[1].type = "I"
        <5> DEFINE k == pdus[1].sdu
                   a == Carried(Tail(pdus))
                   x == d.i_rx_q
                   z == b.i_xmit_q
        <5>1. k \in Nat /\ a \in Seq(Nat) /\ x \in Seq(Nat) /\ z \in Seq(Nat)
          BY <1>12, <1>17, <4>1
        <5>2. Pipe(p) = x \o ((<<k>> \o a) \o z)
          BY <1>14, <1>17, <4>1
        <5>3. Pipe(p)' = Append(x, k) \o (a \o z)
          BY <1>5, <1>15, <2>1, <4>1
        <5> HIDE DEF k, a, x, z
        <5> QED
          BY <5>1, <5>2, <5>3, ReceivedConcat
      <4>2. CASE d.state \in {"CONNECTED", "W4_REMOTE_RESP"} /\ pdus[1].type # "I"
        <5>1. Pipe(p)' = d.i_rx_q \o (Carried(Tail(pdus)) \o b.i_xmit_q)
          BY <1>5, <1>15, <2>1, <4>2
        <5> QED
          BY <1>14, <1>17, <4>2, <5>1
      <4>3. CASE d.state \notin {"CONNECTED", "W4_REMOTE_RESP"}
        <5>1. Pipe(p)' = d.i_rx_q \o <<>>
          BY <1>15, <2>1, <4>3
        <5> QED
          BY <1>12, <1>14, <4>3, <5>1, CarriedEmpty
      <4> QED
        BY <4>1, <4>2, <4>3
    <3> QED
      BY <1>6, <1>16, <1>18, <2>1, <3>1 DEF Maps, Idles
  <2>2. CASE /\ d.state = "CONNECTED" /\ e.state = "W4_REMOTE_DM"
             /\ e.i_xmit_q = d.i_xmit_q /\ e.i_rx_q = d.i_rx_q
    <3> DEFINE w == Carried(pdus) \o b.i_xmit_q
    <3>1. w \in Seq(Nat)
      BY <1>12, <1>17, <2>2
    <3>2. Pipe(p) = d.i_rx_q \o w /\ Pipe(p)' = d.i_rx_q \o <<>>
      BY <1>14, <1>15, <2>2
    <3> HIDE DEF w
    <3>3. Pipe(p)' \in Data!Cut(Pipe(p))
      BY <1>12, <3>1, <3>2, CutPrefix
    <3> QED
      BY <1>6, <1>16, <1>18, <2>2, <3>3 DEF Maps, Closes
  <2>3. CASE /\ d.state = "CONNECTED" /\ e.state = "IDLE" /\ b.state = "W4_REMOTE_DM"
             /\ e.i_xmit_q = <<>> /\ e.i_rx_q = <<>>
    <3>1. Pipe(p)' = <<>>
      BY <1>15, <2>3, CarriedEmpty
    <3>2. Pipe(p)' \in Data!Cut(Pipe(p))
      BY <1>12, <1>14, <3>1, CutPrefix
    <3> QED
      BY <1>6, <1>16, <1>18, <2>3, <3>2 DEF Maps, Closes
  <2>4. CASE /\ d.state \in {"IDLE", "W4_REMOTE_RESP"} /\ e.state \in {"IDLE", "W4_LOCAL_RESP"}
             /\ d.i_xmit_q = <<>> /\ d.i_rx_q = <<>> /\ e.i_xmit_q = <<>> /\ e.i_rx_q = <<>>
             /\ d.state = "W4_REMOTE_RESP" => b.i_xmit_q = <<>> /\ ~HasI(qa)
    <3>1. Pipe(p)' = <<>>
      BY <1>15, <2>4, CarriedEmpty
    <3>2. Pipe(p) = <<>>
      <4>1. CASE d.state = "IDLE"
        BY <1>14, <2>4, <4>1
      <4>2. CASE d.state = "W4_REMOTE_RESP"
        <5>1. Carried(pdus) = <<>>
          BY <1>2, <1>9, <2>4, <4>2, CarriedNone
        <5> QED
          BY <1>14, <2>4, <4>2, <5>1, CarriedEmpty
      <4> QED
        BY <2>4, <4>1, <4>2
    <3> QED
      BY <1>6, <1>16, <1>18, <2>4, <3>1, <3>2 DEF Maps, Idles
  <2>5. CASE /\ d.state = "W4_REMOTE_RESP" /\ e.state = "CONNECTED" /\ qa[1] = Cc
             /\ d.i_xmit_q = <<>> /\ d.i_rx_q = <<>> /\ e.i_xmit_q = <<>> /\ e.i_rx_q = <<>>
             /\ b.state \in {"CONNECTED", "W4_REMOTE_DM"}
    <3>1. b.i_rx_q = <<>>
      BY <1>5, <1>10, <2>5 DEF Unread, Unheard
    <3>2. Pipe(s) = <<>>
      BY <1>3, <1>13, <2>5, <3>1, CarriedEmpty DEF Into
    <3>3. pdus[1].type # "I"
      BY <1>5, <2>5, Kinds
    <3>4. Pipe(p)' = Pipe(p)
      BY <1>14, <1>15, <1>17, <2>5, <3>3
    <3> QED
      BY <1>6, <1>16, <1>18, <2>5, <3>2, <3>4 DEF Maps, Opens
  <2>6. CASE /\ d.state = "W4_REMOTE_DM" /\ e.state = "IDLE"
             /\ d.i_xmit_q = <<>> /\ e.i_xmit_q = <<>> /\ e.i_rx_q = <<>>
    <3>1. Pipe(p)' = <<>>
      BY <1>15, <2>6, CarriedEmpty
    <3> QED
      BY <1>6, <1>16, <1>18, <2>6, <3>1 DEF Maps, Forgets
  <2> QED
    BY <1>7, <2>1, <2>2, <2>3, <2>4, <2>5, <2>6 DEF Takes
<1> QED
  BY <1>5, <1>7, <1>10, <1>11, <1>19

\* What is under way between a station that waits for a CC and one that accepted.
LEMMA AwaitPhases ==
  ASSUME NEW d, NEW b, NEW qa \in Seq(PDU), NEW qb \in Seq(PDU), NEW wa, NEW wb,
         Paired(d, b, qa, qb, wa, wb), b.state = "W4_REMOTE_RESP",
         d.state \in {"CONNECTED", "W4_REMOTE_DM"}
  PROVE  \/ qa = <<>> /\ qb # <<>>
         \/ qb = <<>> /\ qa # <<>> /\ Tail(qa) # <<>>
<1>1. /\ ~Setup(d, b, qa, qb) /\ ~Setup(b, d, qb, qa) /\ ~Open(b, d, qb, qa)
      /\ ~BothLeft(d, b, qa, qb) /\ ~BothLeft(b, d, qb, qa) /\ ~Answered(b, d, qb, qa)
  BY DEF Setup, Open, Joined, Accepted, Fleeting, Left, Leaving, BothLeft, Answered
<1>2. Open(d, b, qa, qb) => qa = <<>> /\ qb # <<>>
  BY DEF Open, Joined, Accepted, Fleeting, Left
<1>3. ASSUME Answered(d, b, qa, qb) PROVE qb = <<>> /\ qa # <<>> /\ Tail(qa) # <<>>
  <2>1. qb = <<>> /\ Acks(qa, <<Closed, Connect>>)
    BY <1>3 DEF Answered
  <2>2. Len(<<Closed, Connect>>) = 2
    OBVIOUS
  <2>3. Len(qa) \in Nat /\ Len(qa) >= 2
    BY <2>1, <2>2 DEF Acks, Then
  <2>4. qa # <<>>
    BY <2>3
  <2>5. Len(Tail(qa)) = Len(qa) - 1
    BY <2>4
  <2> QED
    BY <2>1, <2>3, <2>4, <2>5
<1> QED
  BY <1>1, <1>2, <1>3 DEF Paired, Half

\* What is under way in a pair.
LEMMA ComingPair ==
  ASSUME IInv, Pair, Undisturbed, NEW s \in Station
  PROVE  /\ Paired(dl[s], dl[Peer(s)], Coming(s), Coming(Peer(s)), Rw[s], Rw[Peer(s)])
         /\ Coming(s) \in Seq(PDU) /\ Coming(Peer(s)) \in Seq(PDU)
         /\ Signals(dl[Peer(s)].sig_xmit_q)
<1>1. Matched(s, dl[s], dl[Peer(s)], link) /\ Peer(s) \in Station /\ Peer(Peer(s)) = s
  BY PairMatched, Peers
<1>2. /\ Coming(s) = Ahead(link, s) \o dl[Peer(s)].sig_xmit_q
      /\ Coming(Peer(s)) = Ahead(link, Peer(s)) \o dl[s].sig_xmit_q
  BY <1>1 DEF Coming, Underway, Ahead
<1> QED
  BY <1>1, <1>2 DEF Matched, Ends

\* The step of station s leaves unread what must be.
LEMMA UnreadStep ==
  ASSUME IInv, Pair, Unread, Undisturbed, IInv', Pair', Undisturbed', NEW s \in Station,
         \/ Steady(s)
         \/ /\ dl'[Peer(s)] = dl[Peer(s)] /\ Coming(s) # <<>> /\ Coming(s)' = Tail(Coming(s))
            /\ Takes(dl[s], dl'[s], dl[Peer(s)], Coming(s))
  PROVE  Unread'
<1> DEFINE p == Peer(s)
           d == dl[s]
           b == dl[p]
           e == dl'[s]
           qa == Coming(s)
           qb == Coming(p)
           ra == Coming(s)'
           rb == Coming(p)'
<1>1. p \in Station /\ Peer(p) = s /\ Station = {s, p} /\ dl'[p] = b
  BY Peers DEF Steady
<1>2. /\ Paired(d, b, qa, qb, Rw[s], Rw[p]) /\ qa \in Seq(PDU) /\ qb \in Seq(PDU)
      /\ d \in Dlcb /\ b \in Dlcb /\ Signals(b.sig_xmit_q)
  BY ComingPair, PairMatched
<1>3. /\ Paired(e, b, ra, rb, Rw[s], Rw[p]) /\ ra \in Seq(PDU) /\ rb \in Seq(PDU)
  <2>1. /\ Paired(dl[s], dl[Peer(s)], Coming(s), Coming(Peer(s)), Rw[s], Rw[Peer(s)])'
        /\ (Coming(s) \in Seq(PDU))' /\ (Coming(Peer(s)) \in Seq(PDU))'
    BY ComingPair, PTL
  <2> QED
    BY <1>1, <2>1
<1>4. \/ Steady(s) /\ ra = qa
      \/ qa # <<>> /\ ra = Tail(qa) /\ Takes(d, e, b, qa)
  BY <1>1 DEF Steady, Coming, Underway, Ahead
<1>5. /\ d.state = "W4_REMOTE_RESP" /\ b.state \in {"CONNECTED", "W4_REMOTE_DM"} /\ qa # <<>>
           => b.i_rx_q = <<>>
      /\ b.state = "W4_REMOTE_RESP" /\ d.state \in {"CONNECTED", "W4_REMOTE_DM"} /\ qb # <<>>
           => d.i_rx_q = <<>>
  BY <1>1 DEF Unread, Unheard
<1>6. ASSUME e.state = "W4_REMOTE_RESP", b.state \in {"CONNECTED", "W4_REMOTE_DM"}, ra # <<>>
      PROVE  b.i_rx_q = <<>>
  <2>1. CASE Steady(s) /\ ra = qa
    <3>1. CASE d.state = "W4_REMOTE_RESP"
      BY <1>5, <1>6, <2>1, <3>1
    <3>2. CASE d.state = "IDLE" /\ Underway(s) = <<>>
      <4>1. qa = b.sig_xmit_q
        <5>1. b.sig_xmit_q \in Seq(PDU)
          BY <1>2, Fields
        <5> QED
          BY <3>2, <5>1, EmptyFirst DEF Coming
      <4>2. qa = <<>>
        <5> HIDE DEF d, b, qa, qb
        <5> QED
          BY <1>2, <1>6, <3>2, <4>1, IdlePhases
      <4> QED
        BY <1>6, <2>1, <4>2
    <3> QED
      BY <1>6, <2>1, <3>1, <3>2 DEF Steady
  <2>2. CASE qa # <<>> /\ Takes(d, e, b, qa)
    <3>1. d.state = "W4_REMOTE_RESP"
      BY <1>6, <2>2 DEF Takes
    <3> QED
      BY <1>5, <1>6, <2>2, <3>1
  <2> QED
    BY <1>4, <2>1, <2>2
<1>7. ASSUME b.state = "W4_REMOTE_RESP", e.state \in {"CONNECTED", "W4_REMOTE_DM"}, rb # <<>>
      PROVE  e.i_rx_q = <<>>
  <2>1. ra = <<>>
    <3> HIDE DEF e, b, ra, rb
    <3> QED
      BY <1>3, <1>7, AwaitPhases
  <2>2. d.state \in {"CONNECTED", "W4_REMOTE_DM"} =>
          (qa = <<>> /\ qb # <<>>) \/ (qb = <<>> /\ qa # <<>> /\ Tail(qa) # <<>>)
    <3> HIDE DEF d, b, qa, qb
    <3> QED
      BY <1>2, <1>7, AwaitPhases
  <2>3. CASE Steady(s) /\ ra = qa
    <3>1. CASE d.state \in {"CONNECTED", "W4_REMOTE_DM"}
      BY <1>5, <1>7, <2>1, <2>2, <2>3, <3>1 DEF Steady
    <3>2. CASE d.state = "W4_LOCAL_RESP"
      <4>1. d.i_rx_q = <<>>
        BY <3>2, AnswerPhase, BlankFields
      <4> QED
        BY <2>3, <4>1 DEF Steady
    <3> QED
      BY <1>7, <2>3, <3>1, <3>2 DEF Steady
  <2>4. CASE qa # <<>> /\ ra = Tail(qa) /\ Takes(d, e, b, qa)
    <3>1. d.state \in {"CONNECTED", "W4_REMOTE_DM"}
      BY <1>7, <2>4 DEF Takes
    <3> QED
      BY <2>1, <2>2, <2>4, <3>1
  <2> QED
    BY <1>4, <2>3, <2>4
<1>8. \A t \in Station : Unheard(t)' => dl'[Peer(t)].i_rx_q = <<>>
  BY <1>1, <1>6, <1>7 DEF Unheard
<1> QED
  BY <1>8 DEF Unread

\* Every step of two undisturbed stations is one of the applications, or none.
LEMMA StepsMap ==
  ASSUME IInv, Pair, Unread, Undisturbed, Next
  PROVE  \E s \in Station :
           /\ Maps(s) /\ dl'[Peer(s)] = dl[Peer(s)]
           /\ \/ Steady(s)
              \/ /\ dl'[Peer(s)] = dl[Peer(s)] /\ Coming(s) # <<>> /\ Coming(s)' = Tail(Coming(s))
                 /\ Takes(dl[s], dl'[s], dl[Peer(s)], Coming(s))
<1> DEFINE Done(s) ==
             /\ Maps(s) /\ dl'[Peer(s)] = dl[Peer(s)]
             /\ \/ Steady(s)
                \/ /\ dl'[Peer(s)] = dl[Peer(s)] /\ Coming(s) # <<>> /\ Coming(s)' = Tail(Coming(s))
                   /\ Takes(dl[s], dl'[s], dl[Peer(s)], Coming(s))
<1>1. ASSUME NEW s, Maps(s) /\ Steady(s) PROVE Done(s)
  BY <1>1 DEF Steady
<1>2. ASSUME NEW s \in Station, ReceivePdu(s) PROVE Done(s)
  BY <1>2, ReceiveMaps
<1> HIDE DEF Done
<1>3. ASSUME LinkStep PROVE \E s \in Station : Done(s)
  BY <1>1, <1>2, <1>3, TurnsMap DEF LinkStep
<1>4. ASSUME NEW s \in Station, Application(s) PROVE Done(s)
  <2>1. ~FlushRxData(s) /\ ~DisconnectFlush(s)
    BY DEF FlushRxData, DisconnectFlush, Undisturbed
  <2>2. CASE ConnectReq(s) \/ ConnectCfm(s) \/ ConnectReject(s)
    BY <1>1, <2>2, ConnectReqMaps, ConnectAnswerMaps
  <2>3. CASE SendData(s) \/ Disconnect(s) \/ ReadData(s)
    BY <1>1, <2>3, SendDataMaps, DisconnectMaps, ReadDataMaps
  <2>4. CASE SetLocalBusy(s) \/ ClearLocalBusy(s) \/ SetTxCompleteNtf(s)
    BY <1>1, <2>4, FlagsMap
  <2> QED
    BY <1>4, <2>1, <2>2, <2>3, <2>4 DEF Application
<1>5. ~(\E s \in Station : DlcTimeout(s)) /\ ~LinkLoss
  BY DEF DlcTimeout, LinkLoss, Undisturbed
<1>6. \E s \in Station : Done(s)
  BY <1>3, <1>4, <1>5 DEF Next
<1> QED
  BY <1>6 DEF Done

\* Unread is kept.
LEMMA InitUnread == Init => Unread
<1>1. Idle.state = "IDLE"
  BY DEF Idle
<1> QED
  BY <1>1 DEF Init, Unread, Unheard

\* Nor does a step break it.
LEMMA NextUnread == IInv /\ Pair /\ Unread /\ [Next]_vars => Unread'
<1> SUFFICES ASSUME IInv, Pair, Unread, [Next]_vars PROVE Unread'
  OBVIOUS
<1>1. IInv' /\ Pair' /\ Undisturbed' = Undisturbed
  BY NextIInv, NextPair, CasesKept
<1>2. CASE ~Undisturbed
  BY <1>1, <1>2 DEF Unread
<1>3. CASE Undisturbed /\ Next
  BY <1>1, <1>3, StepsMap, UnreadStep
<1>4. CASE UNCHANGED vars
  BY <1>4 DEF vars, Unread, Unheard, Coming, Underway, Undisturbed
<1> QED
  BY <1>2, <1>3, <1>4

\* The refinement mapping takes initial states to initial states, and steps to steps.
LEMMA InitData == Init => Data!Init
<1> SUFFICES ASSUME Init PROVE Data!Init
  OBVIOUS
<1>1. Idle.state = "IDLE" /\ Idle.i_rx_q = <<>>
  BY DEF Idle
<1>2. \A s \in Station : Peer(s) \in Station
  BY Peers
<1>3. \A s \in Station : dl[s].state # "CONNECTED" /\ sent[s] = 0
  BY <1>1 DEF Init
<1>4. \A s \in Station : Pipe(s) = <<>>
  <2> SUFFICES ASSUME NEW s \in Station PROVE Pipe(s) = <<>>
    OBVIOUS
  <2>1. dl[Peer(s)] = Idle
    BY <1>2 DEF Init
  <2> QED
    BY <1>1, <2>1, CarriedEmpty DEF Pipe, Listens
<1>5. [s \in Station |-> Undisturbed /\ dl[s].state = "CONNECTED"] = [s \in Station |-> FALSE]
  BY <1>3
<1>6. [s \in Station |-> IF Undisturbed THEN Pipe(s) ELSE <<>>] = [s \in Station |-> <<>>]
  BY <1>4
<1>7. [s \in Station |-> IF Undisturbed THEN sent[s] ELSE 0] = [s \in Station |-> 0]
  BY <1>3
<1> QED
  BY <1>5, <1>6, <1>7 DEF Data!Init

\* Every step maps to a step of the abstract queues, or to none.
LEMMA NextData == IInv /\ Pair /\ Unread /\ [Next]_vars => [Data!Next]_(Data!vars)
<1> SUFFICES ASSUME IInv, Pair, Unread, [Next]_vars PROVE [Data!Next]_(Data!vars)
  OBVIOUS
<1>1. (Undisturbed' <=> Undisturbed) /\ sent \in [Station -> Nat]
  BY CasesKept, IInvSound
<1>2. CASE ~Undisturbed
  <2>1. UNCHANGED Data!vars
    BY <1>1, <1>2 DEF Data!vars
  <2> QED
    BY <2>1
<1>3. CASE Undisturbed /\ Next
  <2>1. PICK s \in Station : Maps(s) /\ dl'[Peer(s)] = dl[Peer(s)]
    BY <1>3, StepsMap
  <2> QED
    BY <1>1, <1>3, <2>1, MapsData
<1>4. CASE UNCHANGED vars
  <2>1. /\ \A s \in Station : Pipe(s)' = Pipe(s)
        /\ Undisturbed' = Undisturbed /\ sent' = sent /\ dl' = dl
    BY <1>4 DEF vars, Pipe, Listens, Underway, Undisturbed
  <2>2. UNCHANGED Data!vars
    BY <2>1 DEF Data!vars
  <2> QED
    BY <2>2
<1> QED
  BY <1>2, <1>3, <1>4

\* Implements holds of every behaviour: sequence numbers, acknowledgements, windows,
\* busy stations, crossing requests and disconnections amount to two queues between the
\* applications, which lose, double and reorder nothing (llcp_dlc.c, llcp_api.c).
THEOREM ImplementsDataLink == Spec => Implements
BY InitIInv, NextIInv, InitPair, NextPair, InitUnread, NextUnread, InitData, NextData, PTL
   DEF Spec, Implements, Data!Spec
================================================================================
