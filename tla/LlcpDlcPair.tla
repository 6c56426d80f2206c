------------------------------ MODULE LlcpDlcPair ------------------------------
(***************************************************************************)
(* Theorems about LlcpDlc that need both stations and what is under way    *)
(* between them: no frame error, no half-open connection, and a            *)
(* disconnection that waits for what was sent.  They hold while nothing    *)
(* cuts in on the connection (Undisturbed).  The invariant lists the       *)
(* phases of a pair of stations; the states of both and the PDUs either    *)
(* has yet to handle go together.  Where data flows, the numbers of the    *)
(* one are tied to those of the other and to the I, RR and RNR PDUs        *)
(* between them.                                                           *)
(***************************************************************************)
EXTENDS LlcpDlcProofs

Info(p) == p.type \in {"I", "RR", "RNR"}
Ack(p)  == p.type \in {"RR", "RNR"}

Connect  == Signal("CONNECT")
Cc       == Signal("CC")
Disc     == Signal("DISC")
Rejected == Dm("TEMP_REJECT_THIS")
Closed   == Dm("RESP_DISC")
NotHere  == Dm("NO_ACTIVE_CONNECTION")

AllInfo(q) == \A i \in DOMAIN q : Info(q[i])
All(q, p)  == \A i \in DOMAIN q : q[i] = p
Has(q, p)  == \E i \in DOMAIN q : q[i] = p
HasI(q)    == \E i \in DOMAIN q : q[i].type = "I"

\* q is n acknowledgements and then w.
Then(q, n, w) ==
  /\ Len(q) = n + Len(w)
  /\ \A i \in 1..n : Ack(q[i])
  /\ \A j \in 1..Len(w) : q[n + j] = w[j]

Acks(q, w) == \E n \in 0..Len(q) : Then(q, n, w)

\* Acknowledgements, a DISC, and the answers to I PDUs that came after it.
Parting(q) ==
  \E n \in 0..Len(q) :
    /\ n < Len(q) /\ \A i \in 1..n : Ack(q[i])
    /\ q[n + 1] = Disc /\ \A i \in n + 2..Len(q) : q[i] = NotHere

\* A control block as llcp_util_allocate_data_link leaves it.
Blank(a) == a = [Idle EXCEPT !.state = a.state, !.sig_xmit_q = a.sig_xmit_q]

\* A station that sent DISC: nothing of its own is unacknowledged.
Leaving(a, qa) ==
  /\ a.state = "W4_REMOTE_DM" /\ a.i_xmit_q = <<>> /\ a.next_tx_seq = a.rcvd_ack_seq
  /\ \A i \in DOMAIN qa : Info(qa[i]) => qa[i].nr = a.rcvd_ack_seq

-------------------------------------------------------------------------------
(* The numbers.                                                              *)

\* How far x is from the oldest PDU of a that a knows no acknowledgement of.
From(a, x) == Minus(x, a.rcvd_ack_seq)

\* What a sends with the window w: b acknowledged no more than it received, received no
\* more than a sent, and the acknowledgements on their way to a never go back.
Numbers(a, b, qa, w) ==
  /\ From(a, b.sent_ack_seq) <= From(a, b.next_rx_seq)
  /\ From(a, b.next_rx_seq) <= From(a, a.next_tx_seq)
  /\ From(a, a.next_tx_seq) <= w
  /\ \A i \in DOMAIN qa : Info(qa[i]) => From(a, qa[i].nr) <= From(a, b.sent_ack_seq)
  /\ \A i, j \in DOMAIN qa :
       i < j /\ Info(qa[i]) /\ Info(qa[j]) => From(a, qa[i].nr) <= From(a, qa[j].nr)

\* The I PDUs of q are the n behind position lo, numbered on from first.
Line(q, lo, n, first) ==
  /\ n \in Seqno /\ lo + n <= Len(q)
  /\ \A i \in DOMAIN q : q[i].type = "I" <=> lo < i /\ i <= lo + n
  /\ \A j \in 1..n : q[lo + j].ns = (first + j - 1) % SeqMod

\* The I PDUs under way to b are those it expects next, up to the last a sent.  A
\* station that sent DISC takes none of them, and a never gets them acknowledged.
Carries(a, b, qa, qb) ==
  /\ b.state = "W4_REMOTE_DM" /\ (HasI(qb) \/ Has(qa, NotHere))
       => From(a, b.next_rx_seq) < From(a, a.next_tx_seq)
  /\ b.state # "W4_REMOTE_DM" =>
       \E lo, n \in 0..Len(qb) : Line(qb, lo, n, b.next_rx_seq)
                            /\ a.next_tx_seq = (b.next_rx_seq + n) % SeqMod

Flow(a, b, qa, qb, w) == Numbers(a, b, qa, w) /\ Carries(a, b, qa, qb)

\* Both directions.
Flows(a, b, qa, qb, wa, wb) == Flow(a, b, qa, qb, wb) /\ Flow(b, a, qb, qa, wa)

-------------------------------------------------------------------------------
(* The phases of a pair of stations: the states of both with what is under   *)
(* way between them.  qa is what a has yet to handle.                        *)

Setup(a, b, qa, qb) ==
  /\ Blank(a) /\ Blank(b)
  /\ \/ a.state = "IDLE" /\ b.state = "IDLE" /\ qa = <<>> /\ qb = <<>>
     \/ a.state = "W4_REMOTE_RESP" /\ b.state = "IDLE" /\ qa = <<>> /\ qb = <<Connect>>
     \/ a.state = "IDLE" /\ b.state = "W4_REMOTE_RESP" /\ qa = <<>> /\ qb = <<Rejected>>
     \/ a.state = "W4_REMOTE_RESP" /\ b.state = "W4_LOCAL_RESP" /\ qa = <<>> /\ qb = <<>>
     \/ /\ a.state = "W4_REMOTE_RESP" /\ b.state = "W4_REMOTE_RESP"
        /\ \/ qa = <<Connect>> /\ qb = <<Connect>>
           \/ qa = <<Rejected>> /\ qb = <<Rejected>>
           \/ qa = <<>> /\ qb = <<Connect, Rejected>>
           \/ qa = <<>> /\ qb = <<Rejected, Connect>>

\* Both are connected.
Joined(a, b, qa, qb) ==
  a.state = "CONNECTED" /\ b.state = "CONNECTED" /\ AllInfo(qa) /\ AllInfo(qb)

\* The CC is on its way, with what a sent behind it.
Accepted(a, b, qa, qb) ==
  /\ a.state = "CONNECTED" /\ b.state = "W4_REMOTE_RESP" /\ Blank(b)
  /\ qa = <<>> /\ qb # <<>> /\ qb[1] = Cc /\ AllInfo(Tail(qb))

\* a even disconnects already.
Fleeting(a, b, qa, qb) ==
  /\ Leaving(a, qa) /\ b.state = "W4_REMOTE_RESP" /\ Blank(b)
  /\ qa = <<>> /\ qb # <<>> /\ qb[1] = Cc /\ Acks(Tail(qb), <<Disc>>)

\* a disconnects; b does not know yet.
Left(a, b, qa, qb) ==
  Leaving(a, qa) /\ b.state = "CONNECTED" /\ AllInfo(qa) /\ Parting(qb)

Open(a, b, qa, qb) ==
  \/ Joined(a, b, qa, qb) \/ Accepted(a, b, qa, qb)
  \/ Fleeting(a, b, qa, qb) \/ Left(a, b, qa, qb)

\* Both disconnect.
BothLeft(a, b, qa, qb) ==
  /\ Leaving(a, qa) /\ Leaving(b, qb)
  /\ \/ Acks(qa, <<Disc>>) /\ Acks(qb, <<Disc>>)
     \/ qa = <<>> /\ Acks(qb, <<Disc, Closed>>)
     \/ qa = <<Closed>> /\ qb = <<Closed>>

\* b handled the DISC of a, and may connect anew.
Answered(a, b, qa, qb) ==
  /\ Leaving(a, qa) /\ Blank(b)
  /\ \/ b.state = "IDLE" /\ Acks(qa, <<Closed>>) /\ All(qb, NotHere)
     \/ b.state = "W4_REMOTE_RESP" /\ Acks(qa, <<Closed, Connect>>) /\ qb = <<>>

Half(a, b, qa, qb, wa, wb) ==
  \/ Setup(a, b, qa, qb)
  \/ Open(a, b, qa, qb) /\ Flows(a, b, qa, qb, wa, wb)
  \/ BothLeft(a, b, qa, qb)
  \/ Answered(a, b, qa, qb)

\* The pair seen from either station.
Paired(a, b, qa, qb, wa, wb) ==
  Half(a, b, qa, qb, wa, wb) \/ Half(b, a, qb, qa, wb, wa)

\* The signalling queue holds no I PDU, and answers to I PDUs only before its DISC left.
Signals(q) == ~HasI(q) /\ (Has(q, NotHere) => Has(q, Disc))

Pair ==
  Undisturbed => \A s \in Station :
    /\ Paired(dl[s], dl[Peer(s)], Coming(s), Coming(Peer(s)), Rw[s], Rw[Peer(s)])
    /\ Signals(dl[s].sig_xmit_q)

-------------------------------------------------------------------------------
(* Sequences of PDUs.                                                        *)

\* Two sequences, one after the other.
LEMMA ConcatSeq ==
  ASSUME NEW S, NEW q \in Seq(S), NEW r \in Seq(S)
  PROVE  /\ q \o r \in Seq(S) /\ Len(q \o r) = Len(q) + Len(r) /\ Len(q) \in Nat /\ Len(r) \in Nat
         /\ DOMAIN q = 1..Len(q) /\ DOMAIN r = 1..Len(r) /\ DOMAIN (q \o r) = 1..(Len(q) + Len(r))
         /\ \A i \in 1..Len(q) : (q \o r)[i] = q[i]
         /\ \A j \in 1..Len(r) : (q \o r)[Len(q) + j] = r[j]
         /\ \A i \in Len(q) + 1 .. Len(q) + Len(r) : (q \o r)[i] = r[i - Len(q)]
  OBVIOUS

\* The PDUs without sequence numbers are different, and none is an Info.
LEMMA Kinds ==
  /\ Connect \in PDU /\ Cc \in PDU /\ Disc \in PDU
  /\ Rejected \in PDU /\ Closed \in PDU /\ NotHere \in PDU
  /\ Connect.type = "CONNECT" /\ Cc.type = "CC" /\ Disc.type = "DISC"
  /\ Rejected.type = "DM" /\ Rejected.reason = "TEMP_REJECT_THIS"
  /\ Closed.type = "DM" /\ Closed.reason = "RESP_DISC"
  /\ NotHere.type = "DM" /\ NotHere.reason = "NO_ACTIVE_CONNECTION"
  /\ NotHere # Rejected /\ NotHere # Closed /\ NotHere # Disc /\ NotHere # Connect /\ NotHere # Cc
  /\ \A p \in {Connect, Cc, Disc, Rejected, Closed, NotHere} : ~Info(p) /\ ~Ack(p)
BY SignalPdu DEF Connect, Cc, Disc, Rejected, Closed, NotHere, Signal, Dm, Reason, Info, Ack

\* Handling the first of acknowledgements and w, and queueing behind them.
LEMMA AcksSteps ==
  ASSUME NEW q \in Seq(PDU), NEW w \in Seq(PDU), Acks(q, w)
  PROVE  /\ q # <<>> => \/ Ack(q[1]) /\ Acks(Tail(q), w)
                        \/ q = w
         /\ \A p \in PDU : Acks(Append(q, p), Append(w, p))
         /\ \A i \in DOMAIN q : Ack(q[i]) \/ \E j \in DOMAIN w : q[i] = w[j]
<1>1. PICK n \in 0..Len(q) : Then(q, n, w)
  BY DEF Acks
<1>2. /\ Len(q) = n + Len(w) /\ (\A i \in 1..n : Ack(q[i])) /\ (\A j \in 1..Len(w) : q[n + j] = w[j])
      /\ Len(q) \in Nat /\ Len(w) \in Nat /\ DOMAIN q = 1..Len(q) /\ DOMAIN w = 1..Len(w) /\ n \in Nat
  BY <1>1 DEF Then
<1>3. ASSUME q # <<>>
      PROVE  (Ack(q[1]) /\ Acks(Tail(q), w)) \/ q = w
  <2>1. CASE n = 0
    <3>1. \A j \in 1..Len(w) : q[j] = w[j]
      BY <1>2, <2>1
    <3>2. q = w
      BY <1>2, <2>1, <3>1
    <3> QED
      BY <3>2
  <2>2. CASE n > 0
    <3>1. /\ Len(Tail(q)) = Len(q) - 1 /\ \A i \in 1..(Len(q) - 1) : Tail(q)[i] = q[i + 1]
      BY <1>3, TailSeq
    <3>2. \A i \in 1..(n - 1) : i + 1 \in 1..n /\ i \in 1..(Len(q) - 1)
      BY <1>2, <2>2
    <3>3. \A i \in 1..(n - 1) : Ack(Tail(q)[i])
      BY <1>2, <3>1, <3>2
    <3>4. \A j \in 1..Len(w) : Tail(q)[(n - 1) + j] = w[j]
      <4> SUFFICES ASSUME NEW j \in 1..Len(w) PROVE Tail(q)[(n - 1) + j] = w[j]
        OBVIOUS
      <4>1. (n - 1) + j \in 1..(Len(q) - 1) /\ ((n - 1) + j) + 1 = n + j
        BY <1>2, <2>2
      <4> QED
        BY <1>2, <3>1, <4>1
    <3>5. Len(Tail(q)) = (n - 1) + Len(w) /\ n - 1 \in 0..Len(Tail(q))
      BY <1>2, <2>2, <3>1
    <3>6. Then(Tail(q), n - 1, w)
      BY <3>3, <3>4, <3>5 DEF Then
    <3>7. Ack(q[1])
      BY <1>2, <2>2
    <3> QED
      BY <3>5, <3>6, <3>7 DEF Acks
  <2> QED
    BY <1>2, <2>1, <2>2
<1>4. ASSUME NEW p \in PDU
      PROVE  Acks(Append(q, p), Append(w, p))
  <2>1. /\ Len(Append(q, p)) = Len(q) + 1 /\ (\A i \in 1..Len(q) : Append(q, p)[i] = q[i])
        /\ Append(q, p)[Len(q) + 1] = p
    BY AppendSeq
  <2>2. /\ Len(Append(w, p)) = Len(w) + 1 /\ (\A i \in 1..Len(w) : Append(w, p)[i] = w[i])
        /\ Append(w, p)[Len(w) + 1] = p
    BY AppendSeq
  <2>3. \A i \in 1..n : Ack(Append(q, p)[i])
    <3>1. \A i \in 1..n : i \in 1..Len(q)
      BY <1>2
    <3> QED
      BY <1>2, <2>1, <3>1
  <2>4. \A j \in 1..(Len(w) + 1) : Append(q, p)[n + j] = Append(w, p)[j]
    <3> SUFFICES ASSUME NEW j \in 1..(Len(w) + 1) PROVE Append(q, p)[n + j] = Append(w, p)[j]
      OBVIOUS
    <3>1. CASE j = Len(w) + 1
      <4>1. n + j = Len(q) + 1
        BY <1>2, <3>1
      <4> QED
        BY <2>1, <2>2, <3>1, <4>1
    <3>2. CASE j \in 1..Len(w)
      <4>1. n + j \in 1..Len(q)
        BY <1>2, <3>2
      <4> QED
        BY <1>2, <2>1, <2>2, <3>2, <4>1
    <3> QED
      BY <1>2, <3>1, <3>2
  <2>5. Then(Append(q, p), n, Append(w, p)) /\ n \in 0..Len(Append(q, p))
    BY <1>2, <2>1, <2>2, <2>3, <2>4 DEF Then
  <2> QED
    BY <2>5 DEF Acks
<1>5. ASSUME NEW i \in DOMAIN q
      PROVE  Ack(q[i]) \/ \E j \in DOMAIN w : q[i] = w[j]
  <2>1. CASE i \in 1..n
    BY <1>2, <2>1
  <2>2. CASE i > n
    <3>1. i - n \in 1..Len(w) /\ n + (i - n) = i
      BY <1>2, <2>2
    <3>2. q[i] = w[i - n]
      BY <1>2, <3>1
    <3> QED
      BY <1>2, <3>1, <3>2
  <2> QED
    BY <1>2, <2>1, <2>2
<1> QED
  BY <1>3, <1>4, <1>5

\* Nothing but acknowledgements, and what is queued behind them.
LEMMA AcksOnly ==
  ASSUME NEW q \in Seq(PDU), \A i \in DOMAIN q : Ack(q[i]), NEW p \in PDU
  PROVE  Acks(q, <<>>) /\ Acks(Append(q, p), <<p>>)
<1>1. Len(q) \in Nat /\ DOMAIN q = 1..Len(q) /\ <<>> \in Seq(PDU) /\ Append(<<>>, p) = <<p>>
  OBVIOUS
<1>2. Then(q, Len(q), <<>>)
  BY <1>1 DEF Then
<1>3. Acks(q, <<>>)
  BY <1>1, <1>2 DEF Acks
<1> QED
  BY <1>1, <1>3, AcksSteps

\* A DISC behind acknowledgements.
LEMMA AcksDisc ==
  ASSUME NEW q \in Seq(PDU)
  PROVE  /\ Acks(q, <<Disc>>) => Parting(q)
         /\ Parting(q) /\ ~Has(q, NotHere) => Acks(q, <<Disc>>)
<1>0. Len(q) \in Nat /\ DOMAIN q = 1..Len(q) /\ Len(<<Disc>>) = 1 /\ <<Disc>>[1] = Disc
  OBVIOUS
<1>1. ASSUME Acks(q, <<Disc>>)
      PROVE  Parting(q)
  <2>1. PICK n \in 0..Len(q) : Then(q, n, <<Disc>>)
    BY <1>1 DEF Acks
  <2>2. Len(q) = n + 1 /\ (\A i \in 1..n : Ack(q[i])) /\ q[n + 1] = Disc
    BY <1>0, <2>1 DEF Then
  <2> QED
    BY <1>0, <2>2 DEF Parting
<1>2. ASSUME Parting(q), ~Has(q, NotHere)
      PROVE  Acks(q, <<Disc>>)
  <2>1. PICK n \in 0..Len(q) : /\ n < Len(q) /\ \A i \in 1..n : Ack(q[i])
                              /\ q[n + 1] = Disc /\ \A i \in n + 2..Len(q) : q[i] = NotHere
    BY <1>2 DEF Parting
  <2>2. n \in Nat /\ n < Len(q)
    BY <1>0, <2>1
  <2>3. n + 1 = Len(q)
    <3>1. ASSUME n + 2 \in DOMAIN q PROVE FALSE
      <4>1. n + 2 \in n + 2..Len(q)
        BY <1>0, <2>2, <3>1
      <4> QED
        BY <1>2, <2>1, <3>1, <4>1 DEF Has
    <3>2. n + 2 \notin 1..Len(q)
      BY <1>0, <3>1
    <3>3. \A x, y \in Nat : x < y /\ x + 2 \notin 1..y => x + 1 = y
      OBVIOUS
    <3> QED
      BY <1>0, <2>2, <3>2, <3>3
  <2>4. \A j \in 1..1 : q[n + j] = <<Disc>>[j]
    BY <1>0, <2>1
  <2>5. Then(q, n, <<Disc>>)
    BY <1>0, <2>1, <2>3, <2>4 DEF Then
  <2> QED
    BY <2>5 DEF Acks
<1> QED
  BY <1>1, <1>2

\* Handling the first PDU from a station that leaves, and its answer to an I PDU.
LEMMA PartingSteps ==
  ASSUME NEW q \in Seq(PDU), Parting(q)
  PROVE  /\ q # <<>>
         /\ \/ Ack(q[1]) /\ Parting(Tail(q))
            \/ q[1] = Disc /\ All(Tail(q), NotHere)
         /\ Parting(Append(q, NotHere))
         /\ \A i \in DOMAIN q : Ack(q[i]) \/ q[i] = Disc \/ q[i] = NotHere
<1>1. PICK n \in 0..Len(q) : /\ n < Len(q) /\ \A i \in 1..n : Ack(q[i])
                            /\ q[n + 1] = Disc /\ \A i \in n + 2..Len(q) : q[i] = NotHere
  BY DEF Parting
<1>2. Len(q) \in Nat /\ DOMAIN q = 1..Len(q) /\ q # <<>> /\ n \in Nat
  BY <1>1
<1>3. /\ Len(Tail(q)) = Len(q) - 1 /\ \A i \in 1..(Len(q) - 1) : Tail(q)[i] = q[i + 1]
      /\ DOMAIN Tail(q) = 1..(Len(q) - 1)
  BY <1>2, TailSeq
<1>4. (Ack(q[1]) /\ Parting(Tail(q))) \/ (q[1] = Disc /\ All(Tail(q), NotHere))
  <2>1. CASE n = 0
    <3>1. \A i \in 1..(Len(q) - 1) : i + 1 \in n + 2..Len(q)
      BY <1>2, <2>1
    <3>2. All(Tail(q), NotHere) /\ q[1] = Disc
      BY <1>1, <1>3, <2>1, <3>1 DEF All
    <3> QED
      BY <3>2
  <2>2. CASE n > 0
    <3>1. \A i \in 1..(n - 1) : i + 1 \in 1..n /\ i \in 1..(Len(q) - 1)
      BY <1>1, <1>2, <2>2
    <3>2. \A i \in 1..(n - 1) : Ack(Tail(q)[i])
      BY <1>1, <1>3, <3>1
    <3>3. \A i \in (n - 1) + 2..Len(Tail(q)) : i + 1 \in n + 2..Len(q) /\ i \in 1..(Len(q) - 1)
      BY <1>1, <1>2, <1>3, <2>2
    <3>4. \A i \in (n - 1) + 2..Len(Tail(q)) : Tail(q)[i] = NotHere
      BY <1>1, <1>3, <3>3
    <3>5. n \in 1..(Len(q) - 1) /\ (n - 1) + 1 = n /\ n - 1 \in 0..Len(Tail(q)) /\ n - 1 < Len(Tail(q))
      BY <1>1, <1>2, <1>3, <2>2
    <3>6. Tail(q)[(n - 1) + 1] = Disc
      BY <1>1, <1>3, <3>5
    <3>7. Parting(Tail(q))
      BY <3>2, <3>4, <3>5, <3>6 DEF Parting
    <3>8. Ack(q[1])
      BY <1>1, <1>2, <2>2
    <3> QED
      BY <3>7, <3>8
  <2> QED
    BY <1>2, <2>1, <2>2
<1>6. Parting(Append(q, NotHere))
  <2> DEFINE r == Append(q, NotHere)
  <2>1. /\ Len(r) = Len(q) + 1 /\ (\A i \in 1..Len(q) : r[i] = q[i]) /\ r[Len(q) + 1] = NotHere
    BY Kinds, AppendSeq
  <2> HIDE DEF r
  <2>2. \A i \in 1..n : i \in 1..Len(q) /\ Ack(r[i])
    BY <1>1, <1>2, <2>1
  <2>3. n + 1 \in 1..Len(q) /\ r[n + 1] = Disc
    BY <1>1, <1>2, <2>1
  <2>4. \A i \in n + 2..Len(r) : r[i] = NotHere
    <3> SUFFICES ASSUME NEW i \in n + 2..Len(r) PROVE r[i] = NotHere
      OBVIOUS
    <3>1. i = Len(q) + 1 \/ (i \in 1..Len(q) /\ i \in n + 2..Len(q))
      BY <1>2, <2>1
    <3> QED
      BY <1>1, <2>1, <3>1
  <2>5. n \in 0..Len(r) /\ n < Len(r)
    BY <1>1, <1>2, <2>1
  <2> QED
    BY <2>2, <2>3, <2>4, <2>5 DEF Parting, r
<1>7. \A i \in DOMAIN q : Ack(q[i]) \/ q[i] = Disc \/ q[i] = NotHere
  <2> SUFFICES ASSUME NEW i \in DOMAIN q PROVE Ack(q[i]) \/ q[i] = Disc \/ q[i] = NotHere
    OBVIOUS
  <2>1. i \in 1..n \/ i = n + 1 \/ i \in n + 2..Len(q)
    BY <1>1, <1>2
  <2> QED
    BY <1>1, <2>1
<1> QED
  BY <1>2, <1>4, <1>6, <1>7

-------------------------------------------------------------------------------
(* The numbers.                                                              *)

\* What the lemmas about a pair assume of its parts.
Ends(a, b, qa, qb, wa, wb) ==
  /\ a \in Dlcb /\ b \in Dlcb /\ qa \in Seq(PDU) /\ qb \in Seq(PDU)
  /\ wa \in Seqno /\ wb \in Seqno

SameNumbers(d, e) ==
  /\ e.next_tx_seq = d.next_tx_seq /\ e.rcvd_ack_seq = d.rcvd_ack_seq
  /\ e.next_rx_seq = d.next_rx_seq /\ e.sent_ack_seq = d.sent_ack_seq

\* Distances from v are distances from y, less that of y.
LEMMA Shift ==
  ASSUME NEW v \in Seqno, NEW x \in Seqno, NEW y \in Seqno, Minus(y, v) <= Minus(x, v)
  PROVE  /\ Minus(x, y) = Minus(x, v) - Minus(y, v)
         /\ Minus(x, v) \in Seqno /\ Minus(y, v) \in Seqno
         /\ Minus(x, v) = Minus(y, v) => x = y
<1>1. /\ Minus(y, v) = (IF y >= v THEN y - v ELSE y - v + SeqMod)
      /\ Minus(x, v) = (IF x >= v THEN x - v ELSE x - v + SeqMod)
      /\ Minus(x, y) = (IF x >= y THEN x - y ELSE x - y + SeqMod)
      /\ Minus(x, v) \in Seqno /\ Minus(y, v) \in Seqno
  BY MinusIs
<1> QED
  BY <1>1, SeqModAssumption DEF Seqno

\* n steps from x that do not pass v are the distance they cover.
LEMMA Reach ==
  ASSUME NEW v \in Seqno, NEW x \in Seqno, NEW n \in Seqno,
         Minus(x, v) <= Minus((x + n) % SeqMod, v)
  PROVE  n = Minus((x + n) % SeqMod, v) - Minus(x, v)
<1> DEFINE z == (x + n) % SeqMod
<1>1. z = (IF x + n >= SeqMod THEN x + n - SeqMod ELSE x + n) /\ z \in Seqno
  <2>1. n \in 0..SeqMod
    BY SeqModAssumption DEF Seqno
  <2> QED
    BY <2>1, NextSeqno
<1>2. Minus(z, x) = (IF z >= x THEN z - x ELSE z - x + SeqMod)
  BY <1>1, MinusIs
<1> HIDE DEF z
<1>3. Minus(z, x) = n
  BY <1>1, <1>2, SeqModAssumption DEF Seqno
<1>4. Minus(z, x) = Minus(z, v) - Minus(x, v)
  BY <1>1, Shift DEF z
<1> QED
  BY <1>3, <1>4 DEF z

\* The numbers of control blocks and PDUs, and their distances.
LEMMA Distances ==
  ASSUME NEW a \in Dlcb, NEW b \in Dlcb, NEW q \in Seq(PDU)
  PROVE  /\ a.next_tx_seq \in Seqno /\ a.rcvd_ack_seq \in Seqno
         /\ b.next_rx_seq \in Seqno /\ b.sent_ack_seq \in Seqno
         /\ From(a, b.sent_ack_seq) \in Nat /\ From(a, b.next_rx_seq) \in Nat
         /\ From(a, a.next_tx_seq) \in Nat
         /\ \A i \in DOMAIN q : Info(q[i]) => q[i].nr \in Seqno /\ From(a, q[i].nr) \in Nat
<1>1. /\ a.next_tx_seq \in Seqno /\ a.rcvd_ack_seq \in Seqno
      /\ b.next_rx_seq \in Seqno /\ b.sent_ack_seq \in Seqno
  BY Fields
<1>2. \A x \in Seqno : From(a, x) \in Nat
  BY <1>1, MinusIs DEF From
<1>3. \A i \in DOMAIN q : Info(q[i]) => q[i].nr \in Seqno
  <2> SUFFICES ASSUME NEW i \in DOMAIN q, Info(q[i]) PROVE q[i].nr \in Seqno
    OBVIOUS
  <2>1. q[i] \in PDU
    OBVIOUS
  <2> QED
    BY <2>1, PduFields DEF Info
<1> QED
  BY <1>1, <1>2, <1>3

\* b acknowledges up to V(R), or no further than it did, in the PDUs it queues.
LEMMA NumbersAck ==
  ASSUME NEW a \in Dlcb, NEW b \in Dlcb, NEW qa \in Seq(PDU), NEW w \in Seqno, Numbers(a, b, qa, w),
         NEW e \in Dlcb, e.next_rx_seq = b.next_rx_seq,
         e.sent_ack_seq \in {b.sent_ack_seq, b.next_rx_seq},
         NEW out \in Seq(PDU), \A i \in DOMAIN out : Info(out[i]) => out[i].nr = e.sent_ack_seq
  PROVE  Numbers(a, e, qa \o out, w)
<1> DEFINE r == qa \o out
           m == Len(qa)
           l == Len(out)
<1>1. /\ m \in Nat /\ l \in Nat /\ DOMAIN qa = 1..m /\ DOMAIN out = 1..l /\ DOMAIN r = 1..(m + l)
      /\ r \in Seq(PDU)
      /\ \A i \in 1..m : r[i] = qa[i]
      /\ \A i \in m + 1 .. m + l : r[i] = out[i - m]
  BY ConcatSeq
<1>2. /\ From(a, b.sent_ack_seq) \in Nat /\ From(a, b.next_rx_seq) \in Nat
      /\ From(a, e.sent_ack_seq) \in Nat
  BY Distances
<1> HIDE DEF r, m, l
<1>3. From(a, b.sent_ack_seq) <= From(a, e.sent_ack_seq)
      /\ From(a, e.sent_ack_seq) <= From(a, e.next_rx_seq)
  BY <1>2 DEF Numbers
<1>4. \A i \in DOMAIN r : \/ i \in DOMAIN qa /\ r[i] = qa[i] /\ i <= m
                          \/ i > m /\ (Info(r[i]) => r[i].nr = e.sent_ack_seq)
  <2> SUFFICES ASSUME NEW i \in DOMAIN r
               PROVE  \/ i \in DOMAIN qa /\ r[i] = qa[i] /\ i <= m
                      \/ i > m /\ (Info(r[i]) => r[i].nr = e.sent_ack_seq)
    OBVIOUS
  <2>1. CASE i \in 1..m
    BY <1>1, <2>1
  <2>2. CASE i \in m + 1..m + l
    <3>1. i - m \in DOMAIN out /\ r[i] = out[i - m] /\ i > m
      BY <1>1, <2>2
    <3> QED
      BY <3>1
  <2> QED
    BY <1>1, <2>1, <2>2
<1>5. \A i \in DOMAIN r : Info(r[i]) => From(a, r[i].nr) \in Nat
  BY <1>1, Distances
<1>6. \A i \in DOMAIN r : Info(r[i]) => From(a, r[i].nr) <= From(a, e.sent_ack_seq)
  <2> SUFFICES ASSUME NEW i \in DOMAIN r, Info(r[i])
               PROVE  From(a, r[i].nr) <= From(a, e.sent_ack_seq)
    OBVIOUS
  <2>1. From(a, r[i].nr) <= From(a, b.sent_ack_seq) \/ r[i].nr = e.sent_ack_seq
    BY <1>4 DEF Numbers
  <2> QED
    BY <1>2, <1>3, <1>5, <2>1
<1>7. ASSUME NEW i \in DOMAIN r, NEW j \in DOMAIN r, i < j, Info(r[i]), Info(r[j])
      PROVE  From(a, r[i].nr) <= From(a, r[j].nr)
  <2>1. CASE j > m
    <3>1. r[j].nr = e.sent_ack_seq
      BY <1>1, <1>4, <1>7, <2>1
    <3> QED
      BY <1>6, <1>7, <3>1
  <2>2. CASE ~(j > m)
    <3>1. i \in DOMAIN qa /\ r[i] = qa[i] /\ j \in DOMAIN qa /\ r[j] = qa[j]
      BY <1>1, <1>4, <1>7, <2>2
    <3> QED
      BY <1>7, <3>1 DEF Numbers
  <2> QED
    BY <2>1, <2>2
<1>8. From(a, e.next_rx_seq) <= From(a, a.next_tx_seq) /\ From(a, a.next_tx_seq) <= w
  BY DEF Numbers
<1>9. Numbers(a, e, r, w)
  BY <1>3, <1>6, <1>7, <1>8 DEF Numbers
<1> QED
  BY <1>9 DEF r

\* a handles the first PDU: the others keep their order, and an I, RR or RNR is a good one.
LEMMA NumbersHandle ==
  ASSUME NEW a \in Dlcb, NEW b \in Dlcb, NEW qa \in Seq(PDU), NEW w \in Seqno, Numbers(a, b, qa, w),
         qa # <<>>
  PROVE  /\ Numbers(a, b, Tail(qa), w)
         /\ Info(qa[1]) =>
              /\ qa[1].nr \in Seqno /\ ValidNr(a, qa[1].nr)
              /\ \A e \in Dlcb : e.rcvd_ack_seq = qa[1].nr /\ e.next_tx_seq = a.next_tx_seq
                                   => Numbers(e, b, Tail(qa), w)
<1> DEFINE t == Tail(qa)
           v == a.rcvd_ack_seq
<1>1. /\ DOMAIN qa = 1..Len(qa) /\ DOMAIN t = 1..(Len(qa) - 1) /\ Len(qa) \in Nat \ {0}
      /\ (\A i \in 1..(Len(qa) - 1) : t[i] = qa[i + 1]) /\ t \in Seq(PDU)
  BY TailSeq
<1> HIDE DEF t
<1>2. \A i \in DOMAIN t : i + 1 \in DOMAIN qa /\ t[i] = qa[i + 1] /\ 1 < i + 1
  BY <1>1
<1>3. 1 \in DOMAIN qa
  BY <1>1
<1>4. \A i, j \in DOMAIN t : i < j => i + 1 < j + 1
  BY <1>1
<1>5. /\ \A i \in DOMAIN t : Info(t[i]) => From(a, t[i].nr) <= From(a, b.sent_ack_seq)
      /\ \A i, j \in DOMAIN t :
           i < j /\ Info(t[i]) /\ Info(t[j]) => From(a, t[i].nr) <= From(a, t[j].nr)
  BY <1>2, <1>4 DEF Numbers
<1>6. Numbers(a, b, t, w)
  BY <1>5 DEF Numbers
<1>7. ASSUME Info(qa[1])
      PROVE  /\ qa[1].nr \in Seqno /\ ValidNr(a, qa[1].nr)
             /\ \A e \in Dlcb : e.rcvd_ack_seq = qa[1].nr /\ e.next_tx_seq = a.next_tx_seq
                                  => Numbers(e, b, t, w)
  <2> DEFINE y == qa[1].nr
  <2>1. /\ v \in Seqno /\ y \in Seqno /\ a.next_tx_seq \in Seqno /\ b.next_rx_seq \in Seqno
        /\ b.sent_ack_seq \in Seqno
        /\ \A i \in DOMAIN t : Info(t[i]) => t[i].nr \in Seqno
    BY <1>1, <1>3, <1>7, Distances
  <2>2. \A x \in Seqno : Minus(x, v) \in Nat
    BY <2>1, MinusIs
  <2>3. /\ Minus(y, v) <= Minus(b.sent_ack_seq, v)
        /\ Minus(b.sent_ack_seq, v) <= Minus(b.next_rx_seq, v)
        /\ Minus(b.next_rx_seq, v) <= Minus(a.next_tx_seq, v)
        /\ Minus(a.next_tx_seq, v) <= w
    BY <1>3, <1>7 DEF Numbers, From
  <2>4. \A i \in DOMAIN t : Info(t[i]) => Minus(y, v) <= Minus(t[i].nr, v)
    BY <1>2, <1>3, <1>7 DEF Numbers, From
  <2> HIDE DEF y, v
  <2>5. Minus(y, v) <= Minus(b.next_rx_seq, v)
    BY <2>1, <2>2, <2>3
  <2>6. Minus(y, v) <= Minus(a.next_tx_seq, v)
    BY <2>1, <2>2, <2>3, <2>5
  <2>7. \A x \in Seqno : Minus(y, v) <= Minus(x, v) => Minus(x, y) = Minus(x, v) - Minus(y, v)
    BY <2>1, Shift
  <2>8. Minus(a.next_tx_seq, y) = Minus(a.next_tx_seq, v) - Minus(y, v)
    BY <2>1, <2>6, <2>7
  <2>9. ValidNr(a, y)
    BY <2>1, <2>2, <2>8 DEF ValidNr, v
  <2>10. ASSUME NEW e \in Dlcb, e.rcvd_ack_seq = y, e.next_tx_seq = a.next_tx_seq
         PROVE  Numbers(e, b, t, w)
    <3>1. \A x : From(e, x) = Minus(x, y)
      BY <2>10 DEF From
    <3>2. /\ From(e, b.sent_ack_seq) = Minus(b.sent_ack_seq, v) - Minus(y, v)
          /\ From(e, b.next_rx_seq) = Minus(b.next_rx_seq, v) - Minus(y, v)
          /\ From(e, e.next_tx_seq) = Minus(a.next_tx_seq, v) - Minus(y, v)
      BY <2>1, <2>3, <2>5, <2>7, <2>8, <2>10, <3>1
    <3>3. \A i \in DOMAIN t : Info(t[i]) => From(e, t[i].nr) = Minus(t[i].nr, v) - Minus(y, v)
      BY <2>1, <2>4, <2>7, <3>1
    <3>4. /\ From(e, b.sent_ack_seq) <= From(e, b.next_rx_seq)
          /\ From(e, b.next_rx_seq) <= From(e, e.next_tx_seq)
      BY <2>1, <2>2, <2>3, <3>2
    <3>5. From(e, e.next_tx_seq) <= w
      <4>1. w \in Nat
        BY SeqModAssumption DEF Seqno
      <4> QED
        BY <2>1, <2>2, <2>3, <3>2, <4>1
    <3>6. \A i \in DOMAIN t : Info(t[i]) => Minus(t[i].nr, v) <= Minus(b.sent_ack_seq, v)
      BY <1>5 DEF From, v
    <3>7. \A i, j \in DOMAIN t :
            i < j /\ Info(t[i]) /\ Info(t[j]) => Minus(t[i].nr, v) <= Minus(t[j].nr, v)
      BY <1>5 DEF From, v
    <3>8. \A i \in DOMAIN t : Info(t[i]) => From(e, t[i].nr) <= From(e, b.sent_ack_seq)
      BY <2>1, <2>2, <3>2, <3>3, <3>6
    <3>9. \A i, j \in DOMAIN t :
            i < j /\ Info(t[i]) /\ Info(t[j]) => From(e, t[i].nr) <= From(e, t[j].nr)
      BY <2>1, <2>2, <3>3, <3>7
    <3> QED
      BY <3>4, <3>5, <3>8, <3>9 DEF Numbers
  <2> QED
    BY <2>1, <2>9, <2>10 DEF y
<1> QED
  BY <1>6, <1>7 DEF t

\* b takes an I PDU: there is room in the window, and the numbers go on.
LEMMA NumbersTake ==
  ASSUME NEW a \in Dlcb, NEW b \in Dlcb, NEW qa \in Seq(PDU), NEW w \in Seqno, Numbers(a, b, qa, w),
         From(a, b.next_rx_seq) < From(a, a.next_tx_seq)
  PROVE  /\ Minus(b.next_rx_seq, b.sent_ack_seq) < w
         /\ \A e \in Dlcb : e.next_rx_seq = (b.next_rx_seq + 1) % SeqMod
                              /\ e.sent_ack_seq = b.sent_ack_seq => Numbers(a, e, qa, w)
<1>1. /\ a.rcvd_ack_seq \in Seqno /\ b.next_rx_seq \in Seqno /\ b.sent_ack_seq \in Seqno
      /\ From(a, b.sent_ack_seq) \in Nat /\ From(a, b.next_rx_seq) \in Nat
      /\ From(a, a.next_tx_seq) \in Nat /\ w \in Nat /\ w < SeqMod
  BY Distances, SeqModAssumption DEF Seqno
<1>2. /\ From(a, b.sent_ack_seq) <= From(a, b.next_rx_seq)
      /\ From(a, a.next_tx_seq) <= w
  BY DEF Numbers
<1> DEFINE v == a.rcvd_ack_seq
           x == b.next_rx_seq
           y == b.sent_ack_seq
<1>0. v \in Seqno /\ x \in Seqno /\ y \in Seqno /\ Minus(y, v) <= Minus(x, v)
  BY <1>1, <1>2 DEF From
<1> HIDE DEF v, x, y
<1>3. Minus(b.next_rx_seq, b.sent_ack_seq) = From(a, b.next_rx_seq) - From(a, b.sent_ack_seq)
  <2>1. Minus(x, y) = Minus(x, v) - Minus(y, v)
    BY <1>0, Shift
  <2> QED
    BY <2>1 DEF From, v, x, y
<1>4. Minus(b.next_rx_seq, b.sent_ack_seq) < w
  BY <1>1, <1>2, <1>3
<1>5. From(a, (b.next_rx_seq + 1) % SeqMod) = From(a, b.next_rx_seq) + 1
  <2>1. Minus(x, v) + 1 < SeqMod
    BY <1>1, <1>2, SeqModAssumption DEF From, v, x
  <2>2. Minus((x + 1) % SeqMod, v) = Minus(x, v) + 1
    BY <1>0, <2>1, MinusGrows
  <2> QED
    BY <2>2 DEF From, v, x
<1>6. ASSUME NEW e \in Dlcb, e.next_rx_seq = (b.next_rx_seq + 1) % SeqMod,
             e.sent_ack_seq = b.sent_ack_seq
      PROVE  Numbers(a, e, qa, w)
  <2>1. /\ From(a, e.sent_ack_seq) <= From(a, e.next_rx_seq)
        /\ From(a, e.next_rx_seq) <= From(a, a.next_tx_seq)
    BY <1>1, <1>2, <1>5, <1>6
  <2> QED
    BY <1>6, <2>1 DEF Numbers
<1> QED
  BY <1>4, <1>6

\* a sends k I PDUs within the window.
LEMMA NumbersSend ==
  ASSUME NEW a \in Dlcb, NEW b \in Dlcb, NEW qa \in Seq(PDU), NEW w \in Seqno, Numbers(a, b, qa, w),
         NEW k \in Nat, k > 0 => From(a, a.next_tx_seq) + k <= w,
         NEW e \in Dlcb, e.rcvd_ack_seq = a.rcvd_ack_seq,
         e.next_tx_seq = (a.next_tx_seq + k) % SeqMod
  PROVE  /\ Numbers(e, b, qa, w) /\ k \in Seqno
         /\ From(e, e.next_tx_seq) = From(a, a.next_tx_seq) + k
<1>1. /\ a.rcvd_ack_seq \in Seqno /\ a.next_tx_seq \in Seqno
      /\ From(a, b.next_rx_seq) \in Nat /\ From(a, a.next_tx_seq) \in Nat /\ w \in Nat
      /\ w < SeqMod
  BY Distances, SeqModAssumption DEF Seqno
<1>2. /\ From(a, a.next_tx_seq) <= w /\ From(a, b.next_rx_seq) <= From(a, a.next_tx_seq)
  BY DEF Numbers
<1>3. From(a, a.next_tx_seq) + k <= w
  BY <1>1, <1>2
<1>4. k \in Seqno /\ From(a, a.next_tx_seq) + k < SeqMod
  BY <1>1, <1>3, SeqModAssumption DEF Seqno
<1>5. \A x : From(e, x) = From(a, x)
  BY DEF From
<1>6. From(a, (a.next_tx_seq + k) % SeqMod) = From(a, a.next_tx_seq) + k
  BY <1>1, <1>4, MinusGrows DEF From
<1>7. From(e, e.next_tx_seq) = From(a, a.next_tx_seq) + k
  BY <1>5, <1>6
<1>8. From(e, b.next_rx_seq) <= From(e, e.next_tx_seq) /\ From(e, e.next_tx_seq) <= w
  BY <1>1, <1>2, <1>3, <1>5, <1>7
<1>9. Numbers(e, b, qa, w)
  BY <1>5, <1>8 DEF Numbers
<1> QED
  BY <1>4, <1>7, <1>9

-------------------------------------------------------------------------------
(* The I PDUs under way.                                                     *)

\* How many there are.
LEMMA CarriesCount ==
  ASSUME NEW a \in Dlcb, NEW b \in Dlcb, NEW qa \in Seq(PDU), NEW qb \in Seq(PDU), NEW w \in Seqno,
         Numbers(a, b, qa, w), Carries(a, b, qa, qb), b.state # "W4_REMOTE_DM"
  PROVE  \E lo \in 0..Len(qb) :
           Line(qb, lo, From(a, a.next_tx_seq) - From(a, b.next_rx_seq), b.next_rx_seq)
<1>1. PICK lo \in 0..Len(qb), n \in 0..Len(qb) :
        Line(qb, lo, n, b.next_rx_seq) /\ a.next_tx_seq = (b.next_rx_seq + n) % SeqMod
  BY DEF Carries
<1>2. /\ a.rcvd_ack_seq \in Seqno /\ b.next_rx_seq \in Seqno /\ n \in Seqno
  BY <1>1, Distances DEF Line
<1>3. Minus(b.next_rx_seq, a.rcvd_ack_seq) <= Minus(a.next_tx_seq, a.rcvd_ack_seq)
  BY DEF Numbers, From
<1>4. n = Minus((b.next_rx_seq + n) % SeqMod, a.rcvd_ack_seq) - Minus(b.next_rx_seq, a.rcvd_ack_seq)
  BY <1>1, <1>2, <1>3, Reach
<1>5. n = From(a, a.next_tx_seq) - From(a, b.next_rx_seq)
  BY <1>1, <1>4 DEF From
<1> QED
  BY <1>1, <1>5

\* Counting from one later.
LEMMA OneOn ==
  ASSUME NEW x \in Seqno, NEW k \in Nat, k > 0, k <= SeqMod
  PROVE  /\ (((x + 1) % SeqMod) + k - 1) % SeqMod = (x + k) % SeqMod
         /\ (((x + 1) % SeqMod) + (k - 1)) % SeqMod = (x + k) % SeqMod
<1> DEFINE y == (x + 1) % SeqMod
<1>1. /\ 1 \in 0..SeqMod /\ k \in 0..SeqMod /\ k - 1 \in 0..SeqMod /\ x \in Nat /\ x < SeqMod
      /\ SeqMod \in Nat
  BY SeqModAssumption DEF Seqno
<1>2. y = (IF x + 1 >= SeqMod THEN x + 1 - SeqMod ELSE x + 1) /\ y \in Seqno /\ y \in Nat
  <2>1. y = (IF x + 1 >= SeqMod THEN x + 1 - SeqMod ELSE x + 1) /\ y \in Seqno
    BY <1>1, NextSeqno
  <2> QED
    BY <2>1 DEF Seqno
<1> HIDE DEF y
<1>3. y + k - 1 = y + (k - 1)
  BY <1>2
<1>4. /\ (y + (k - 1)) % SeqMod = (IF y + (k - 1) >= SeqMod THEN y + (k - 1) - SeqMod ELSE y + (k - 1))
      /\ (x + k) % SeqMod = (IF x + k >= SeqMod THEN x + k - SeqMod ELSE x + k)
  BY <1>1, <1>2, NextSeqno
<1>5. (y + (k - 1)) % SeqMod = (x + k) % SeqMod
  BY <1>1, <1>2, <1>4
<1> QED
  BY <1>3, <1>5 DEF y

\* No I PDU at all.
LEMMA NoLine ==
  ASSUME NEW q \in Seq(PDU), ~HasI(q), NEW f
  PROVE  Line(q, 0, 0, f)
<1>1. 0 \in Seqno /\ Len(q) \in Nat /\ DOMAIN q = 1..Len(q)
  BY SeqModAssumption DEF Seqno
<1> QED
  BY <1>1 DEF Line, HasI

\* While I PDUs are under way the receiver is behind the sender.
LEMMA CarriesAhead ==
  ASSUME NEW a \in Dlcb, NEW b \in Dlcb, NEW qa \in Seq(PDU), NEW qb \in Seq(PDU), NEW w \in Seqno,
         Numbers(a, b, qa, w), Carries(a, b, qa, qb)
  PROVE  /\ HasI(qb) => From(a, b.next_rx_seq) < From(a, a.next_tx_seq)
         /\ ~HasI(qb) /\ b.state # "W4_REMOTE_DM" => b.next_rx_seq = a.next_tx_seq
<1>1. /\ From(a, b.next_rx_seq) \in Nat /\ From(a, a.next_tx_seq) \in Nat
      /\ b.next_rx_seq \in Seqno /\ DOMAIN qb = 1..Len(qb) /\ Len(qb) \in Nat
  BY Distances
<1>2. CASE b.state = "W4_REMOTE_DM"
  BY <1>2 DEF Carries
<1>3. CASE b.state # "W4_REMOTE_DM"
  <2>1. ASSUME HasI(qb)
        PROVE  From(a, b.next_rx_seq) < From(a, a.next_tx_seq)
    <3> DEFINE n == From(a, a.next_tx_seq) - From(a, b.next_rx_seq)
    <3>1. PICK lo \in 0..Len(qb) : Line(qb, lo, n, b.next_rx_seq)
      BY <1>3, CarriesCount
    <3>2. n \in Int
      BY <1>1
    <3>3. PICK i \in DOMAIN qb : qb[i].type = "I"
      BY <2>1 DEF HasI
    <3> HIDE DEF n
    <3>4. lo < i /\ i <= lo + n
      BY <3>1, <3>3 DEF Line
    <3>5. n > 0
      BY <1>1, <3>2, <3>4
    <3> QED
      BY <1>1, <3>5 DEF n
  <2>2. ASSUME ~HasI(qb)
        PROVE  b.next_rx_seq = a.next_tx_seq
    <3>1. PICK lo \in 0..Len(qb), n \in 0..Len(qb) :
            Line(qb, lo, n, b.next_rx_seq) /\ a.next_tx_seq = (b.next_rx_seq + n) % SeqMod
      BY <1>3 DEF Carries
    <3>2. n = 0
      <4>1. lo + n <= Len(qb)
        BY <3>1 DEF Line
      <4>2. ASSUME n > 0 PROVE FALSE
        <5>1. lo + 1 \in DOMAIN qb /\ lo < lo + 1 /\ lo + 1 <= lo + n
          BY <1>1, <4>1, <4>2
        <5>2. qb[lo + 1].type = "I"
          BY <3>1, <5>1 DEF Line
        <5> QED
          BY <2>2, <5>1, <5>2 DEF HasI
      <4> QED
        BY <1>1, <4>2
    <3>3. \A x \in Seqno : (x + 0) % SeqMod = x
      BY SeqModAssumption DEF Seqno
    <3> QED
      BY <1>1, <3>1, <3>2, <3>3
  <2> QED
    BY <1>3, <2>1, <2>2
<1> QED
  BY <1>2, <1>3

\* Another PDU behind the I PDUs.
LEMMA CarriesMore ==
  ASSUME NEW a \in Dlcb, NEW b \in Dlcb, NEW qa \in Seq(PDU), NEW qb \in Seq(PDU),
         Carries(a, b, qa, qb), NEW p \in PDU, p.type # "I"
  PROVE  Carries(a, b, qa, Append(qb, p))
<1> DEFINE r == Append(qb, p)
<1>1. /\ DOMAIN r = 1..(Len(qb) + 1) /\ DOMAIN qb = 1..Len(qb) /\ Len(qb) \in Nat
      /\ (\A i \in 1..Len(qb) : r[i] = qb[i]) /\ r[Len(qb) + 1] = p /\ Len(r) = Len(qb) + 1
  BY AppendSeq
<1> HIDE DEF r
<1>2. HasI(r) => HasI(qb)
  BY <1>1 DEF HasI
<1>3. ASSUME b.state # "W4_REMOTE_DM"
      PROVE  \E lo, n \in 0..Len(r) : Line(r, lo, n, b.next_rx_seq)
                                   /\ a.next_tx_seq = (b.next_rx_seq + n) % SeqMod
  <2>1. PICK lo \in 0..Len(qb), n \in 0..Len(qb) :
          Line(qb, lo, n, b.next_rx_seq) /\ a.next_tx_seq = (b.next_rx_seq + n) % SeqMod
    BY <1>3 DEF Carries
  <2>2. /\ n \in Seqno /\ lo + n <= Len(qb) /\ lo \in Nat /\ n \in Nat
        /\ (\A i \in DOMAIN qb : qb[i].type = "I" <=> lo < i /\ i <= lo + n)
        /\ (\A j \in 1..n : qb[lo + j].ns = (b.next_rx_seq + j - 1) % SeqMod)
    BY <2>1 DEF Line
  <2>3. \A i \in DOMAIN r : r[i].type = "I" <=> lo < i /\ i <= lo + n
    <3> SUFFICES ASSUME NEW i \in DOMAIN r PROVE r[i].type = "I" <=> lo < i /\ i <= lo + n
      OBVIOUS
    <3>1. CASE i \in 1..Len(qb)
      BY <1>1, <2>2, <3>1
    <3>2. CASE i = Len(qb) + 1
      <4>1. ~(i <= lo + n)
        BY <1>1, <2>2, <3>2
      <4> QED
        BY <1>1, <3>2, <4>1
    <3> QED
      BY <1>1, <3>1, <3>2
  <2>4. \A j \in 1..n : r[lo + j].ns = (b.next_rx_seq + j - 1) % SeqMod
    <3>1. \A j \in 1..n : lo + j \in 1..Len(qb)
      BY <1>1, <2>2
    <3> QED
      BY <1>1, <2>2, <3>1
  <2>5. lo + n <= Len(r) /\ lo \in 0..Len(r) /\ n \in 0..Len(r)
    BY <1>1, <2>2
  <2>6. Line(r, lo, n, b.next_rx_seq)
    BY <2>2, <2>3, <2>4, <2>5 DEF Line
  <2> QED
    BY <2>1, <2>5, <2>6
<1>4. Carries(a, b, qa, r)
  BY <1>2, <1>3 DEF Carries
<1> QED
  BY <1>4 DEF r

\* b handles the first PDU of what is under way.
LEMMA CarriesHandled ==
  ASSUME NEW a \in Dlcb, NEW b \in Dlcb, NEW qa \in Seq(PDU), NEW qb \in Seq(PDU), NEW w \in Seqno,
         Numbers(a, b, qa, w), Carries(a, b, qa, qb), qb # <<>>
  PROVE  /\ qb[1].type # "I" => Carries(a, b, qa, Tail(qb))
         /\ qb[1].type = "I" /\ b.state # "W4_REMOTE_DM" =>
              /\ qb[1].ns = b.next_rx_seq
              /\ \A e \in Dlcb :
                   e.state = b.state /\ e.next_rx_seq = (b.next_rx_seq + 1) % SeqMod
                     => Carries(a, e, qa, Tail(qb))
<1> DEFINE t == Tail(qb)
           x == b.next_rx_seq
<1>1. /\ DOMAIN qb = 1..Len(qb) /\ DOMAIN t = 1..(Len(qb) - 1) /\ Len(qb) \in Nat \ {0}
      /\ (\A i \in 1..(Len(qb) - 1) : t[i] = qb[i + 1]) /\ t \in Seq(PDU) /\ Len(t) = Len(qb) - 1
      /\ Len(qb) \in Nat /\ Len(qb) > 0 /\ 1 \in DOMAIN qb
  <2>1. /\ DOMAIN qb = 1..Len(qb) /\ DOMAIN t = 1..(Len(qb) - 1) /\ Len(qb) \in Nat \ {0}
        /\ (\A i \in 1..(Len(qb) - 1) : t[i] = qb[i + 1]) /\ t \in Seq(PDU) /\ Len(t) = Len(qb) - 1
    BY TailSeq
  <2> QED
    BY <2>1
<1>2. x \in Seqno
  BY Distances
<1> HIDE DEF t, x
<1>3. \A i \in DOMAIN t : i + 1 \in DOMAIN qb /\ t[i] = qb[i + 1]
  BY <1>1
<1>4. HasI(t) => HasI(qb)
  BY <1>3 DEF HasI
<1>5. ASSUME qb[1].type # "I"
      PROVE  Carries(a, b, qa, t)
  <2>1. ASSUME b.state # "W4_REMOTE_DM"
        PROVE  \E lo, n \in 0..Len(t) : Line(t, lo, n, x) /\ a.next_tx_seq = (x + n) % SeqMod
    <3>1. PICK lo \in 0..Len(qb), n \in 0..Len(qb) :
            Line(qb, lo, n, x) /\ a.next_tx_seq = (x + n) % SeqMod
      BY <2>1 DEF Carries, x
    <3>2. /\ n \in Seqno /\ lo + n <= Len(qb) /\ lo \in Nat /\ n \in Nat
          /\ (\A i \in DOMAIN qb : qb[i].type = "I" <=> lo < i /\ i <= lo + n)
          /\ (\A j \in 1..n : qb[lo + j].ns = (x + j - 1) % SeqMod)
      BY <3>1 DEF Line
    <3>3. ~(lo < 1 /\ 1 <= lo + n)
      BY <1>1, <1>5, <3>2
    <3>4. CASE n = 0
      <4>1. \A i \in DOMAIN t : t[i].type # "I"
        <5> SUFFICES ASSUME NEW i \in DOMAIN t PROVE t[i].type # "I"
          OBVIOUS
        <5>1. i + 1 \in DOMAIN qb /\ t[i] = qb[i + 1] /\ ~(lo < i + 1 /\ i + 1 <= lo + n)
          BY <1>1, <1>3, <3>2, <3>4
        <5> QED
          BY <3>2, <5>1
      <4>2. Line(t, 0, 0, x)
        BY <1>1, <4>1, NoLine DEF HasI
      <4>3. 0 \in 0..Len(t)
        BY <1>1
      <4> QED
        BY <3>1, <3>4, <4>2, <4>3
    <3>5. CASE n > 0
      <4>1. lo - 1 \in 0..Len(t) /\ n \in 0..Len(t) /\ (lo - 1) + n <= Len(t) /\ lo >= 1
        BY <1>1, <3>2, <3>3, <3>5
      <4>2. \A i \in DOMAIN t : t[i].type = "I" <=> lo - 1 < i /\ i <= (lo - 1) + n
        <5> SUFFICES ASSUME NEW i \in DOMAIN t
                     PROVE  t[i].type = "I" <=> lo - 1 < i /\ i <= (lo - 1) + n
          OBVIOUS
        <5>1. (lo < i + 1 /\ i + 1 <= lo + n) <=> (lo - 1 < i /\ i <= (lo - 1) + n)
          BY <1>1, <3>2
        <5> QED
          BY <1>3, <3>2, <5>1
      <4>3. \A j \in 1..n : t[(lo - 1) + j].ns = (x + j - 1) % SeqMod
        <5> SUFFICES ASSUME NEW j \in 1..n PROVE t[(lo - 1) + j].ns = (x + j - 1) % SeqMod
          OBVIOUS
        <5>1. (lo - 1) + j \in 1..(Len(qb) - 1) /\ ((lo - 1) + j) + 1 = lo + j
          BY <1>1, <3>2, <4>1
        <5>2. t[(lo - 1) + j] = qb[lo + j]
          BY <1>1, <5>1
        <5> QED
          BY <3>2, <5>2
      <4>4. Line(t, lo - 1, n, x)
        BY <3>2, <4>1, <4>2, <4>3 DEF Line
      <4> QED
        BY <3>1, <4>1, <4>4
    <3> QED
      BY <3>2, <3>4, <3>5
  <2> QED
    BY <1>4, <2>1 DEF Carries, x
<1>6. ASSUME qb[1].type = "I", b.state # "W4_REMOTE_DM"
      PROVE  /\ qb[1].ns = x
             /\ \A e \in Dlcb : e.state = b.state /\ e.next_rx_seq = (x + 1) % SeqMod
                                  => Carries(a, e, qa, t)
  <2>1. PICK lo \in 0..Len(qb), n \in 0..Len(qb) :
          Line(qb, lo, n, x) /\ a.next_tx_seq = (x + n) % SeqMod
    BY <1>6 DEF Carries, x
  <2>2. /\ n \in Seqno /\ lo + n <= Len(qb) /\ lo \in Nat /\ n \in Nat
        /\ (\A i \in DOMAIN qb : qb[i].type = "I" <=> lo < i /\ i <= lo + n)
        /\ (\A j \in 1..n : qb[lo + j].ns = (x + j - 1) % SeqMod)
    BY <2>1 DEF Line
  <2>3. lo < 1 /\ 1 <= lo + n
    BY <1>1, <1>6, <2>2
  <2>4. lo = 0 /\ n > 0 /\ n <= SeqMod /\ n - 1 \in Seqno
    BY <2>2, <2>3, SeqModAssumption DEF Seqno
  <2>5. qb[1].ns = x
    <3>1. qb[0 + 1].ns = (x + 1 - 1) % SeqMod
      BY <2>2, <2>4
    <3>2. \A y \in Seqno : (y + 1 - 1) % SeqMod = y
      BY SeqModAssumption DEF Seqno
    <3> QED
      BY <1>2, <3>1, <3>2
  <2> DEFINE y == (x + 1) % SeqMod
  <2>6. a.next_tx_seq = (y + (n - 1)) % SeqMod
    BY <1>2, <2>1, <2>2, <2>4, OneOn
  <2>7. \A j \in 1..(n - 1) : t[0 + j].ns = (y + j - 1) % SeqMod
    <3> SUFFICES ASSUME NEW j \in 1..(n - 1) PROVE t[0 + j].ns = (y + j - 1) % SeqMod
      OBVIOUS
    <3>1. j \in Nat /\ j > 0 /\ j <= SeqMod /\ j + 1 \in 1..n /\ j \in 1..(Len(qb) - 1)
      BY <1>1, <2>2, <2>4, SeqModAssumption
    <3>2. t[j] = qb[j + 1]
      BY <1>1, <3>1
    <3>3. qb[0 + (j + 1)].ns = (x + (j + 1) - 1) % SeqMod
      BY <2>2, <2>4, <3>1
    <3>4. x + (j + 1) - 1 = x + j /\ 0 + (j + 1) = j + 1 /\ 0 + j = j
      BY <1>2, <3>1, SeqModAssumption DEF Seqno
    <3>5. (y + j - 1) % SeqMod = (x + j) % SeqMod
      BY <1>2, <3>1, OneOn
    <3> QED
      BY <3>2, <3>3, <3>4, <3>5
  <2> HIDE DEF y
  <2>8. \A i \in DOMAIN t : t[i].type = "I" <=> 0 < i /\ i <= 0 + (n - 1)
    <3> SUFFICES ASSUME NEW i \in DOMAIN t PROVE t[i].type = "I" <=> 0 < i /\ i <= 0 + (n - 1)
      OBVIOUS
    <3>1. (0 < i + 1 /\ i + 1 <= 0 + n) <=> (0 < i /\ i <= 0 + (n - 1))
      BY <1>1, <2>2
    <3> QED
      BY <1>3, <2>2, <2>4, <3>1
  <2>9. 0 \in 0..Len(t) /\ n - 1 \in 0..Len(t) /\ 0 + (n - 1) <= Len(t)
    BY <1>1, <2>2, <2>4
  <2>10. Line(t, 0, n - 1, y)
    BY <2>4, <2>7, <2>8, <2>9 DEF Line
  <2>11. ASSUME NEW e \in Dlcb, e.state = b.state, e.next_rx_seq = y
         PROVE  Carries(a, e, qa, t)
    BY <1>6, <2>6, <2>9, <2>10, <2>11 DEF Carries
  <2> QED
    BY <2>5, <2>11 DEF y
<1> QED
  BY <1>5, <1>6 DEF t, x

-------------------------------------------------------------------------------
(* What a station does to the pair when it sends.                            *)

Early == {"IDLE", "W4_REMOTE_RESP", "W4_LOCAL_RESP"}

\* From d to e nothing changes that the peer could notice.
Keeps(d, e) ==
  /\ e \in Dlcb /\ e.state = d.state /\ SameNumbers(d, e)
  /\ d.state # "CONNECTED" => e.i_xmit_q = d.i_xmit_q
  /\ d.state \in Early /\ Blank(d) => Blank(e)

\* An RR or RNR is queued.
Acknowledges(d, e, p) ==
  /\ e \in Dlcb /\ d.state = "CONNECTED" /\ e.state = "CONNECTED" /\ p \in PDU /\ Ack(p)
  /\ e.next_tx_seq = d.next_tx_seq /\ e.rcvd_ack_seq = d.rcvd_ack_seq
  /\ e.next_rx_seq = d.next_rx_seq
  /\ e.sent_ack_seq \in {d.sent_ack_seq, d.next_rx_seq} /\ p.nr = e.sent_ack_seq

\* A DISC is queued, with nothing to send and nothing to acknowledge.
Leaves(d, e) ==
  /\ e \in Dlcb /\ d.state = "CONNECTED" /\ Acked(d)
  /\ e.state = "W4_REMOTE_DM" /\ SameNumbers(d, e) /\ e.i_xmit_q = <<>>

\* One of these, out being what is queued.
Emit(d, e, out) ==
  \/ Keeps(d, e) /\ out = <<>>
  \/ \E p \in PDU : Acknowledges(d, e, p) /\ out = <<p>>
  \/ Leaves(d, e) /\ out = <<Disc>>

\* A station of the same numbers is as good to either side.
LEMMA SameFlow ==
  ASSUME NEW d, NEW e, SameNumbers(d, e), e.state = d.state, NEW b, NEW qa, NEW qb, NEW wa, NEW wb
  PROVE  /\ Numbers(d, b, qa, wb) = Numbers(e, b, qa, wb)
         /\ Numbers(b, d, qb, wa) = Numbers(b, e, qb, wa)
         /\ Carries(d, b, qa, qb) = Carries(e, b, qa, qb)
         /\ Carries(b, d, qb, qa) = Carries(b, e, qb, qa)
         /\ Flows(d, b, qa, qb, wa, wb) = Flows(e, b, qa, qb, wa, wb)
<1>1. /\ \A x : From(d, x) = From(e, x)
      /\ e.next_tx_seq = d.next_tx_seq /\ e.next_rx_seq = d.next_rx_seq
      /\ e.sent_ack_seq = d.sent_ack_seq
  BY DEF From, SameNumbers
<1>2. Numbers(d, b, qa, wb) = Numbers(e, b, qa, wb) /\ Numbers(b, d, qb, wa) = Numbers(b, e, qb, wa)
  BY <1>1 DEF Numbers
<1>3. Carries(d, b, qa, qb) = Carries(e, b, qa, qb) /\ Carries(b, d, qb, qa) = Carries(b, e, qb, qa)
  BY <1>1 DEF Carries
<1> QED
  BY <1>2, <1>3 DEF Flows, Flow

\* Seen from either side the flows are the same.
LEMMA FlowsTurn ==
  ASSUME NEW a, NEW b, NEW qa, NEW qb, NEW wa, NEW wb
  PROVE  Flows(a, b, qa, qb, wa, wb) = Flows(b, a, qb, qa, wb, wa)
BY DEF Flows

\* The pair does not notice.
LEMMA KeepsPaired ==
  ASSUME NEW d \in Dlcb, NEW e, Keeps(d, e), NEW b, NEW qa, NEW qb, NEW wa, NEW wb,
         Paired(d, b, qa, qb, wa, wb)
  PROVE  Paired(e, b, qa, qb, wa, wb)
<1>1. /\ e.state = d.state /\ (d.state \in Early /\ Blank(d) => Blank(e)) /\ SameNumbers(d, e)
      /\ (d.state # "CONNECTED" => e.i_xmit_q = d.i_xmit_q)
  BY DEF Keeps
<1>2. \A q : Leaving(d, q) => Leaving(e, q)
  BY <1>1 DEF Leaving, SameNumbers
<1>3. /\ Flows(d, b, qa, qb, wa, wb) => Flows(e, b, qa, qb, wa, wb)
      /\ Flows(b, d, qb, qa, wb, wa) => Flows(b, e, qb, qa, wb, wa)
  BY <1>1, SameFlow, FlowsTurn
<1>4. /\ Setup(d, b, qa, qb) => Setup(e, b, qa, qb)
      /\ Setup(b, d, qb, qa) => Setup(b, e, qb, qa)
  BY <1>1 DEF Setup, Early
<1>5. /\ Open(d, b, qa, qb) => Open(e, b, qa, qb)
      /\ Open(b, d, qb, qa) => Open(b, e, qb, qa)
  BY <1>1, <1>2 DEF Open, Joined, Accepted, Fleeting, Left, Early
<1>6. /\ BothLeft(d, b, qa, qb) => BothLeft(e, b, qa, qb)
      /\ BothLeft(b, d, qb, qa) => BothLeft(b, e, qb, qa)
      /\ Answered(d, b, qa, qb) => Answered(e, b, qa, qb)
      /\ Answered(b, d, qb, qa) => Answered(b, e, qb, qa)
  BY <1>1, <1>2 DEF BothLeft, Answered, Early
<1> QED
  BY <1>3, <1>4, <1>5, <1>6 DEF Paired, Half

\* The phases in which a is connected.
Connected(a, b, qa, qb) ==
  \/ Joined(a, b, qa, qb) \/ Accepted(a, b, qa, qb) \/ Left(b, a, qb, qa)

\* Of a connected station the phase is one of these.
LEMMA ConnectedPhases ==
  ASSUME NEW a, NEW b, NEW qa, NEW qb, NEW wa, NEW wb, a.state = "CONNECTED"
  PROVE  Paired(a, b, qa, qb, wa, wb)
           <=> Flows(a, b, qa, qb, wa, wb) /\ Connected(a, b, qa, qb)
<1>1. /\ ~Setup(a, b, qa, qb) /\ ~Setup(b, a, qb, qa)
      /\ ~BothLeft(a, b, qa, qb) /\ ~BothLeft(b, a, qb, qa)
      /\ ~Answered(a, b, qa, qb) /\ ~Answered(b, a, qb, qa)
  BY DEF Setup, BothLeft, Answered, Leaving
<1>2. Open(a, b, qa, qb) <=> Joined(a, b, qa, qb) \/ Accepted(a, b, qa, qb)
  BY DEF Open, Fleeting, Left, Leaving
<1>3. Open(b, a, qb, qa) <=> Joined(a, b, qa, qb) \/ Left(b, a, qb, qa)
  BY DEF Open, Joined, Fleeting, Accepted
<1>4. Flows(a, b, qa, qb, wa, wb) = Flows(b, a, qb, qa, wb, wa)
  BY FlowsTurn
<1> QED
  BY <1>1, <1>2, <1>3, <1>4 DEF Paired, Half, Connected

\* What a received from b has no acknowledgement beyond what it sent, so none but V(SA)
\* when nothing is unacknowledged; then nothing is under way to b either.
LEMMA AllAcked ==
  ASSUME NEW a \in Dlcb, NEW b \in Dlcb, NEW qa \in Seq(PDU), NEW qb \in Seq(PDU), NEW w \in Seqno,
         Numbers(a, b, qa, w), Carries(a, b, qa, qb), a.next_tx_seq = a.rcvd_ack_seq
  PROVE  /\ ~HasI(qb)
         /\ b.state = "W4_REMOTE_DM" => ~Has(qa, NotHere)
         /\ \A i \in DOMAIN qa : Info(qa[i]) => qa[i].nr = a.rcvd_ack_seq
         /\ b.sent_ack_seq = a.rcvd_ack_seq /\ b.next_rx_seq = a.rcvd_ack_seq
<1>1. /\ a.rcvd_ack_seq \in Seqno /\ From(a, a.next_tx_seq) = 0
      /\ b.sent_ack_seq \in Seqno /\ From(a, b.sent_ack_seq) \in Nat
      /\ b.next_rx_seq \in Seqno /\ From(a, b.next_rx_seq) \in Nat
      /\ \A i \in DOMAIN qa : Info(qa[i]) => qa[i].nr \in Seqno /\ From(a, qa[i].nr) \in Nat
  BY Distances, MinusIs DEF From
<1>2. From(a, b.next_rx_seq) = 0 /\ From(a, b.sent_ack_seq) = 0
  BY <1>1 DEF Numbers
<1>3. \A x \in Seqno : From(a, x) = 0 => x = a.rcvd_ack_seq
  <2> SUFFICES ASSUME NEW x \in Seqno, From(a, x) = 0 PROVE x = a.rcvd_ack_seq
    OBVIOUS
  <2>1. Minus(a.rcvd_ack_seq, a.rcvd_ack_seq) = 0 /\ Minus(x, a.rcvd_ack_seq) = 0
    BY <1>1, MinusIs DEF From
  <2>2. Minus(a.rcvd_ack_seq, a.rcvd_ack_seq) <= Minus(x, a.rcvd_ack_seq)
    BY <2>1
  <2> QED
    BY <1>1, <2>1, <2>2, Shift
<1>4. \A i \in DOMAIN qa : Info(qa[i]) => From(a, qa[i].nr) = 0
  BY <1>1, <1>2 DEF Numbers
<1>5. \A i \in DOMAIN qa : Info(qa[i]) => qa[i].nr = a.rcvd_ack_seq
  BY <1>1, <1>3, <1>4
<1>6. ~HasI(qb)
  BY <1>1, <1>2, CarriesAhead
<1>7. b.state = "W4_REMOTE_DM" => ~Has(qa, NotHere)
  BY <1>1, <1>2 DEF Carries
<1> QED
  BY <1>1, <1>2, <1>3, <1>5, <1>6, <1>7

\* PDUs for b at the end of what it has yet to handle.
LEMMA InfoMore ==
  ASSUME NEW q \in Seq(PDU), NEW p \in PDU
  PROVE  /\ AllInfo(q) /\ Info(p) => AllInfo(Append(q, p))
         /\ q # <<>> => Tail(Append(q, p)) = Append(Tail(q), p) /\ Append(q, p)[1] = q[1]
                        /\ Append(q, p) # <<>> /\ Tail(q) \in Seq(PDU)
         /\ AllInfo(q) /\ ~HasI(q) => \A i \in DOMAIN q : Ack(q[i])
         /\ AllInfo(q) => ~Has(q, NotHere)
         /\ Has(Append(q, p), NotHere) => Has(q, NotHere) \/ p = NotHere
         /\ HasI(Append(q, p)) => HasI(q) \/ p.type = "I"
         /\ q \o <<p>> = Append(q, p) /\ Append(q, p) \in Seq(PDU) /\ q \o <<>> = q
<1>1. /\ DOMAIN Append(q, p) = 1..(Len(q) + 1) /\ DOMAIN q = 1..Len(q) /\ Len(q) \in Nat
      /\ \A i \in 1..Len(q) : Append(q, p)[i] = q[i]
      /\ Append(q, p)[Len(q) + 1] = p
  BY AppendSeq
<1>2. AllInfo(q) /\ Info(p) => AllInfo(Append(q, p))
  BY <1>1 DEF AllInfo
<1>3. q # <<>> => Tail(Append(q, p)) = Append(Tail(q), p) /\ Append(q, p)[1] = q[1]
                  /\ Append(q, p) # <<>> /\ Tail(q) \in Seq(PDU)
  BY <1>1
<1>4. AllInfo(q) /\ ~HasI(q) => \A i \in DOMAIN q : Ack(q[i])
  BY DEF AllInfo, HasI, Info, Ack
<1>5. AllInfo(q) => ~Has(q, NotHere)
  BY Kinds DEF AllInfo, Has
<1>6. /\ Has(Append(q, p), NotHere) => Has(q, NotHere) \/ p = NotHere
      /\ HasI(Append(q, p)) => HasI(q) \/ p.type = "I"
  BY <1>1 DEF Has, HasI
<1>7. q \o <<p>> = Append(q, p) /\ Append(q, p) \in Seq(PDU) /\ q \o <<>> = q
  OBVIOUS
<1> QED
  BY <1>2, <1>3, <1>4, <1>5, <1>6, <1>7

\* PDUs behind others.
LEMMA InfoParts ==
  ASSUME NEW q \in Seq(PDU), NEW r \in Seq(PDU)
  PROVE  /\ AllInfo(q) /\ AllInfo(r) => AllInfo(q \o r)
         /\ HasI(q \o r) => HasI(q) \/ HasI(r)
         /\ Has(q \o r, NotHere) => Has(q, NotHere) \/ Has(r, NotHere)
         /\ q # <<>> => Tail(q \o r) = Tail(q) \o r /\ (q \o r)[1] = q[1]
                        /\ q \o r # <<>> /\ Tail(q) \in Seq(PDU)
<1> DEFINE s == q \o r
<1>1. /\ DOMAIN q = 1..Len(q) /\ DOMAIN r = 1..Len(r) /\ DOMAIN s = 1..(Len(q) + Len(r))
      /\ Len(q) \in Nat /\ Len(r) \in Nat /\ Len(s) = Len(q) + Len(r) /\ s \in Seq(PDU)
      /\ \A i \in 1..Len(q) : s[i] = q[i]
      /\ \A i \in Len(q) + 1 .. Len(q) + Len(r) : s[i] = r[i - Len(q)]
  BY ConcatSeq
<1> HIDE DEF s
<1>2. \A i \in DOMAIN s : \/ i \in DOMAIN q /\ s[i] = q[i]
                          \/ \E j \in DOMAIN r : s[i] = r[j]
  <2> SUFFICES ASSUME NEW i \in DOMAIN s
               PROVE  \/ i \in DOMAIN q /\ s[i] = q[i]
                      \/ \E j \in DOMAIN r : s[i] = r[j]
    OBVIOUS
  <2>1. CASE i \in 1..Len(q)
    BY <1>1, <2>1
  <2>2. CASE i \in Len(q) + 1 .. Len(q) + Len(r)
    <3>1. i - Len(q) \in DOMAIN r /\ s[i] = r[i - Len(q)]
      BY <1>1, <2>2
    <3> QED
      BY <3>1
  <2> QED
    BY <1>1, <2>1, <2>2
<1>3. /\ AllInfo(q) /\ AllInfo(r) => AllInfo(s)
      /\ HasI(s) => HasI(q) \/ HasI(r)
      /\ Has(s, NotHere) => Has(q, NotHere) \/ Has(r, NotHere)
  BY <1>2 DEF AllInfo, HasI, Has
<1>4. q # <<>> => Tail(s) = Tail(q) \o r /\ s[1] = q[1] /\ s # <<>> /\ Tail(q) \in Seq(PDU)
  BY DEF s
<1> QED
  BY <1>3, <1>4 DEF s

\* A connected station queues I, RR or RNR PDUs that acknowledge what it received.
LEMMA InfosPaired ==
  ASSUME NEW d, NEW b, NEW qa, NEW qb, NEW wa, NEW wb, Ends(d, b, qa, qb, wa, wb),
         Paired(d, b, qa, qb, wa, wb), d.state = "CONNECTED",
         NEW e \in Dlcb, e.state = "CONNECTED", e.next_rx_seq = d.next_rx_seq,
         e.sent_ack_seq \in {d.sent_ack_seq, d.next_rx_seq},
         NEW out \in Seq(PDU), AllInfo(out), \A i \in DOMAIN out : out[i].nr = e.sent_ack_seq,
         Numbers(e, b, qa, wb), Carries(e, b, qa, qb \o out)
  PROVE  Paired(e, b, qa, qb \o out, wa, wb)
<1> DEFINE r == qb \o out
<1>1. /\ d \in Dlcb /\ b \in Dlcb /\ qa \in Seq(PDU) /\ qb \in Seq(PDU) /\ wa \in Seqno
      /\ wb \in Seqno
  BY DEF Ends
<1>2. Flows(d, b, qa, qb, wa, wb) /\ Connected(d, b, qa, qb)
  BY ConnectedPhases
<1>3. Numbers(b, d, qb, wa) /\ Carries(b, d, qb, qa)
  BY <1>2 DEF Flows, Flow
<1>4. Numbers(b, e, r, wa)
  BY <1>1, <1>3, NumbersAck
<1>5. Carries(b, e, r, qa)
  BY <1>3 DEF Carries
<1>6. Flows(e, b, qa, r, wa, wb)
  BY <1>4, <1>5 DEF Flows, Flow
<1>7. /\ AllInfo(qb) => AllInfo(r)
      /\ qb # <<>> => Tail(r) = Tail(qb) \o out /\ r[1] = qb[1] /\ r # <<>>
      /\ qb # <<>> /\ AllInfo(Tail(qb)) => AllInfo(Tail(qb) \o out)
  <2>1. \A x, y \in Seq(PDU) : AllInfo(x) /\ AllInfo(y) => AllInfo(x \o y)
    BY InfoParts
  <2>2. qb # <<>> => Tail(r) = Tail(qb) \o out /\ r[1] = qb[1] /\ r # <<>> /\ Tail(qb) \in Seq(PDU)
    BY <1>1, InfoParts
  <2> QED
    BY <1>1, <2>1, <2>2
<1>8. Leaving(b, qb) => Leaving(b, r)
  <2> SUFFICES ASSUME Leaving(b, qb) PROVE Leaving(b, r)
    OBVIOUS
  <2>1. d.sent_ack_seq = b.rcvd_ack_seq /\ d.next_rx_seq = b.rcvd_ack_seq
    BY <1>1, <1>3, AllAcked DEF Leaving
  <2>2. /\ DOMAIN r = 1..(Len(qb) + Len(out)) /\ DOMAIN qb = 1..Len(qb) /\ DOMAIN out = 1..Len(out)
        /\ Len(qb) \in Nat /\ Len(out) \in Nat
        /\ \A i \in 1..Len(qb) : r[i] = qb[i]
        /\ \A i \in Len(qb) + 1 .. Len(qb) + Len(out) : r[i] = out[i - Len(qb)]
    BY <1>1, ConcatSeq
  <2> HIDE DEF r
  <2>3. \A i \in DOMAIN r : Info(r[i]) => r[i].nr = b.rcvd_ack_seq
    <3> SUFFICES ASSUME NEW i \in DOMAIN r, Info(r[i]) PROVE r[i].nr = b.rcvd_ack_seq
      OBVIOUS
    <3>1. CASE i \in 1..Len(qb)
      BY <2>2, <3>1 DEF Leaving
    <3>2. CASE i \in Len(qb) + 1 .. Len(qb) + Len(out)
      <4>1. i - Len(qb) \in DOMAIN out /\ r[i] = out[i - Len(qb)]
        BY <2>2, <3>2
      <4> QED
        BY <2>1, <4>1
    <3> QED
      BY <2>2, <3>1, <3>2
  <2> QED
    BY <2>3 DEF Leaving
<1> HIDE DEF r
<1>9. Connected(e, b, qa, r)
  BY <1>2, <1>7, <1>8 DEF Connected, Joined, Accepted, Left
<1>10. Paired(e, b, qa, r, wa, wb)
  BY <1>6, <1>9, ConnectedPhases
<1> QED
  BY <1>10 DEF r

\* An RR or RNR.
LEMMA AcknowledgesPaired ==
  ASSUME NEW d, NEW b, NEW qa, NEW qb, NEW wa, NEW wb, Ends(d, b, qa, qb, wa, wb),
         Paired(d, b, qa, qb, wa, wb), NEW e, NEW p, Acknowledges(d, e, p)
  PROVE  Paired(e, b, qa, Append(qb, p), wa, wb)
<1>1. /\ d \in Dlcb /\ b \in Dlcb /\ qa \in Seq(PDU) /\ qb \in Seq(PDU) /\ wa \in Seqno
      /\ wb \in Seqno
  BY DEF Ends
<1>2. /\ e \in Dlcb /\ d.state = "CONNECTED" /\ e.state = "CONNECTED" /\ p \in PDU /\ Ack(p)
      /\ e.next_tx_seq = d.next_tx_seq /\ e.rcvd_ack_seq = d.rcvd_ack_seq
      /\ e.next_rx_seq = d.next_rx_seq
      /\ e.sent_ack_seq \in {d.sent_ack_seq, d.next_rx_seq} /\ p.nr = e.sent_ack_seq
  BY DEF Acknowledges
<1>3. Numbers(d, b, qa, wb) /\ Carries(d, b, qa, qb)
  BY <1>2, ConnectedPhases DEF Flows, Flow
<1>4. Numbers(e, b, qa, wb)
  BY <1>2, <1>3 DEF Numbers, From
<1>5. Carries(e, b, qa, qb)
  BY <1>2, <1>3 DEF Carries, From
<1>6. <<p>> \in Seq(PDU) /\ AllInfo(<<p>>) /\ \A i \in DOMAIN <<p>> : <<p>>[i].nr = e.sent_ack_seq
  BY <1>2 DEF AllInfo, Ack, Info
<1>7. qb \o <<p>> = Append(qb, p)
  BY <1>1, <1>2, InfoMore
<1>8. Carries(e, b, qa, Append(qb, p))
  BY <1>1, <1>2, <1>5, CarriesMore DEF Ack
<1>9. Paired(e, b, qa, qb \o <<p>>, wa, wb)
  BY <1>2, <1>4, <1>6, <1>7, <1>8, InfosPaired
<1> QED
  BY <1>7, <1>9

\* A DISC.
LEMMA LeavesPaired ==
  ASSUME NEW d, NEW b, NEW qa, NEW qb, NEW wa, NEW wb, Ends(d, b, qa, qb, wa, wb),
         Paired(d, b, qa, qb, wa, wb), NEW e, Leaves(d, e)
  PROVE  Paired(e, b, qa, Append(qb, Disc), wa, wb)
<1> DEFINE r == Append(qb, Disc)
<1>1. /\ d \in Dlcb /\ b \in Dlcb /\ qa \in Seq(PDU) /\ qb \in Seq(PDU) /\ wa \in Seqno
      /\ wb \in Seqno
  BY DEF Ends
<1>2. /\ e \in Dlcb /\ d.state = "CONNECTED" /\ d.i_xmit_q = <<>> /\ d.next_rx_seq = d.sent_ack_seq
      /\ d.next_tx_seq = d.rcvd_ack_seq
      /\ e.state = "W4_REMOTE_DM" /\ SameNumbers(d, e) /\ e.i_xmit_q = <<>>
  BY DEF Leaves, Acked
<1>3. Flows(d, b, qa, qb, wa, wb) /\ Connected(d, b, qa, qb)
  BY <1>2, ConnectedPhases
<1>4. /\ Numbers(d, b, qa, wb) /\ Carries(d, b, qa, qb)
      /\ Numbers(b, d, qb, wa) /\ Carries(b, d, qb, qa)
  BY <1>3 DEF Flows, Flow
<1>5. /\ ~HasI(qb)
      /\ b.state = "W4_REMOTE_DM" => ~Has(qa, NotHere)
      /\ \A i \in DOMAIN qa : Info(qa[i]) => qa[i].nr = d.rcvd_ack_seq
  BY <1>1, <1>2, <1>4, AllAcked
<1>6. Leaving(e, qa)
  BY <1>2, <1>5 DEF Leaving, SameNumbers
<1>7. Disc \in PDU /\ Disc.type # "I" /\ ~Info(Disc) /\ Disc # NotHere /\ Cc # NotHere
  BY Kinds
<1>8. /\ DOMAIN r = 1..(Len(qb) + 1) /\ DOMAIN qb = 1..Len(qb) /\ Len(qb) \in Nat
      /\ (\A i \in 1..Len(qb) : r[i] = qb[i]) /\ r[Len(qb) + 1] = Disc /\ r = qb \o <<Disc>>
  <2>1. r = qb \o <<Disc>>
    BY <1>1, <1>7, InfoMore
  <2> QED
    BY <1>1, <1>7, <2>1, AppendSeq
<1> HIDE DEF r
<1>9. /\ AllInfo(qb) => (\A i \in DOMAIN qb : Ack(qb[i])) /\ ~Has(qb, NotHere)
      /\ Has(r, NotHere) => Has(qb, NotHere)
  BY <1>1, <1>5, <1>7, InfoMore DEF r
<1>10. AllInfo(qb) => Acks(r, <<Disc>>)
  BY <1>1, <1>7, <1>9, AcksOnly DEF r
<1>11. ~Has(r, NotHere) => Flows(e, b, qa, r, wa, wb)
  <2> SUFFICES ASSUME ~Has(r, NotHere) PROVE Flows(e, b, qa, r, wa, wb)
    OBVIOUS
  <2>1. Numbers(e, b, qa, wb)
    BY <1>2, <1>4 DEF Numbers, From, SameNumbers
  <2>2. Carries(e, b, qa, qb)
    BY <1>2, <1>4 DEF Carries, From, SameNumbers
  <2>3. Carries(e, b, qa, r)
    BY <1>1, <1>2, <1>7, <2>2, CarriesMore DEF r
  <2>4. Numbers(b, e, r, wa)
    <3>1. <<Disc>> \in Seq(PDU) /\ \A i \in DOMAIN <<Disc>> : ~Info(<<Disc>>[i])
      BY <1>7
    <3>2. Numbers(b, e, qb \o <<Disc>>, wa)
      BY <1>1, <1>2, <1>4, <3>1, NumbersAck DEF SameNumbers
    <3> QED
      BY <1>8, <3>2
  <2>5. Carries(b, e, r, qa)
    <3>1. HasI(qa) => From(b, d.next_rx_seq) < From(b, b.next_tx_seq)
      BY <1>1, <1>4, CarriesAhead
    <3> QED
      BY <1>2, <3>1 DEF Carries, SameNumbers
  <2> QED
    BY <2>1, <2>3, <2>4, <2>5 DEF Flows, Flow
<1>12. CASE Joined(d, b, qa, qb)
  <2>1. AllInfo(qb) /\ AllInfo(qa) /\ b.state = "CONNECTED"
    BY <1>12 DEF Joined
  <2>2. ~Has(r, NotHere)
    BY <1>9, <2>1
  <2>3. Parting(r)
    BY <1>1, <1>7, <1>10, <2>1, AcksDisc, InfoMore DEF r
  <2>4. Left(e, b, qa, r)
    BY <1>6, <2>1, <2>3 DEF Left
  <2> QED
    BY <1>11, <2>2, <2>4 DEF Paired, Half, Open, r
<1>13. CASE Accepted(d, b, qa, qb)
  <2>1. /\ b.state = "W4_REMOTE_RESP" /\ Blank(b) /\ qa = <<>> /\ qb # <<>> /\ qb[1] = Cc
        /\ AllInfo(Tail(qb))
    BY <1>13 DEF Accepted
  <2>2. /\ Tail(r) = Append(Tail(qb), Disc) /\ r[1] = Cc /\ r # <<>> /\ Tail(qb) \in Seq(PDU)
    BY <1>1, <1>7, <2>1, InfoMore DEF r
  <2>3. /\ DOMAIN Tail(qb) = 1..(Len(qb) - 1) /\ \A i \in 1..(Len(qb) - 1) : Tail(qb)[i] = qb[i + 1]
    BY <1>1, <2>1, TailSeq
  <2>4. ~HasI(Tail(qb)) /\ (Has(qb, NotHere) => Has(Tail(qb), NotHere))
    <3>1. \A i \in DOMAIN Tail(qb) : i + 1 \in DOMAIN qb /\ Tail(qb)[i] = qb[i + 1]
      BY <1>8, <2>3
    <3>2. ~HasI(Tail(qb))
      BY <1>5, <3>1 DEF HasI
    <3>3. ASSUME NEW i \in DOMAIN qb, qb[i] = NotHere
          PROVE  Has(Tail(qb), NotHere)
      <4>1. i # 1
        BY <1>7, <2>1, <3>3
      <4>2. i - 1 \in 1..(Len(qb) - 1) /\ (i - 1) + 1 = i
        BY <1>8, <4>1
      <4> QED
        BY <2>3, <3>3, <4>2 DEF Has
    <3> QED
      BY <3>2, <3>3 DEF Has
  <2>5. (\A i \in DOMAIN Tail(qb) : Ack(Tail(qb)[i])) /\ ~Has(Tail(qb), NotHere)
    BY <1>7, <2>1, <2>2, <2>4, InfoMore
  <2>6. Acks(Tail(r), <<Disc>>)
    BY <1>7, <2>2, <2>5, AcksOnly
  <2>7. ~Has(r, NotHere)
    BY <1>9, <2>4, <2>5
  <2>8. Fleeting(e, b, qa, r)
    BY <1>6, <2>1, <2>2, <2>6 DEF Fleeting
  <2> QED
    BY <1>11, <2>7, <2>8 DEF Paired, Half, Open, r
<1>14. CASE Left(b, d, qb, qa)
  <2>1. Leaving(b, qb) /\ AllInfo(qb) /\ Parting(qa) /\ b.state = "W4_REMOTE_DM"
    BY <1>14 DEF Left, Leaving
  <2>2. Leaving(b, r)
    <3>1. \A i \in DOMAIN r : Info(r[i]) => i \in DOMAIN qb /\ r[i] = qb[i]
      <4> SUFFICES ASSUME NEW i \in DOMAIN r, Info(r[i]) PROVE i \in DOMAIN qb /\ r[i] = qb[i]
        OBVIOUS
      <4>1. i # Len(qb) + 1
        BY <1>7, <1>8
      <4>2. i \in 1..Len(qb)
        BY <1>8, <4>1
      <4> QED
        BY <1>8, <4>2
    <3> QED
      BY <2>1, <3>1 DEF Leaving
  <2>3. Acks(qa, <<Disc>>) /\ Acks(r, <<Disc>>)
    BY <1>1, <1>5, <1>10, <2>1, AcksDisc
  <2>4. BothLeft(e, b, qa, r)
    BY <1>6, <2>2, <2>3 DEF BothLeft
  <2> QED
    BY <2>4 DEF Paired, Half, r
<1> QED
  BY <1>3, <1>12, <1>13, <1>14 DEF Connected

\* Any of the three.
LEMMA EmitPaired ==
  ASSUME NEW d, NEW b, NEW qa, NEW qb, NEW wa, NEW wb, Ends(d, b, qa, qb, wa, wb),
         Paired(d, b, qa, qb, wa, wb), NEW e, NEW out, Emit(d, e, out)
  PROVE  Paired(e, b, qa, qb \o out, wa, wb) /\ Ends(e, b, qa, qb \o out, wa, wb)
<1>1. /\ d \in Dlcb /\ qb \in Seq(PDU)
  BY DEF Ends
<1>2. CASE Keeps(d, e) /\ out = <<>>
  <2>1. qb \o out = qb /\ e \in Dlcb
    BY <1>1, <1>2 DEF Keeps
  <2> QED
    BY <1>1, <1>2, <2>1, KeepsPaired DEF Ends
<1>3. CASE \E p \in PDU : Acknowledges(d, e, p) /\ out = <<p>>
  <2>1. PICK p \in PDU : Acknowledges(d, e, p) /\ out = <<p>>
    BY <1>3
  <2>2. qb \o out = Append(qb, p) /\ Append(qb, p) \in Seq(PDU) /\ e \in Dlcb
    BY <1>1, <2>1, InfoMore DEF Acknowledges
  <2> QED
    BY <2>1, <2>2, AcknowledgesPaired DEF Ends
<1>4. CASE Leaves(d, e) /\ out = <<Disc>>
  <2>1. qb \o out = Append(qb, Disc) /\ Append(qb, Disc) \in Seq(PDU) /\ e \in Dlcb
    BY <1>1, <1>4, InfoMore, Kinds DEF Leaves
  <2> QED
    BY <1>4, <2>1, LeavesPaired DEF Ends
<1> QED
  BY <1>2, <1>3, <1>4 DEF Emit

-------------------------------------------------------------------------------
(* The sending functions.                                                    *)

\* From d to e the station queues out, which keeps every pair it may be in.
Moves(d, e, out) ==
  /\ e \in Dlcb /\ out \in Seq(PDU) /\ e.sig_xmit_q = d.sig_xmit_q \o out
  /\ ~HasI(out) /\ ~Has(out, NotHere)
  /\ d.state \in Early \/ e.state \in Early => e.state = d.state
  /\ \A b, qa, qb, wa, wb :
       Ends(d, b, qa, qb, wa, wb) /\ Paired(d, b, qa, qb, wa, wb)
         => Ends(e, b, qa, qb \o out, wa, wb) /\ Paired(e, b, qa, qb \o out, wa, wb)

\* What is emitted moves the pair.
LEMMA EmitMoves ==
  ASSUME NEW d \in Dlcb, NEW e, NEW out, Emit(d, e, out), e.sig_xmit_q = d.sig_xmit_q \o out
  PROVE  Moves(d, e, out)
<1>1. e \in Dlcb /\ (d.state \in Early \/ e.state \in Early => e.state = d.state)
  BY DEF Emit, Keeps, Acknowledges, Leaves, Early
<1>2. out \in Seq(PDU) /\ ~HasI(out) /\ ~Has(out, NotHere)
  <2>1. <<>> \in Seq(PDU) /\ ~HasI(<<>>) /\ ~Has(<<>>, NotHere)
    BY DEF HasI, Has
  <2>2. ASSUME NEW p \in PDU, p.type # "I", p # NotHere
        PROVE  <<p>> \in Seq(PDU) /\ ~HasI(<<p>>) /\ ~Has(<<p>>, NotHere)
    BY <2>2 DEF HasI, Has
  <2>3. \A p \in PDU : Ack(p) => p.type # "I" /\ p # NotHere
    BY Kinds DEF Ack
  <2>4. CASE \E p \in PDU : Acknowledges(d, e, p) /\ out = <<p>>
    BY <2>2, <2>3, <2>4 DEF Acknowledges
  <2>5. CASE out = <<Disc>>
    BY <2>2, <2>5, Kinds
  <2> QED
    BY <2>1, <2>4, <2>5 DEF Emit
<1>3. \A b, qa, qb, wa, wb :
        Ends(d, b, qa, qb, wa, wb) /\ Paired(d, b, qa, qb, wa, wb)
          => Ends(e, b, qa, qb \o out, wa, wb) /\ Paired(e, b, qa, qb \o out, wa, wb)
  BY EmitPaired
<1> QED
  BY <1>1, <1>2, <1>3 DEF Moves


\* One move after another.
LEMMA MovesOn ==
  ASSUME NEW d \in Dlcb, NEW e, NEW f, NEW o, NEW p, Moves(d, e, o), Moves(e, f, p)
  PROVE  Moves(d, f, o \o p)
<1>1. /\ e \in Dlcb /\ f \in Dlcb /\ o \in Seq(PDU) /\ p \in Seq(PDU) /\ o \o p \in Seq(PDU)
      /\ e.sig_xmit_q = d.sig_xmit_q \o o /\ f.sig_xmit_q = e.sig_xmit_q \o p
      /\ ~HasI(o) /\ ~Has(o, NotHere) /\ ~HasI(p) /\ ~Has(p, NotHere)
      /\ (d.state \in Early \/ e.state \in Early => e.state = d.state)
      /\ (e.state \in Early \/ f.state \in Early => f.state = e.state)
  BY DEF Moves
<1>2. \A x, y, z \in Seq(PDU) : x \o (y \o z) = (x \o y) \o z
  OBVIOUS
<1>3. d.sig_xmit_q \in Seq(PDU)
  BY Fields
<1>4. f.sig_xmit_q = d.sig_xmit_q \o (o \o p)
  <2>1. d.sig_xmit_q \o (o \o p) = (d.sig_xmit_q \o o) \o p
    BY <1>1, <1>2, <1>3, Zenon
  <2> QED
    BY <1>1, <2>1
<1>5. ~HasI(o \o p) /\ ~Has(o \o p, NotHere)
  BY <1>1, InfoParts
<1>6. d.state \in Early \/ f.state \in Early => f.state = d.state
  BY <1>1
<1>7. ASSUME NEW b, NEW qa, NEW qb, NEW wa, NEW wb,
             Ends(d, b, qa, qb, wa, wb), Paired(d, b, qa, qb, wa, wb)
      PROVE  Ends(f, b, qa, qb \o (o \o p), wa, wb) /\ Paired(f, b, qa, qb \o (o \o p), wa, wb)
  <2>1. Ends(e, b, qa, qb \o o, wa, wb) /\ Paired(e, b, qa, qb \o o, wa, wb)
    BY <1>7, Zenon DEF Moves
  <2>2. Ends(f, b, qa, (qb \o o) \o p, wa, wb) /\ Paired(f, b, qa, (qb \o o) \o p, wa, wb)
    BY <2>1, Zenon DEF Moves
  <2>3. qb \in Seq(PDU)
    BY <1>7 DEF Ends
  <2>4. (qb \o o) \o p = qb \o (o \o p)
    BY <1>1, <1>2, <2>3
  <2> QED
    BY <2>2, <2>4
<1>8. \A b, qa, qb, wa, wb :
        Ends(d, b, qa, qb, wa, wb) /\ Paired(d, b, qa, qb, wa, wb)
          => Ends(f, b, qa, qb \o (o \o p), wa, wb) /\ Paired(f, b, qa, qb \o (o \o p), wa, wb)
  BY <1>7
<1> QED
  BY <1>1, <1>4, <1>5, <1>6, <1>8 DEF Moves

\* Nothing is queued, and the peer notices nothing.
LEMMA Stays ==
  ASSUME NEW d \in Dlcb, NEW e, Keeps(d, e), e.sig_xmit_q = d.sig_xmit_q
  PROVE  Moves(d, e, <<>>)
<1>1. d.sig_xmit_q \in Seq(PDU) /\ \A x \in Seq(PDU) : x \o <<>> = x
  BY Fields
<1>2. e.sig_xmit_q = d.sig_xmit_q \o <<>>
  BY <1>1
<1>3. Emit(d, e, <<>>)
  BY DEF Emit
<1> QED
  BY <1>2, <1>3, EmitMoves

\* Two moves that queue nothing.
LEMMA StaysOn ==
  ASSUME NEW d \in Dlcb, NEW e, NEW f, NEW p, Moves(d, e, <<>>), Moves(e, f, p)
  PROVE  Moves(d, f, p)
<1>1. p \in Seq(PDU) /\ <<>> \o p = p
  BY DEF Moves
<1>2. Moves(d, f, <<>> \o p)
  BY MovesOn
<1> QED
  BY <1>1, <1>2

\* What a control block without a connection holds.
LEMMA BlankFields ==
  ASSUME NEW d, Blank(d)
  PROVE  /\ d.flags = {} /\ d.i_xmit_q = <<>> /\ d.i_rx_q = <<>> /\ ~d.local_busy
         /\ d.next_tx_seq = 0 /\ d.rcvd_ack_seq = 0 /\ d.next_rx_seq = 0 /\ d.sent_ack_seq = 0
BY DEF Blank, Idle

\* Flags may change, but for those set before there is a connection.
LEMMA FlagsMove ==
  ASSUME NEW d \in Dlcb, NEW f \in SUBSET Flag, f \subseteq d.flags \/ d.state \notin Early
  PROVE  Moves(d, [d EXCEPT !.flags = f], <<>>)
<1> DEFINE e == [d EXCEPT !.flags = f]
<1>1. /\ e \in Dlcb /\ e.state = d.state /\ SameNumbers(d, e) /\ e.i_xmit_q = d.i_xmit_q
      /\ e.sig_xmit_q = d.sig_xmit_q
  BY DEF Dlcb, SameNumbers
<1>2. ASSUME d.state \in Early, Blank(d) PROVE Blank(e)
  <2>1. f = d.flags
    BY <1>2, BlankFields
  <2>2. e = d
    BY <2>1 DEF Dlcb
  <2> QED
    BY <1>2, <2>2
<1> HIDE DEF e
<1>3. Keeps(d, e)
  BY <1>1, <1>2 DEF Keeps
<1>4. Moves(d, e, <<>>)
  BY <1>1, <1>3, Stays
<1> QED
  BY <1>4 DEF e

\* A DISC, when nothing holds it back.
LEMMA SendDiscMoves ==
  ASSUME NEW d \in Dlcb, d.state = "CONNECTED", Acked(d)
  PROVE  Moves(d, SendDisc(d), <<Disc>>)
<1> DEFINE q == Append(d.sig_xmit_q, Disc)
           e == [d EXCEPT !.state = "W4_REMOTE_DM", !.sig_xmit_q = q]
<1>1. q \in Seq(PDU) /\ q = d.sig_xmit_q \o <<Disc>> /\ d.i_xmit_q = <<>>
  BY Fields, Kinds, InfoMore DEF Acked
<1>2. SendDisc(d) = e
  <2>1. [d EXCEPT !.state = "W4_REMOTE_DM"].sig_xmit_q = d.sig_xmit_q
    BY DEF Dlcb
  <2> QED
    BY <2>1 DEF SendDisc, Queue, Disc, Dlcb
<1> HIDE DEF q
<1>3. e \in Dlcb /\ e.state = "W4_REMOTE_DM" /\ SameNumbers(d, e) /\ e.i_xmit_q = d.i_xmit_q
      /\ e.sig_xmit_q = q
  BY <1>1 DEF Dlcb, SameNumbers, State
<1> HIDE DEF e
<1>4. Leaves(d, e)
  BY <1>1, <1>3 DEF Leaves
<1>5. Emit(d, e, <<Disc>>)
  BY <1>4 DEF Emit
<1> QED
  BY <1>1, <1>2, <1>3, <1>5, EmitMoves

\* A disconnection that waited.
LEMMA CheckPendingDiscMoves ==
  ASSUME NEW d \in Dlcb
  PROVE  \E out : Moves(d, CheckPendingDisc(d), out)
<1> DEFINE f == d.flags \ {"PENDING_DISC"}
           e == [d EXCEPT !.flags = f]
<1>1. f \in SUBSET Flag /\ f \subseteq d.flags
  BY Fields
<1>2. \/ CheckPendingDisc(d) = d
      \/ CheckPendingDisc(d) = e
      \/ Acked(d) /\ e.state = "CONNECTED" /\ CheckPendingDisc(d) = SendDisc(e)
  BY DEF CheckPendingDisc
<1> HIDE DEF f
<1>3. Moves(d, e, <<>>)
  BY <1>1, FlagsMove
<1>4. e \in Dlcb /\ (Acked(d) => Acked(e))
  BY <1>1 DEF Dlcb, Acked
<1> HIDE DEF e
<1>5. Moves(d, d, <<>>)
  BY Stays DEF Keeps, SameNumbers
<1>6. CASE Acked(d) /\ e.state = "CONNECTED" /\ CheckPendingDisc(d) = SendDisc(e)
  <2>1. Moves(e, SendDisc(e), <<Disc>>)
    BY <1>4, <1>6, SendDiscMoves
  <2>2. Moves(d, SendDisc(e), <<Disc>>)
    BY <1>3, <2>1, StaysOn
  <2> QED
    BY <1>6, <2>2
<1> QED
  BY <1>2, <1>3, <1>5, <1>6

\* An RR or RNR.
LEMMA SendRrRnrMoves ==
  ASSUME NEW d \in Dlcb, d.state = "CONNECTED"
  PROVE  \E out : Moves(d, SendRrRnr(d), out)
<1> DEFINE fl == d.flags \ {"PENDING_RR_RNR"}
           rnr == [type |-> "RNR", nr |-> d.sent_ack_seq]
           rr == [type |-> "RR", nr |-> d.next_rx_seq]
           qn == Append(d.sig_xmit_q, rnr)
           qr == Append(d.sig_xmit_q, rr)
           en == [d EXCEPT !.flags = fl, !.sig_xmit_q = qn]
           er == [d EXCEPT !.flags = fl, !.sent_ack_seq = d.next_rx_seq, !.sig_xmit_q = qr]
<1>1. /\ fl \in SUBSET Flag /\ d.next_rx_seq \in Seqno /\ d.sent_ack_seq \in Seqno
      /\ d.sig_xmit_q \in Seq(PDU)
  BY Fields
<1>2. rnr \in PDU /\ Ack(rnr) /\ rnr.nr = d.sent_ack_seq /\ rr \in PDU /\ Ack(rr) /\ rr.nr = d.next_rx_seq
  BY <1>1 DEF PDU, Ack
<1>3. SendRrRnr(d) = d \/ SendRrRnr(d) = en \/ SendRrRnr(d) = er
  <2> DEFINE e == [d EXCEPT !.flags = fl]
             a == [e EXCEPT !.sent_ack_seq = d.next_rx_seq]
  <2>1. SendRrRnr(d) = d \/ SendRrRnr(d) = Queue(e, rnr) \/ SendRrRnr(d) = Queue(a, rr)
    BY Zenon DEF SendRrRnr, e, a, fl
  <2>2. Queue(e, rnr) = en
    BY DEF Queue, Dlcb
  <2>3. Queue(a, rr) = er
    BY DEF Queue, Dlcb
  <2> QED
    BY <2>1, <2>2, <2>3
<1>4. /\ qn \in Seq(PDU) /\ qn = d.sig_xmit_q \o <<rnr>>
      /\ qr \in Seq(PDU) /\ qr = d.sig_xmit_q \o <<rr>>
  BY <1>1, <1>2, InfoMore
<1> HIDE DEF fl, qn, qr, rr, rnr
<1>5. /\ en \in Dlcb /\ en.state = d.state /\ SameNumbers(d, en) /\ en.sig_xmit_q = qn
  BY <1>1, <1>4 DEF Dlcb, SameNumbers
<1>6. /\ er \in Dlcb /\ er.state = d.state /\ er.sig_xmit_q = qr
      /\ er.next_tx_seq = d.next_tx_seq /\ er.rcvd_ack_seq = d.rcvd_ack_seq
      /\ er.next_rx_seq = d.next_rx_seq /\ er.sent_ack_seq = d.next_rx_seq
  BY <1>1, <1>4 DEF Dlcb
<1> HIDE DEF en, er
<1>7. Acknowledges(d, en, rnr)
  BY <1>2, <1>5 DEF Acknowledges, SameNumbers
<1>8. Acknowledges(d, er, rr)
  BY <1>2, <1>6 DEF Acknowledges
<1>9. Moves(d, en, <<rnr>>)
  BY <1>2, <1>4, <1>5, <1>7, EmitMoves DEF Emit
<1>10. Moves(d, er, <<rr>>)
  BY <1>2, <1>4, <1>6, <1>8, EmitMoves DEF Emit
<1>11. Moves(d, d, <<>>)
  BY Stays DEF Keeps, SameNumbers
<1> QED
  BY <1>3, <1>9, <1>10, <1>11

\* llcp_dlc_check_to_send_rr_rnr
LEMMA CheckToSendRrRnrMoves ==
  ASSUME NEW d \in Dlcb
  PROVE  \E out : Moves(d, CheckToSendRrRnr(d), out)
<1>1. Moves(d, d, <<>>)
  BY Stays DEF Keeps, SameNumbers
<1>2. CASE d.state = "CONNECTED"
  <2> DEFINE e == SendRrRnr(d)
             f == CheckPendingDisc(e)
  <2>1. PICK o : Moves(d, e, o)
    BY <1>2, SendRrRnrMoves
  <2>2. CheckToSendRrRnr(d) = f
    BY <1>2 DEF CheckToSendRrRnr
  <2> HIDE DEF e
  <2>3. e \in Dlcb
    BY <2>1 DEF Moves
  <2>4. PICK p : Moves(e, f, p)
    BY <2>3, CheckPendingDiscMoves
  <2> HIDE DEF f
  <2>5. Moves(d, f, o \o p)
    BY <2>1, <2>4, MovesOn
  <2> QED
    BY <2>2, <2>5
<1> QED
  BY <1>1, <1>2 DEF CheckToSendRrRnr

\* llcp_dlc_get_next_pdu without a PDU
LEMMA NoPduMoves ==
  ASSUME NEW d \in Dlcb
  PROVE  \E out : Moves(d, NoPdu(d), out)
<1> DEFINE e == CheckPendingDisc(d)
           fl == e.flags \ {"NOTIFY_TX_DONE"}
           f == [e EXCEPT !.flags = fl]
<1>1. NoPdu(d) = d \/ NoPdu(d) = f
  BY DEF NoPdu
<1>2. PICK o : Moves(d, e, o)
  BY CheckPendingDiscMoves
<1> HIDE DEF e
<1>3. e \in Dlcb /\ fl \in SUBSET Flag /\ fl \subseteq e.flags
  BY <1>2, Fields DEF Moves
<1> HIDE DEF fl
<1>4. Moves(e, f, <<>>)
  BY <1>3, FlagsMove
<1> HIDE DEF f
<1>5. Moves(d, f, o \o <<>>)
  BY <1>2, <1>4, MovesOn
<1>6. Moves(d, d, <<>>)
  BY Stays DEF Keeps, SameNumbers
<1> QED
  BY <1>1, <1>5, <1>6

\* llcp_link_check_uncongested
LEMMA CheckUncongestedMoves ==
  ASSUME NEW s \in Station, NEW d \in Dlcb
  PROVE  Moves(d, CheckUncongested(s, d), <<>>)
<1> DEFINE t == d.told /\ d.remote_busy
           e == [d EXCEPT !.is_tx_congested = FALSE, !.told = t]
<1>1. t \in BOOLEAN
  OBVIOUS
<1>2. CheckUncongested(s, d) = d \/ (d.state = "CONNECTED" /\ CheckUncongested(s, d) = e)
  BY DEF CheckUncongested
<1> HIDE DEF t
<1>3. e \in Dlcb /\ e.state = d.state /\ SameNumbers(d, e) /\ e.sig_xmit_q = d.sig_xmit_q
  BY <1>1 DEF Dlcb, SameNumbers
<1> HIDE DEF e
<1>4. d.state = "CONNECTED" => Keeps(d, e)
  BY <1>3 DEF Keeps, Early
<1>5. Keeps(d, d)
  BY DEF Keeps, SameNumbers
<1> QED
  BY <1>2, <1>3, <1>4, <1>5, Stays
-------------------------------------------------------------------------------
(* Sending a frame.                                                          *)

\* The I PDUs of a frame, and the control block after them.
LEMMA InfosAre ==
  ASSUME NEW d \in Dlcb, NEW k \in 0..Len(d.i_xmit_q)
  PROVE  LET out == InfoPdus(d, k)
             e == AfterInfoPdus([d EXCEPT !.sig_xmit_q = <<>>], k)
         IN  /\ out \in Seq(PDU) /\ Len(out) = k /\ DOMAIN out = 1..k /\ AllInfo(out)
             /\ \A j \in 1..k : /\ out[j].type = "I"
                                /\ out[j].ns = (d.next_tx_seq + j - 1) % SeqMod
                                /\ out[j].nr = e.sent_ack_seq
             /\ e \in Dlcb /\ e.sig_xmit_q = <<>> /\ e.state = d.state
             /\ e.next_tx_seq = (d.next_tx_seq + k) % SeqMod
             /\ e.rcvd_ack_seq = d.rcvd_ack_seq /\ e.next_rx_seq = d.next_rx_seq
             /\ e.sent_ack_seq \in {d.sent_ack_seq, d.next_rx_seq}
             /\ k = 0 => out = <<>> /\ e = [d EXCEPT !.sig_xmit_q = <<>>]
<1> DEFINE out == InfoPdus(d, k)
           d0 == [d EXCEPT !.sig_xmit_q = <<>>]
           tx == (d.next_tx_seq + k) % SeqMod
           q  == SubSeq(d.i_xmit_q, k + 1, Len(d.i_xmit_q))
           nr == IF FlowOff(d) THEN d.sent_ack_seq ELSE d.next_rx_seq
           ra == IF k = 0 THEN d.sent_ack_seq ELSE nr
           e  == [d EXCEPT !.sig_xmit_q = <<>>, !.next_tx_seq = tx, !.i_xmit_q = q,
                           !.sent_ack_seq = ra]
<1>1. /\ d.i_xmit_q \in Seq(Nat) /\ Len(d.i_xmit_q) \in Nat /\ k \in Nat
      /\ d.next_tx_seq \in Seqno /\ d.next_tx_seq \in Nat
      /\ d.sent_ack_seq \in Seqno /\ d.next_rx_seq \in Seqno
  BY Fields, SeqModAssumption DEF Seqno
<1>2. tx \in Seqno /\ q \in Seq(Nat) /\ nr \in Seqno /\ ra \in Seqno /\ <<>> \in Seq(PDU)
  <2>1. tx \in Seqno
    BY <1>1, ModRange
  <2>2. q \in Seq(Nat)
    BY <1>1, SubSeqSeq
  <2>3. nr \in Seqno /\ <<>> \in Seq(PDU)
    BY <1>1
  <2> QED
    BY <1>1, <2>1, <2>2, <2>3
<1>3. d0.local_busy = d.local_busy /\ d0.is_rx_congested = d.is_rx_congested
      /\ d0.next_tx_seq = d.next_tx_seq /\ d0.i_xmit_q = d.i_xmit_q
      /\ d0.sent_ack_seq = d.sent_ack_seq /\ d0.next_rx_seq = d.next_rx_seq
  BY DEF Dlcb
<1>4. AfterInfoPdus(d0, k) = e
  <2>1. FlowOff(d0) = FlowOff(d)
    BY <1>3 DEF FlowOff
  <2> QED
    BY <1>3, <2>1 DEF AfterInfoPdus
<1>5. out \in Seq(PDU) /\ Len(out) = k /\ DOMAIN out = 1..k
  BY <1>1, InfoPdusType
<1>6. \A j \in 1..k : /\ out[j].type = "I"
                      /\ out[j].ns = (d.next_tx_seq + j - 1) % SeqMod
                      /\ out[j].nr = nr
  BY DEF InfoPdus
<1>7. k = 0 => tx = d.next_tx_seq /\ q = d.i_xmit_q /\ out = <<>>
  <2> SUFFICES ASSUME k = 0 PROVE tx = d.next_tx_seq /\ q = d.i_xmit_q /\ out = <<>>
    OBVIOUS
  <2>1. tx = d.next_tx_seq
    <3>1. d.next_tx_seq + k = d.next_tx_seq
      BY <1>1
    <3>2. \A x \in Seqno : x % SeqMod = x
      BY SeqModAssumption DEF Seqno
    <3>3. d.next_tx_seq % SeqMod = d.next_tx_seq
      BY <1>1, <3>2
    <3> QED
      BY <3>1, <3>3
  <2>2. q = d.i_xmit_q /\ out = <<>>
    BY <1>1, <1>5
  <2> QED
    BY <2>1, <2>2
<1>8. AllInfo(out)
  BY <1>5, <1>6 DEF AllInfo, Info
<1> HIDE DEF out, tx, q, nr
<1>9. k = 0 => e = d0
  <2> SUFFICES ASSUME k = 0 PROVE e = d0
    OBVIOUS
  <2>1. tx = d.next_tx_seq /\ q = d.i_xmit_q /\ ra = d.sent_ack_seq
    BY <1>7
  <2> QED
    BY <2>1 DEF Dlcb
<1>10. k > 0 => ra = nr
  OBVIOUS
<1>11. ra \in {d.sent_ack_seq, d.next_rx_seq}
  BY DEF nr
<1> HIDE DEF ra
<1>12. /\ e \in Dlcb /\ e.sig_xmit_q = <<>> /\ e.state = d.state /\ e.next_tx_seq = tx
       /\ e.rcvd_ack_seq = d.rcvd_ack_seq /\ e.next_rx_seq = d.next_rx_seq
       /\ e.sent_ack_seq = ra
  BY <1>2 DEF Dlcb
<1> HIDE DEF e, d0
<1>13. \A j \in 1..k : out[j].nr = e.sent_ack_seq
  BY <1>1, <1>6, <1>10, <1>12
<1> QED
  BY <1>4, <1>5, <1>6, <1>7, <1>8, <1>9, <1>11, <1>12, <1>13 DEF d0, out, tx

\* Only a connected station has SDUs to send.
LEMMA SendsConnected ==
  ASSUME NEW a, NEW b, NEW qa, NEW qb, NEW wa, NEW wb, Paired(a, b, qa, qb, wa, wb),
         a.state # "CONNECTED"
  PROVE  a.i_xmit_q = <<>>
<1>1. CASE Setup(a, b, qa, qb) \/ Setup(b, a, qb, qa)
  BY <1>1, BlankFields DEF Setup
<1>2. CASE Open(a, b, qa, qb) \/ Open(b, a, qb, qa)
  BY <1>2, BlankFields DEF Open, Joined, Accepted, Fleeting, Left, Leaving
<1>3. CASE \/ BothLeft(a, b, qa, qb) \/ BothLeft(b, a, qb, qa)
           \/ Answered(a, b, qa, qb) \/ Answered(b, a, qb, qa)
  BY <1>3, BlankFields DEF BothLeft, Answered, Leaving
<1> QED
  BY <1>1, <1>2, <1>3 DEF Paired, Half

\* I PDUs within the window go to b, behind what is no I PDU.
LEMMA InfosSent ==
  ASSUME NEW s \in Station, NEW d, NEW b, NEW qa, NEW qb, NEW wa, NEW wb,
         Ends(d, b, qa, qb, wa, wb), Paired(d, b, qa, qb, wa, wb),
         wb = Rw[Peer(s)], ~HasI(qb), NEW k \in InfoCounts(s, d)
  PROVE  LET out == InfoPdus(d, k)
             e == AfterInfoPdus([d EXCEPT !.sig_xmit_q = <<>>], k)
         IN  Ends(e, b, qa, qb \o out, wa, wb) /\ Paired(e, b, qa, qb \o out, wa, wb)
<1> DEFINE out == InfoPdus(d, k)
           e == AfterInfoPdus([d EXCEPT !.sig_xmit_q = <<>>], k)
           r == qb \o out
<1>1. /\ d \in Dlcb /\ b \in Dlcb /\ qa \in Seq(PDU) /\ qb \in Seq(PDU) /\ wa \in Seqno
      /\ wb \in Seqno
  BY DEF Ends
<1>2. k \in 0..Len(d.i_xmit_q) /\ d.i_xmit_q \in Seq(Nat) /\ k \in Nat
  <2>1. d.i_xmit_q \in Seq(Nat) /\ k \in 0..Len(d.i_xmit_q)
    BY <1>1, InfoCountsRange, Fields
  <2> QED
    BY <2>1
<1>3. /\ out \in Seq(PDU) /\ Len(out) = k /\ DOMAIN out = 1..k /\ AllInfo(out)
      /\ \A j \in 1..k : /\ out[j].type = "I"
                         /\ out[j].ns = (d.next_tx_seq + j - 1) % SeqMod
                         /\ out[j].nr = e.sent_ack_seq
      /\ e \in Dlcb /\ e.sig_xmit_q = <<>> /\ e.state = d.state
      /\ e.next_tx_seq = (d.next_tx_seq + k) % SeqMod
      /\ e.rcvd_ack_seq = d.rcvd_ack_seq /\ e.next_rx_seq = d.next_rx_seq
      /\ e.sent_ack_seq \in {d.sent_ack_seq, d.next_rx_seq}
      /\ k = 0 => out = <<>> /\ e = [d EXCEPT !.sig_xmit_q = <<>>]
  BY <1>1, <1>2, InfosAre, Zenon
<1>4. k > 0 => Minus(d.next_tx_seq, d.rcvd_ack_seq) + k <= wb
  BY DEF InfoCounts, RwOpen
<1> HIDE DEF out, e
<1>5. r \in Seq(PDU)
  BY <1>1, <1>3, ConcatSeq
<1>6. Ends(e, b, qa, r, wa, wb)
  BY <1>1, <1>3, <1>5 DEF Ends
<1>7. CASE k = 0
  <2>1. e = [d EXCEPT !.sig_xmit_q = <<>>] /\ r = qb
    BY <1>1, <1>3, <1>7
  <2>2. Keeps(d, e)
    <3>1. SameNumbers(d, e) /\ e.i_xmit_q = d.i_xmit_q
      BY <1>1, <2>1 DEF SameNumbers, Dlcb
    <3>2. Blank(d) => Blank(e)
      BY <1>1, <2>1 DEF Blank, Idle, Dlcb
    <3> QED
      BY <1>3, <3>1, <3>2 DEF Keeps
  <2>3. Paired(e, b, qa, r, wa, wb)
    BY <1>1, <2>1, <2>2, KeepsPaired
  <2> QED
    BY <1>6, <2>3 DEF out, e
<1>8. CASE k > 0
  <2>1. d.state = "CONNECTED"
    <3> SUFFICES ASSUME d.state # "CONNECTED" PROVE FALSE
      OBVIOUS
    <3>1. d.i_xmit_q = <<>>
      BY SendsConnected
    <3> QED
      BY <1>2, <1>8, <3>1
  <2>2. /\ Numbers(d, b, qa, wb) /\ Carries(d, b, qa, qb)
    BY <2>1, ConnectedPhases DEF Flows, Flow
  <2>3. /\ Numbers(e, b, qa, wb) /\ k \in Seqno
        /\ From(e, e.next_tx_seq) = From(d, d.next_tx_seq) + k
    BY <1>1, <1>2, <1>3, <1>4, <2>2, NumbersSend DEF From
  <2>4. Carries(e, b, qa, r)
    <3>1. CASE b.state = "W4_REMOTE_DM"
      <4>1. /\ From(d, b.next_rx_seq) <= From(d, d.next_tx_seq)
            /\ From(d, b.next_rx_seq) \in Nat /\ From(d, d.next_tx_seq) \in Nat
        BY <1>1, <2>2, Distances DEF Numbers
      <4>2. From(e, b.next_rx_seq) = From(d, b.next_rx_seq)
        BY <1>3 DEF From
      <4>3. From(e, b.next_rx_seq) < From(e, e.next_tx_seq)
        BY <1>2, <1>8, <2>3, <4>1, <4>2
      <4> QED
        BY <3>1, <4>3 DEF Carries
    <3>2. CASE b.state # "W4_REMOTE_DM"
      <4>1. b.next_rx_seq = d.next_tx_seq
        BY <1>1, <2>2, <3>2, CarriesAhead
      <4>2. /\ DOMAIN r = 1..(Len(qb) + k) /\ DOMAIN qb = 1..Len(qb) /\ Len(qb) \in Nat
            /\ Len(r) = Len(qb) + k
            /\ \A i \in 1..Len(qb) : r[i] = qb[i]
            /\ \A j \in 1..k : r[Len(qb) + j] = out[j]
            /\ \A i \in Len(qb) + 1 .. Len(qb) + k : r[i] = out[i - Len(qb)]
        <5>1. /\ DOMAIN r = 1..(Len(qb) + Len(out)) /\ DOMAIN qb = 1..Len(qb) /\ Len(qb) \in Nat
              /\ Len(r) = Len(qb) + Len(out)
              /\ \A i \in 1..Len(qb) : r[i] = qb[i]
              /\ \A j \in 1..Len(out) : r[Len(qb) + j] = out[j]
              /\ \A i \in Len(qb) + 1 .. Len(qb) + Len(out) : r[i] = out[i - Len(qb)]
          <6>1. qb \in Seq(PDU) /\ out \in Seq(PDU)
            BY <1>1, <1>3
          <6>2. \A t, u \in Seq(PDU) :
                  /\ DOMAIN (t \o u) = 1..(Len(t) + Len(u)) /\ DOMAIN t = 1..Len(t) /\ Len(t) \in Nat
                  /\ Len(t \o u) = Len(t) + Len(u)
                  /\ \A i \in 1..Len(t) : (t \o u)[i] = t[i]
                  /\ \A j \in 1..Len(u) : (t \o u)[Len(t) + j] = u[j]
                  /\ \A i \in Len(t) + 1 .. Len(t) + Len(u) : (t \o u)[i] = u[i - Len(t)]
            BY ConcatSeq
          <6> QED
            BY <6>1, <6>2
        <5>2. Len(out) = k
          BY <1>3
        <5> HIDE DEF r
        <5> QED
          BY <5>1, <5>2
      <4> HIDE DEF r
      <4>3. \A i \in DOMAIN r : r[i].type = "I" <=> Len(qb) < i /\ i <= Len(qb) + k
        <5> SUFFICES ASSUME NEW i \in DOMAIN r
                     PROVE r[i].type = "I" <=> Len(qb) < i /\ i <= Len(qb) + k
          OBVIOUS
        <5>1. CASE i \in 1..Len(qb)
          BY <4>2, <5>1 DEF HasI
        <5>2. CASE i \in Len(qb) + 1 .. Len(qb) + k
          <6>1. i - Len(qb) \in 1..k
            BY <1>2, <4>2, <5>2
          <6> QED
            BY <1>3, <4>2, <5>2, <6>1
        <5> QED
          BY <1>2, <4>2, <5>1, <5>2
      <4>4. \A j \in 1..k : r[Len(qb) + j].ns = (b.next_rx_seq + j - 1) % SeqMod
        BY <1>3, <4>1, <4>2
      <4>5. Line(r, Len(qb), k, b.next_rx_seq)
        BY <1>2, <2>3, <4>2, <4>3, <4>4 DEF Line
      <4>6. Len(qb) \in 0..Len(r) /\ k \in 0..Len(r)
        BY <1>2, <4>2
      <4> QED
        BY <1>3, <3>2, <4>1, <4>5, <4>6 DEF Carries
    <3> QED
      BY <3>1, <3>2
  <2>5. Paired(e, b, qa, r, wa, wb)
    BY <1>3, <2>1, <2>3, <2>4, InfosPaired
  <2> QED
    BY <1>6, <2>5 DEF out, e
<1> QED
  BY <1>2, <1>7, <1>8

\* A frame: what it carries and what stays behind, together.
LEMMA FramesPaired ==
  ASSUME NEW s \in Station, NEW d, NEW b, NEW qa, NEW wa, NEW wb,
         Ends(d, b, qa, d.sig_xmit_q, wa, wb), Paired(d, b, qa, d.sig_xmit_q, wa, wb),
         wb = Rw[Peer(s)], Signals(d.sig_xmit_q), NEW f \in Frames(s, d)
  PROVE  /\ Ends(f.d, b, qa, f.pdus \o f.d.sig_xmit_q, wa, wb)
         /\ Paired(f.d, b, qa, f.pdus \o f.d.sig_xmit_q, wa, wb)
         /\ Signals(f.d.sig_xmit_q) /\ f.pdus \in Seq(PDU)
         /\ d.state \in Early \/ f.d.state \in Early => f.d.state = d.state
<1>1. PICK k \in InfoCounts(s, d), fits \in BOOLEAN : f = Frame(d, k, fits)
  BY FramesAre
<1> DEFINE one == d.sig_xmit_q \o InfoPdus(d, k)
           d1 == AfterInfoPdus([d EXCEPT !.sig_xmit_q = <<>>], k)
           n1 == IF one = <<>> THEN NoPdu(d1) ELSE d1
           d2 == CheckToSendRrRnr(n1)
           d3 == [d2 EXCEPT !.sig_xmit_q = <<>>]
           all == one \o d2.sig_xmit_q
<1>2. f = [pdus |-> all, d |-> d3] \/ f = [pdus |-> one, d |-> d2]
  BY <1>1, Zenon DEF Frame
<1>3. d \in Dlcb /\ k \in 0..Len(d.i_xmit_q) /\ d.sig_xmit_q \in Seq(PDU) /\ ~HasI(d.sig_xmit_q)
  BY InfoCountsRange, Fields DEF Ends, Signals
<1>4. InfoPdus(d, k) \in Seq(PDU) /\ d1 \in Dlcb /\ d1.sig_xmit_q = <<>> /\ d1.state = d.state
  BY <1>3, InfosAre, Zenon
<1>5. Ends(d1, b, qa, one, wa, wb) /\ Paired(d1, b, qa, one, wa, wb)
  BY <1>3, InfosSent, Zenon
<1>6. one \in Seq(PDU)
  BY <1>3, <1>4, ConcatSeq
<1> HIDE DEF one, d1
<1>7. PICK o : Moves(d1, n1, o)
  <2>1. Moves(d1, d1, <<>>)
    BY <1>4, Stays DEF Keeps, SameNumbers
  <2> QED
    BY <1>4, <2>1, NoPduMoves
<1> HIDE DEF n1
<1>8. PICK p : Moves(n1, d2, p)
  BY <1>7, CheckToSendRrRnrMoves DEF Moves
<1> HIDE DEF d2
<1>9. Moves(d1, d2, o \o p)
  BY <1>4, <1>7, <1>8, MovesOn
<1>10. d2.sig_xmit_q = o \o p /\ o \o p \in Seq(PDU) /\ d2 \in Dlcb
  BY <1>4, <1>9 DEF Moves
<1>11. Ends(d2, b, qa, all, wa, wb) /\ Paired(d2, b, qa, all, wa, wb)
  BY <1>5, <1>9, <1>10 DEF Moves
<1>12. Signals(d2.sig_xmit_q) /\ Signals(<<>>)
  BY <1>9, <1>10 DEF Moves, Signals, HasI, Has
<1>13. d.state \in Early \/ d2.state \in Early => d2.state = d.state
  BY <1>4, <1>9 DEF Moves
<1>14. /\ d3 \in Dlcb /\ d3.state = d2.state /\ d3.sig_xmit_q = <<>> /\ SameNumbers(d2, d3)
       /\ d3.i_xmit_q = d2.i_xmit_q /\ (Blank(d2) => Blank(d3))
  <2>1. <<>> \in Seq(PDU)
    OBVIOUS
  <2>2. Blank(d2) => Blank(d3)
    BY <1>10 DEF Blank, Idle, Dlcb
  <2> QED
    BY <1>10, <2>1, <2>2 DEF Dlcb, SameNumbers
<1> HIDE DEF d3
<1>15. Paired(d3, b, qa, all, wa, wb) /\ Ends(d3, b, qa, all, wa, wb)
  BY <1>10, <1>11, <1>14, KeepsPaired DEF Keeps, Ends
<1>16. all \o <<>> = all /\ all \in Seq(PDU)
  BY <1>11 DEF Ends
<1>17. CASE f = [pdus |-> all, d |-> d3]
  <2>1. f.pdus = all /\ f.d = d3
    BY <1>17
  <2> QED
    BY <1>12, <1>13, <1>14, <1>15, <1>16, <2>1
<1>18. CASE f = [pdus |-> one, d |-> d2]
  <2>1. f.pdus = one /\ f.d = d2
    BY <1>18
  <2> QED
    BY <1>6, <1>11, <1>12, <1>13, <2>1
<1> QED
  BY <1>2, <1>17, <1>18

-------------------------------------------------------------------------------
(* What llcp_link_check_send_data does to the pair.                          *)

\* What s has yet to handle of the frame on the link l.
Ahead(l, s) == IF l.at = s THEN l.pdus ELSE <<>>

\* Station s with d, its peer with b and the link l are a pair.
Matched(s, d, b, l) ==
  /\ Ends(d, b, Ahead(l, s) \o b.sig_xmit_q, Ahead(l, Peer(s)) \o d.sig_xmit_q, Rw[s], Rw[Peer(s)])
  /\ Paired(d, b, Ahead(l, s) \o b.sig_xmit_q, Ahead(l, Peer(s)) \o d.sig_xmit_q, Rw[s], Rw[Peer(s)])
  /\ Signals(d.sig_xmit_q) /\ Signals(b.sig_xmit_q)

\* A station and its peer are two.
LEMMA Peers ==
  ASSUME NEW s \in Station
  PROVE  Peer(s) \in Station /\ Peer(s) # s /\ Peer(Peer(s)) = s /\ Station = {s, Peer(s)}
BY DEF Station, Peer

\* The sequences of a match.
LEMMA EmptyFirst ==
  ASSUME NEW q \in Seq(PDU), NEW r \in Seq(PDU)
  PROVE  <<>> \o q = q /\ q \o <<>> = q /\ q \o r \in Seq(PDU)
  OBVIOUS

\* A move is no change to a match but what it queues.
LEMMA MovesMatched ==
  ASSUME NEW s \in Station, NEW d, NEW b, NEW l \in Link, NEW e, NEW out, d \in Dlcb, b \in Dlcb,
         Matched(s, d, b, l), Moves(d, e, out)
  PROVE  Matched(s, e, b, l)
<1> DEFINE qa == Ahead(l, s) \o b.sig_xmit_q
           qb == Ahead(l, Peer(s)) \o d.sig_xmit_q
           rb == Ahead(l, Peer(s)) \o e.sig_xmit_q
<1>1. /\ Ahead(l, Peer(s)) \in Seq(PDU) /\ d.sig_xmit_q \in Seq(PDU) /\ out \in Seq(PDU)
      /\ e.sig_xmit_q = d.sig_xmit_q \o out
  <2>1. <<>> \in Seq(PDU)
    OBVIOUS
  <2>2. l.pdus \in Seq(PDU)
    BY LinkFields
  <2> QED
    BY <2>1, <2>2, Fields DEF Ahead, Moves
<1>2. rb = qb \o out
  <2>1. \A x, y, z \in Seq(PDU) : x \o (y \o z) = (x \o y) \o z
    OBVIOUS
  <2>2. Ahead(l, Peer(s)) \o (d.sig_xmit_q \o out) = (Ahead(l, Peer(s)) \o d.sig_xmit_q) \o out
    BY <1>1, <2>1, Zenon
  <2>3. rb = Ahead(l, Peer(s)) \o (d.sig_xmit_q \o out)
    BY <1>1
  <2> QED
    BY <2>2, <2>3
<1>3. Ends(d, b, qa, qb, Rw[s], Rw[Peer(s)]) /\ Paired(d, b, qa, qb, Rw[s], Rw[Peer(s)])
  BY Zenon DEF Matched
<1>4. Signals(d.sig_xmit_q) /\ Signals(b.sig_xmit_q)
  BY DEF Matched
<1> HIDE DEF qa, qb, rb
<1>5. /\ Ends(e, b, qa, qb \o out, Rw[s], Rw[Peer(s)])
      /\ Paired(e, b, qa, qb \o out, Rw[s], Rw[Peer(s)])
  BY <1>3, Zenon DEF Moves
<1>6. Signals(e.sig_xmit_q)
  <2>1. ~HasI(out) /\ ~Has(out, NotHere) /\ ~HasI(d.sig_xmit_q)
        /\ (Has(d.sig_xmit_q, NotHere) => Has(d.sig_xmit_q, Disc))
    BY <1>4 DEF Moves, Signals
  <2>2. \A x, y \in Seq(PDU) :
          /\ HasI(x \o y) => HasI(x) \/ HasI(y)
          /\ Has(x \o y, NotHere) => Has(x, NotHere) \/ Has(y, NotHere)
    BY InfoParts
  <2>3. \A x, y \in Seq(PDU) : Has(x, Disc) => Has(x \o y, Disc)
    BY DEF Has
  <2> QED
    BY <1>1, <2>1, <2>2, <2>3 DEF Signals
<1> QED
  BY <1>2, <1>4, <1>5, <1>6 DEF Matched, qa, rb

\* With nothing on the link, what s sends makes a match with what it keeps.
LEMMA CheckSendMatched ==
  ASSUME NEW s \in Station, NEW d \in Dlcb, NEW b \in Dlcb, NEW l \in Link, Matched(s, d, b, l),
         NEW o \in CheckSend(s, d, l), o.d \in Dlcb
  PROVE  /\ Matched(s, o.d, b, o.link)
         /\ d.state \in Early \/ o.d.state \in Early => o.d.state = d.state
<1>1. CASE l # Turn(s)
  <2>1. o = [d |-> d, link |-> l]
    BY <1>1 DEF CheckSend
  <2>2. o.d = d /\ o.link = l
    BY <2>1
  <2> QED
    BY <2>2
<1>2. CASE l = Turn(s)
  <2> DEFINE p == Peer(s)
             wa == Rw[s]
             wb == Rw[p]
             qa == b.sig_xmit_q
  <2>0. /\ p \in Station /\ p # s /\ qa \in Seq(PDU) /\ d.sig_xmit_q \in Seq(PDU)
        /\ <<>> \in Seq(PDU)
    BY Peers, Fields
  <2>1. Ahead(l, s) = <<>> /\ Ahead(l, p) = <<>>
    BY <1>2 DEF Turn, Ahead
  <2>2. \A q : Ahead(Pass(s, q), s) = <<>> /\ Ahead(Pass(s, q), p) = q
    BY <2>0 DEF Pass, Ahead
  <2>3. /\ Ends(d, b, qa, d.sig_xmit_q, wa, wb) /\ Paired(d, b, qa, d.sig_xmit_q, wa, wb)
        /\ Signals(d.sig_xmit_q) /\ Signals(qa)
    BY <2>0, <2>1, EmptyFirst DEF Matched
  <2>4. PICK f \in Frames(s, d) :
          o = IF f.pdus # <<>>
                THEN [d |-> CheckUncongested(s, f.d), link |-> Pass(s, f.pdus)]
                ELSE [d |-> f.d, link |-> IF s \in Patient THEN l ELSE Pass(s, <<>>)]
    BY <1>2, Zenon DEF CheckSend
  <2>5. /\ Ends(f.d, b, qa, f.pdus \o f.d.sig_xmit_q, wa, wb)
        /\ Paired(f.d, b, qa, f.pdus \o f.d.sig_xmit_q, wa, wb)
        /\ Signals(f.d.sig_xmit_q) /\ f.pdus \in Seq(PDU)
        /\ d.state \in Early \/ f.d.state \in Early => f.d.state = d.state
    BY <2>0, <2>3, FramesPaired, Zenon
  <2>6. f.d \in Dlcb /\ f.d.sig_xmit_q \in Seq(PDU)
    BY <2>5, Fields DEF Ends
  <2>7. Matched(s, f.d, b, Pass(s, f.pdus))
    <3>1. <<>> \o qa = qa
      BY <2>0, EmptyFirst
    <3> QED
      BY <2>2, <2>3, <2>5, <3>1 DEF Matched
  <2>8. CASE f.pdus # <<>>
    <3>1. o.d = CheckUncongested(s, f.d) /\ o.link = Pass(s, f.pdus)
      BY <2>4, <2>8
    <3>2. Moves(f.d, o.d, <<>>)
      BY <2>6, <3>1, CheckUncongestedMoves
    <3>3. Pass(s, f.pdus) \in Link
      BY <2>5, PassType
    <3>4. Matched(s, o.d, b, Pass(s, f.pdus))
      BY <2>6, <2>7, <3>2, <3>3, MovesMatched
    <3> QED
      BY <2>5, <3>1, <3>2, <3>4 DEF Moves
  <2>9. CASE f.pdus = <<>>
    <3>1. o.d = f.d /\ o.link \in {l, Pass(s, <<>>)}
      BY <2>4, <2>9
    <3>2. Matched(s, f.d, b, l)
      <4>1. <<>> \o qa = qa
        BY <2>0, EmptyFirst
      <4> QED
        BY <2>1, <2>3, <2>5, <2>9, <4>1 DEF Matched
    <3> QED
      BY <2>5, <2>7, <2>9, <3>1, <3>2
  <2> QED
    BY <2>8, <2>9
<1> QED
  BY <1>1, <1>2

-------------------------------------------------------------------------------
(* The pair in the state, and after a step.                                  *)

\* The pair, of either station.
LEMMA PairMatched ==
  ASSUME IInv, Pair, Undisturbed, NEW s \in Station
  PROVE  Matched(s, dl[s], dl[Peer(s)], link) /\ Sound(s, dl[s]) /\ dl[s] \in Dlcb /\ dl[Peer(s)] \in Dlcb
<1>1. /\ Sound(s, dl[s]) /\ Sound(Peer(s), dl[Peer(s)]) /\ Peer(s) \in Station /\ Peer(Peer(s)) = s
      /\ link \in Link
  BY IInvSound, Peers
<1>2. dl[s] \in Dlcb /\ dl[Peer(s)] \in Dlcb
  BY <1>1 DEF Sound
<1>3. /\ Paired(dl[s], dl[Peer(s)], Coming(s), Coming(Peer(s)), Rw[s], Rw[Peer(s)])
      /\ Signals(dl[s].sig_xmit_q) /\ Signals(dl[Peer(s)].sig_xmit_q)
  BY <1>1 DEF Pair
<1>4. /\ Coming(s) = Ahead(link, s) \o dl[Peer(s)].sig_xmit_q
      /\ Coming(Peer(s)) = Ahead(link, Peer(s)) \o dl[s].sig_xmit_q
  BY <1>1 DEF Coming, Underway, Ahead
<1>5. Ahead(link, s) \in Seq(PDU) /\ Ahead(link, Peer(s)) \in Seq(PDU)
  <2>1. <<>> \in Seq(PDU)
    OBVIOUS
  <2> QED
    BY <1>1, <2>1, LinkFields DEF Ahead
<1>6. Coming(s) \in Seq(PDU) /\ Coming(Peer(s)) \in Seq(PDU)
  BY <1>2, <1>4, <1>5, Fields, EmptyFirst
<1>7. Rw[s] \in Seqno /\ Rw[Peer(s)] \in Seqno
  BY <1>1, RwAssumption DEF Seqno
<1> QED
  BY <1>1, <1>2, <1>3, <1>4, <1>6, <1>7 DEF Matched, Ends

\* Seen from the peer a pair is the same pair.
LEMMA PairedTurn ==
  ASSUME NEW a, NEW b, NEW qa, NEW qb, NEW wa, NEW wb, Paired(a, b, qa, qb, wa, wb)
  PROVE  Paired(b, a, qb, qa, wb, wa)
BY DEF Paired

\* A step of s that leaves a match leaves a pair.
LEMMA MatchedPair ==
  ASSUME NEW s \in Station, dl \in [Station -> Dlcb], NEW d, dl' = [dl EXCEPT ![s] = d],
         Matched(s, d, dl[Peer(s)], link')
  PROVE  Pair'
<1>1. Peer(s) \in Station /\ Peer(s) # s /\ Peer(Peer(s)) = s /\ Station = {s, Peer(s)}
  BY Peers
<1>2. dl'[s] = d /\ dl'[Peer(s)] = dl[Peer(s)]
  BY <1>1
<1>3. /\ Coming(s)' = Ahead(link', s) \o dl[Peer(s)].sig_xmit_q
      /\ Coming(Peer(s))' = Ahead(link', Peer(s)) \o d.sig_xmit_q
  BY <1>1, <1>2 DEF Coming, Underway, Ahead
<1>4. /\ Paired(dl'[s], dl'[Peer(s)], Coming(s)', Coming(Peer(s))', Rw[s], Rw[Peer(s)])
      /\ Signals(dl'[s].sig_xmit_q) /\ Signals(dl'[Peer(s)].sig_xmit_q)
  BY <1>2, <1>3 DEF Matched
<1>5. Paired(dl'[Peer(s)], dl'[s], Coming(Peer(s))', Coming(s)', Rw[Peer(s)], Rw[s])
  BY <1>4, PairedTurn
<1>6. ASSUME NEW t \in Station
      PROVE  /\ Paired(dl'[t], dl'[Peer(t)], Coming(t)', Coming(Peer(t))', Rw[t], Rw[Peer(t)])
             /\ Signals(dl'[t].sig_xmit_q)
  <2>1. t = s \/ t = Peer(s)
    BY <1>1
  <2> QED
    BY <1>1, <1>4, <1>5, <2>1
<1> QED
  BY <1>6 DEF Pair

-------------------------------------------------------------------------------
(* What receiving does to the numbers.                                       *)

\* Distances to go shrink together when an acknowledgement arrives.
LEMMA CarriesAcked ==
  ASSUME NEW a \in Dlcb, NEW b \in Dlcb, NEW qa \in Seq(PDU), NEW qb \in Seq(PDU), NEW w \in Seqno,
         Numbers(a, b, qa, w), Carries(a, b, qa, qb), qa # <<>>, Info(qa[1]),
         NEW e \in Dlcb, e.rcvd_ack_seq = qa[1].nr, e.next_tx_seq = a.next_tx_seq
  PROVE  Carries(e, b, Tail(qa), qb)
<1>1. CASE b.state # "W4_REMOTE_DM"
  BY <1>1 DEF Carries
<1>2. CASE b.state = "W4_REMOTE_DM"
  <2> SUFFICES ASSUME HasI(qb) \/ Has(Tail(qa), NotHere)
               PROVE  From(e, b.next_rx_seq) < From(e, e.next_tx_seq)
    BY <1>2 DEF Carries
  <2> DEFINE v == a.rcvd_ack_seq
             y == qa[1].nr
             n == b.next_rx_seq
             t == a.next_tx_seq
             u == b.sent_ack_seq
  <2>1. 1 \in DOMAIN qa /\ DOMAIN qa = 1..Len(qa) /\ (Has(Tail(qa), NotHere) => Has(qa, NotHere))
    <3>1. /\ DOMAIN qa = 1..Len(qa) /\ DOMAIN Tail(qa) = 1..(Len(qa) - 1)
          /\ \A i \in 1..(Len(qa) - 1) : Tail(qa)[i] = qa[i + 1]
          /\ Len(qa) \in Nat \ {0}
      BY TailSeq
    <3> QED
      BY <3>1 DEF Has
  <2>2. /\ v \in Seqno /\ y \in Seqno /\ n \in Seqno /\ t \in Seqno /\ u \in Seqno
        /\ Minus(y, v) \in Nat /\ Minus(n, v) \in Nat /\ Minus(t, v) \in Nat /\ Minus(u, v) \in Nat
    BY <2>1, Distances DEF From
  <2>3. Minus(n, v) < Minus(t, v)
    BY <1>2, <2>1 DEF Carries, From
  <2>4. Minus(y, v) <= Minus(u, v) /\ Minus(u, v) <= Minus(n, v)
    BY <2>1 DEF Numbers, From
  <2> HIDE DEF v, y, n, t, u
  <2>5. Minus(y, v) <= Minus(n, v) /\ Minus(y, v) <= Minus(t, v)
    BY <2>2, <2>3, <2>4
  <2>6. Minus(n, y) = Minus(n, v) - Minus(y, v) /\ Minus(t, y) = Minus(t, v) - Minus(y, v)
    BY <2>2, <2>5, Shift
  <2>7. Minus(n, y) < Minus(t, y)
    BY <2>2, <2>3, <2>6
  <2> QED
    BY <2>7 DEF From, n, t, y
<1> QED
  BY <1>1, <1>2

\* A tail holds nothing new.
LEMMA TailParts ==
  ASSUME NEW q \in Seq(PDU), q # <<>>
  PROVE  /\ Tail(q) \in Seq(PDU) /\ q[1] \in PDU /\ Head(q) = q[1] /\ 1 \in DOMAIN q
         /\ AllInfo(q) => AllInfo(Tail(q)) /\ Info(q[1])
         /\ HasI(Tail(q)) => HasI(q)
         /\ q[1].type = "I" => HasI(q)
         /\ Has(Tail(q), NotHere) => Has(q, NotHere)
         /\ All(q, NotHere) => All(Tail(q), NotHere) /\ q[1] = NotHere
         /\ \A x : (\A i \in DOMAIN q : Info(q[i]) => q[i].nr = x)
                     => \A i \in DOMAIN Tail(q) : Info(Tail(q)[i]) => Tail(q)[i].nr = x
<1>1. /\ DOMAIN q = 1..Len(q) /\ DOMAIN Tail(q) = 1..(Len(q) - 1) /\ Len(q) \in Nat \ {0}
      /\ \A i \in 1..(Len(q) - 1) : Tail(q)[i] = q[i + 1]
      /\ Tail(q) \in Seq(PDU) /\ q[1] \in PDU /\ Head(q) = q[1]
  BY TailSeq
<1>2. \A i \in DOMAIN Tail(q) : i + 1 \in DOMAIN q /\ Tail(q)[i] = q[i + 1]
  BY <1>1
<1>3. 1 \in DOMAIN q
  BY <1>1
<1>4. /\ AllInfo(q) => AllInfo(Tail(q)) /\ Info(q[1])
      /\ All(q, NotHere) => All(Tail(q), NotHere) /\ q[1] = NotHere
  BY <1>2, <1>3 DEF AllInfo, All
<1>5. /\ HasI(Tail(q)) => HasI(q)
      /\ q[1].type = "I" => HasI(q)
      /\ Has(Tail(q), NotHere) => Has(q, NotHere)
  BY <1>2, <1>3 DEF HasI, Has
<1>6. \A x : (\A i \in DOMAIN q : Info(q[i]) => q[i].nr = x)
               => \A i \in DOMAIN Tail(q) : Info(Tail(q)[i]) => Tail(q)[i].nr = x
  BY <1>2
<1> QED
  BY <1>1, <1>3, <1>4, <1>5, <1>6

\* An I, RR or RNR a connected station handles: the pair with its numbers taken in is a
\* pair.
LEMMA InfoHandled ==
  ASSUME NEW d, NEW b, NEW qa, NEW qb, NEW wa, NEW wb, Ends(d, b, qa, qb, wa, wb),
         Paired(d, b, qa, qb, wa, wb), d.state = "CONNECTED", qa # <<>>, Info(qa[1]),
         NEW e \in Dlcb, e.state = "CONNECTED", e.next_tx_seq = d.next_tx_seq,
         e.sent_ack_seq = d.sent_ack_seq, e.rcvd_ack_seq = qa[1].nr,
         e.next_rx_seq = IF qa[1].type = "I" THEN (d.next_rx_seq + 1) % SeqMod ELSE d.next_rx_seq
  PROVE  Paired(e, b, Tail(qa), qb, wa, wb)
<1>1. /\ d \in Dlcb /\ b \in Dlcb /\ qa \in Seq(PDU) /\ qb \in Seq(PDU) /\ wa \in Seqno
      /\ wb \in Seqno /\ Tail(qa) \in Seq(PDU)
  BY TailParts DEF Ends
<1>2. Flows(d, b, qa, qb, wa, wb) /\ Connected(d, b, qa, qb)
  BY ConnectedPhases
<1>3. /\ Numbers(d, b, qa, wb) /\ Carries(d, b, qa, qb)
      /\ Numbers(b, d, qb, wa) /\ Carries(b, d, qb, qa)
  BY <1>2 DEF Flows, Flow
<1>4. Numbers(e, b, Tail(qa), wb)
  BY <1>1, <1>3, NumbersHandle
<1>5. Carries(e, b, Tail(qa), qb)
  BY <1>1, <1>3, CarriesAcked
<1>6. Numbers(b, e, qb, wa) /\ Carries(b, e, qb, Tail(qa))
  <2>1. CASE qa[1].type = "I"
    <3>1. HasI(qa)
      BY <1>1, <2>1, TailParts
    <3>2. From(b, d.next_rx_seq) < From(b, b.next_tx_seq)
      BY <1>1, <1>3, <3>1, CarriesAhead
    <3>3. Numbers(b, e, qb, wa)
      BY <1>1, <1>3, <2>1, <3>2, NumbersTake
    <3>4. \A f \in Dlcb : f.state = d.state /\ f.next_rx_seq = (d.next_rx_seq + 1) % SeqMod
                            => Carries(b, f, qb, Tail(qa))
      BY <1>1, <1>3, <2>1, CarriesHandled
    <3> QED
      BY <2>1, <3>3, <3>4
  <2>2. CASE qa[1].type # "I"
    <3>1. Numbers(b, e, qb, wa)
      BY <1>3, <2>2 DEF Numbers
    <3>2. Carries(b, d, qb, Tail(qa))
      BY <1>1, <1>3, <2>2, CarriesHandled
    <3>3. Carries(b, e, qb, Tail(qa))
      BY <2>2, <3>2 DEF Carries
    <3> QED
      BY <3>1, <3>3
  <2> QED
    BY <2>1, <2>2
<1>7. Flows(e, b, Tail(qa), qb, wa, wb)
  BY <1>4, <1>5, <1>6 DEF Flows, Flow
<1>8. Connected(e, b, Tail(qa), qb)
  <2>1. CASE Joined(d, b, qa, qb)
    BY <1>1, <2>1, TailParts DEF Joined, Connected
  <2>2. CASE Left(b, d, qb, qa)
    <3>1. qa[1] # Disc
      BY Kinds
    <3>2. Parting(Tail(qa))
      BY <1>1, <2>2, <3>1, PartingSteps DEF Left
    <3> QED
      BY <2>2, <3>2 DEF Left, Connected
  <2> QED
    BY <1>2, <2>1, <2>2 DEF Connected, Accepted
<1> QED
  BY <1>7, <1>8, ConnectedPhases

\* The numbers are those llcp_dlc_proc_i_pdu and llcp_dlc_proc_rr_rnr_pdu ask for.
LEMMA InfoGood ==
  ASSUME NEW d, NEW b, NEW qa, NEW qb, NEW wa, NEW wb, Ends(d, b, qa, qb, wa, wb),
         Paired(d, b, qa, qb, wa, wb), d.state = "CONNECTED", qa # <<>>, Info(qa[1])
  PROVE  /\ ValidNr(d, qa[1].nr)
         /\ qa[1].type = "I" => /\ qa[1].ns = d.next_rx_seq
                                /\ Minus(qa[1].ns, d.sent_ack_seq) < wa
<1>1. /\ d \in Dlcb /\ b \in Dlcb /\ qa \in Seq(PDU) /\ qb \in Seq(PDU) /\ wa \in Seqno
      /\ wb \in Seqno
  BY DEF Ends
<1>2. /\ Numbers(d, b, qa, wb) /\ Numbers(b, d, qb, wa) /\ Carries(b, d, qb, qa)
  BY ConnectedPhases DEF Flows, Flow
<1>3. ValidNr(d, qa[1].nr)
  BY <1>1, <1>2, NumbersHandle
<1>4. ASSUME qa[1].type = "I"
      PROVE  qa[1].ns = d.next_rx_seq /\ Minus(d.next_rx_seq, d.sent_ack_seq) < wa
  <2>1. HasI(qa)
    BY <1>1, <1>4, TailParts
  <2>2. From(b, d.next_rx_seq) < From(b, b.next_tx_seq)
    BY <1>1, <1>2, <2>1, CarriesAhead
  <2>3. Minus(d.next_rx_seq, d.sent_ack_seq) < wa
    BY <1>1, <1>2, <2>2, NumbersTake
  <2>4. qa[1].ns = d.next_rx_seq
    BY <1>1, <1>2, <1>4, CarriesHandled
  <2> QED
    BY <2>3, <2>4
<1> QED
  BY <1>3, <1>4

-------------------------------------------------------------------------------
(* Handling a PDU.                                                           *)

\* Sequences of one and two PDUs.
LEMMA Short ==
  ASSUME NEW x \in PDU, NEW y \in PDU
  PROVE  /\ <<x>> \in Seq(PDU) /\ <<x, y>> \in Seq(PDU) /\ <<>> \in Seq(PDU)
         /\ Tail(<<x>>) = <<>> /\ Tail(<<x, y>>) = <<y>>
         /\ Append(<<>>, x) = <<x>> /\ Append(<<x>>, y) = <<x, y>>
         /\ <<x>>[1] = x /\ <<x, y>>[1] = x /\ <<x>> # <<>> /\ <<x, y>> # <<>>
<1>1. <<x>> \in Seq(PDU) /\ <<x, y>> \in Seq(PDU) /\ <<>> \in Seq(PDU)
  OBVIOUS
<1>2. Tail(<<x>>) = <<>>
  OBVIOUS
<1>3. Tail(<<x, y>>) = <<y>>
  OBVIOUS
<1>4. Append(<<>>, x) = <<x>>
  OBVIOUS
<1>5. Append(<<x>>, y) = <<x, y>>
  <2> DEFINE r == Append(<<x>>, y)
             t == <<x, y>>
  <2>1. \A q, w \in Seq(PDU) : Len(q) = Len(w) /\ (\A j \in 1..Len(w) : q[j] = w[j]) => q = w
    OBVIOUS
  <2>2. r \in Seq(PDU) /\ Len(r) = 2 /\ r[1] = x /\ r[2] = y
    <3>1. Len(<<x>>) = 1 /\ <<x>>[1] = x
      OBVIOUS
    <3>2. \A q \in Seq(PDU) : /\ Append(q, y) \in Seq(PDU) /\ Len(Append(q, y)) = Len(q) + 1
                              /\ \A i \in 1..Len(q) : Append(q, y)[i] = q[i]
                              /\ Append(q, y)[Len(q) + 1] = y
      BY AppendSeq
    <3> QED
      BY <1>1, <3>1, <3>2
  <2>3. t \in Seq(PDU) /\ Len(t) = 2 /\ t[1] = x /\ t[2] = y
    OBVIOUS
  <2> HIDE DEF r, t
  <2>4. \A j \in 1..2 : r[j] = t[j]
    BY <2>2, <2>3
  <2>5. r = t
    BY <2>1, <2>2, <2>3, <2>4
  <2> QED
    BY <2>5 DEF r, t
<1>6. <<x>>[1] = x /\ <<x, y>>[1] = x
  OBVIOUS
<1>7. <<x>> # <<>> /\ <<x, y>> # <<>>
  OBVIOUS
<1> QED
  BY <1>1, <1>2, <1>3, <1>4, <1>5, <1>6, <1>7

\* What is queued keeps the signalling queue in order.
LEMMA SignalsMore ==
  ASSUME NEW q \in Seq(PDU), Signals(q), NEW p \in PDU, p.type # "I", p # NotHere \/ Has(q, Disc)
  PROVE  Signals(Append(q, p))
<1>1. /\ Has(Append(q, p), NotHere) => Has(q, NotHere) \/ p = NotHere
      /\ HasI(Append(q, p)) => HasI(q) \/ p.type = "I"
  BY InfoMore
<1>2. Has(q, Disc) => Has(Append(q, p), Disc)
  <2>1. DOMAIN Append(q, p) = 1..(Len(q) + 1) /\ DOMAIN q = 1..Len(q) /\ Len(q) \in Nat
        /\ \A i \in 1..Len(q) : Append(q, p)[i] = q[i]
    BY AppendSeq
  <2> QED
    BY <2>1 DEF Has
<1> QED
  BY <1>1, <1>2 DEF Signals

\* A signalling PDU is queued.
LEMMA QueueIs ==
  ASSUME NEW d \in Dlcb, NEW p \in PDU
  PROVE  LET e == Queue(d, p)
         IN  /\ e \in Dlcb /\ e.sig_xmit_q = Append(d.sig_xmit_q, p) /\ e.state = d.state
             /\ SameNumbers(d, e) /\ e.i_xmit_q = d.i_xmit_q /\ (Blank(d) => Blank(e))
<1> DEFINE q == Append(d.sig_xmit_q, p)
           e == [d EXCEPT !.sig_xmit_q = q]
<1>1. q \in Seq(PDU)
  BY Fields
<1>2. Queue(d, p) = e
  BY DEF Queue
<1> HIDE DEF q
<1>3. /\ e \in Dlcb /\ e.sig_xmit_q = q /\ e.state = d.state /\ SameNumbers(d, e)
      /\ e.i_xmit_q = d.i_xmit_q
  BY <1>1 DEF Dlcb, SameNumbers
<1>4. Blank(d) => Blank(e)
  BY <1>1 DEF Blank, Idle, Dlcb
<1> HIDE DEF e
<1> QED
  BY <1>2, <1>3, <1>4 DEF q

\* The state changes and nothing else.
LEMMA StateIs ==
  ASSUME NEW d \in Dlcb, NEW st \in State
  PROVE  LET e == [d EXCEPT !.state = st]
         IN  /\ e \in Dlcb /\ e.sig_xmit_q = d.sig_xmit_q /\ e.state = st
             /\ SameNumbers(d, e) /\ e.i_xmit_q = d.i_xmit_q /\ (Blank(d) => Blank(e))
<1> DEFINE e == [d EXCEPT !.state = st]
<1>1. /\ e \in Dlcb /\ e.sig_xmit_q = d.sig_xmit_q /\ e.state = st /\ SameNumbers(d, e)
      /\ e.i_xmit_q = d.i_xmit_q
  BY DEF Dlcb, SameNumbers
<1>2. Blank(d) => Blank(e)
  BY DEF Blank, Idle, Dlcb
<1> QED
  BY <1>1, <1>2

\* The control block is freed.
LEMMA DeallocateIs ==
  ASSUME NEW d \in Dlcb
  PROVE  LET e == Deallocate(d)
         IN  e \in Dlcb /\ e.sig_xmit_q = d.sig_xmit_q /\ e.state = "IDLE" /\ Blank(e)
<1> DEFINE q == d.sig_xmit_q
           e == [Idle EXCEPT !.sig_xmit_q = q]
<1>1. q \in Seq(PDU)
  BY Fields
<1> HIDE DEF q
<1>2. "initiator" \in Station
  BY DEF Station
<1>3. e \in Dlcb /\ e.state = "IDLE"
  BY <1>1, <1>2, IdleSound DEF Sound
<1>4. e.sig_xmit_q = q
  BY DEF Idle
<1>5. Blank(e)
  BY DEF Blank, Idle
<1> HIDE DEF e
<1> QED
  BY <1>3, <1>4, <1>5 DEF e, q, Deallocate

\* llcp_dlc_proc_rx_pdu for the PDUs without sequence numbers.
LEMMA ProcessIs ==
  ASSUME NEW s, NEW d
  PROVE  /\ Process(s, d, Connect) = IF d.state = "IDLE"
                                       THEN [Deallocate(d) EXCEPT !.state = "W4_LOCAL_RESP"]
                                       ELSE Queue(d, Rejected)
         /\ d.state = "W4_REMOTE_RESP" => Process(s, d, Cc) = [d EXCEPT !.state = "CONNECTED"]
         /\ d.state = "W4_REMOTE_RESP" => Process(s, d, Rejected) = Deallocate(d)
         /\ d.state = "W4_REMOTE_DM" => Process(s, d, Closed) = Deallocate(d)
         /\ d.state = "IDLE" => Process(s, d, NotHere) = d
         /\ d.state = "CONNECTED" => Process(s, d, Disc) = Deallocate(Queue(d, Closed))
         /\ d.state = "W4_REMOTE_DM" => Process(s, d, Disc) = Queue(d, Closed)
<1>1. Process(s, d, Connect) = ProcConnect(d)
  BY Kinds DEF Process
<1>2. Process(s, d, Cc) = ProcCc(d)
  BY Kinds DEF Process
<1>3. /\ Process(s, d, Rejected) = ProcDm(d, "TEMP_REJECT_THIS")
      /\ Process(s, d, Closed) = ProcDm(d, "RESP_DISC")
      /\ Process(s, d, NotHere) = ProcDm(d, "NO_ACTIVE_CONNECTION")
  BY Kinds DEF Process
<1>4. Process(s, d, Disc) = ProcDisc(d)
  BY Kinds DEF Process
<1>5. ProcConnect(d) = IF d.state = "IDLE"
                         THEN [Deallocate(d) EXCEPT !.state = "W4_LOCAL_RESP"]
                         ELSE Queue(d, Rejected)
  BY DEF ProcConnect, Rejected
<1>6. d.state = "W4_REMOTE_RESP" => ProcCc(d) = [d EXCEPT !.state = "CONNECTED"]
  BY DEF ProcCc
<1>7. /\ d.state = "W4_REMOTE_RESP" => ProcDm(d, "TEMP_REJECT_THIS") = Deallocate(d)
      /\ d.state = "W4_REMOTE_DM" => ProcDm(d, "RESP_DISC") = Deallocate(d)
      /\ d.state = "IDLE" => ProcDm(d, "NO_ACTIVE_CONNECTION") = d
  BY DEF ProcDm
<1>8. /\ d.state = "CONNECTED" => ProcDisc(d) = Deallocate(Queue(d, Closed))
      /\ d.state = "W4_REMOTE_DM" => ProcDisc(d) = Queue(d, Closed)
  BY DEF ProcDisc, Closed
<1> QED
  BY <1>1, <1>2, <1>3, <1>4, <1>5, <1>6, <1>7, <1>8

\* Of a station with a PDU to handle the phase is one of these.
LEMMA HandlePhases ==
  ASSUME NEW d, NEW b, NEW qa, NEW qb, NEW wa, NEW wb, Paired(d, b, qa, qb, wa, wb), qa # <<>>
  PROVE  /\ d.state \in {"IDLE", "W4_REMOTE_RESP", "CONNECTED", "W4_REMOTE_DM"}
         /\ d.state = "IDLE" =>
              /\ Blank(d)
              /\ \/ b.state = "W4_REMOTE_RESP" /\ Blank(b) /\ qb = <<>> /\ qa = <<Connect>>
                 \/ Answered(b, d, qb, qa) /\ All(qa, NotHere)
         /\ d.state = "W4_REMOTE_RESP" =>
              /\ Blank(d)
              /\ \/ /\ Blank(b) /\ b.state = "W4_REMOTE_RESP"
                    /\ \/ qa = <<Connect>> /\ qb = <<Connect>>
                       \/ qa = <<Rejected>> /\ qb = <<Rejected>>
                       \/ qa = <<Connect, Rejected>> /\ qb = <<>>
                       \/ qa = <<Rejected, Connect>> /\ qb = <<>>
                 \/ Blank(b) /\ b.state = "IDLE" /\ qa = <<Rejected>> /\ qb = <<>>
                 \/ Accepted(b, d, qb, qa) /\ Flows(d, b, qa, qb, wa, wb)
                 \/ Fleeting(b, d, qb, qa) /\ Flows(d, b, qa, qb, wa, wb)
         /\ d.state = "W4_REMOTE_DM" =>
              \/ Left(d, b, qa, qb) /\ Flows(d, b, qa, qb, wa, wb)
              \/ BothLeft(d, b, qa, qb) \/ BothLeft(b, d, qb, qa)
              \/ Answered(d, b, qa, qb)
<1>1. CASE Setup(d, b, qa, qb)
  BY <1>1 DEF Setup
<1>2. CASE Setup(b, d, qb, qa)
  BY <1>2 DEF Setup
<1>3. CASE Open(d, b, qa, qb) /\ Flows(d, b, qa, qb, wa, wb)
  BY <1>3 DEF Open, Joined, Accepted, Fleeting, Left, Leaving
<1>4. CASE Open(b, d, qb, qa) /\ Flows(b, d, qb, qa, wb, wa)
  BY <1>4, FlowsTurn DEF Open, Joined, Accepted, Fleeting, Left, Leaving
<1>5. CASE BothLeft(d, b, qa, qb) \/ BothLeft(b, d, qb, qa)
  BY <1>5 DEF BothLeft, Leaving
<1>6. CASE Answered(d, b, qa, qb) \/ Answered(b, d, qb, qa)
  BY <1>6 DEF Answered, Leaving
<1> QED
  BY <1>1, <1>2, <1>3, <1>4, <1>5, <1>6 DEF Paired, Half

\* A PDU without sequence numbers leaves the numbers as they are.
LEMMA FlowsHandled ==
  ASSUME NEW d, NEW b, NEW qa, NEW qb, NEW wa, NEW wb, Ends(d, b, qa, qb, wa, wb),
         Flows(d, b, qa, qb, wa, wb), qa # <<>>, qa[1].type # "I",
         NEW e \in Dlcb, SameNumbers(d, e), e.state = d.state \/ (d.state # "W4_REMOTE_DM" /\ e.state # "W4_REMOTE_DM")
  PROVE  Flows(e, b, Tail(qa), qb, wa, wb)
<1>1. /\ d \in Dlcb /\ b \in Dlcb /\ qa \in Seq(PDU) /\ qb \in Seq(PDU) /\ wa \in Seqno
      /\ wb \in Seqno /\ Tail(qa) \in Seq(PDU)
  BY TailParts DEF Ends
<1>2. /\ Numbers(d, b, qa, wb) /\ Carries(d, b, qa, qb)
      /\ Numbers(b, d, qb, wa) /\ Carries(b, d, qb, qa)
  BY DEF Flows, Flow
<1>3. Numbers(d, b, Tail(qa), wb)
  BY <1>1, <1>2, NumbersHandle
<1>4. Carries(d, b, Tail(qa), qb)
  BY <1>1, <1>2, TailParts DEF Carries
<1>5. Carries(b, d, qb, Tail(qa))
  BY <1>1, <1>2, CarriesHandled
<1>6. Numbers(e, b, Tail(qa), wb) /\ Carries(e, b, Tail(qa), qb)
  BY <1>3, <1>4 DEF Numbers, Carries, From, SameNumbers
<1>7. Numbers(b, e, qb, wa)
  BY <1>2 DEF Numbers, SameNumbers
<1>8. Carries(b, e, qb, Tail(qa))
  BY <1>5 DEF Carries, SameNumbers
<1> QED
  BY <1>6, <1>7, <1>8 DEF Flows, Flow
-------------------------------------------------------------------------------
(* One PDU, in each state.                                                   *)

\* Station d, whose peer is b, becomes e as it handles the first of qa.
Handles(d, e, b, qa, wa, wb) ==
  /\ e \in Dlcb /\ Paired(e, b, Tail(qa), e.sig_xmit_q, wa, wb)
  /\ Signals(e.sig_xmit_q)

\* Without a connection: a CONNECT, or an answer to an I PDU it sent before.
LEMMA HandlesIdle ==
  ASSUME NEW s, NEW d, NEW b, NEW qa, NEW wa, NEW wb, Ends(d, b, qa, d.sig_xmit_q, wa, wb),
         Paired(d, b, qa, d.sig_xmit_q, wa, wb), Signals(d.sig_xmit_q), qa # <<>>, d.state = "IDLE"
  PROVE  Handles(d, Process(s, d, qa[1]), b, qa, wa, wb)
<1>1. d \in Dlcb /\ qa \in Seq(PDU)
  BY DEF Ends
<1>2. CASE b.state = "W4_REMOTE_RESP" /\ Blank(b) /\ d.sig_xmit_q = <<>> /\ qa = <<Connect>>
  <2> DEFINE f == Deallocate(d)
             e == [f EXCEPT !.state = "W4_LOCAL_RESP"]
  <2>1. f \in Dlcb /\ f.sig_xmit_q = <<>> /\ Blank(f)
    BY <1>1, <1>2, DeallocateIs
  <2> HIDE DEF f
  <2>2. e \in Dlcb /\ e.sig_xmit_q = <<>> /\ e.state = "W4_LOCAL_RESP" /\ Blank(e)
    BY <2>1, StateIs DEF State
  <2> HIDE DEF e
  <2>3. Tail(qa) = <<>> /\ qa[1] = Connect
    BY <1>2, Kinds, Short
  <2>4. Setup(b, e, <<>>, <<>>)
    BY <1>2, <2>2 DEF Setup
  <2>5. Process(s, d, qa[1]) = e
    BY <2>3, ProcessIs DEF e, f
  <2> QED
    BY <1>2, <2>2, <2>3, <2>4, <2>5 DEF Handles, Paired, Half
<1>3. CASE Answered(b, d, d.sig_xmit_q, qa) /\ All(qa, NotHere)
  <2>1. qa[1] = NotHere /\ All(Tail(qa), NotHere)
    BY <1>1, <1>3, TailParts
  <2>2. Process(s, d, qa[1]) = d
    BY <2>1, ProcessIs
  <2>3. Answered(b, d, d.sig_xmit_q, Tail(qa))
    BY <1>3, <2>1 DEF Answered
  <2> QED
    BY <1>1, <2>2, <2>3 DEF Handles, Paired, Half
<1> QED
  BY <1>2, <1>3, HandlePhases

\* Waiting for a CC: a CONNECT, a rejection or the CC.
LEMMA HandlesWaiting ==
  ASSUME NEW s, NEW d, NEW b, NEW qa, NEW wa, NEW wb, Ends(d, b, qa, d.sig_xmit_q, wa, wb),
         Paired(d, b, qa, d.sig_xmit_q, wa, wb), Signals(d.sig_xmit_q), qa # <<>>,
         d.state = "W4_REMOTE_RESP"
  PROVE  Handles(d, Process(s, d, qa[1]), b, qa, wa, wb)
<1> DEFINE qb == d.sig_xmit_q
           r == Queue(d, Rejected)
           f == Deallocate(d)
           c == [d EXCEPT !.state = "CONNECTED"]
<1>1. d \in Dlcb /\ qa \in Seq(PDU) /\ qb \in Seq(PDU) /\ Blank(d)
  BY HandlePhases DEF Ends
<1>2. /\ r \in Dlcb /\ r.sig_xmit_q = Append(qb, Rejected) /\ r.state = "W4_REMOTE_RESP"
      /\ Blank(r) /\ Signals(r.sig_xmit_q)
  <2>1. r \in Dlcb /\ r.sig_xmit_q = Append(qb, Rejected) /\ r.state = "W4_REMOTE_RESP" /\ Blank(r)
    BY <1>1, QueueIs, Kinds
  <2> HIDE DEF r
  <2> QED
    BY <1>1, <2>1, SignalsMore, Kinds
<1>3. /\ f \in Dlcb /\ f.sig_xmit_q = qb /\ f.state = "IDLE" /\ Blank(f)
  BY <1>1, DeallocateIs
<1>4. /\ c \in Dlcb /\ c.sig_xmit_q = qb /\ c.state = "CONNECTED" /\ SameNumbers(d, c)
  BY <1>1, StateIs DEF State
<1>5. /\ Process(s, d, Connect) = r /\ Process(s, d, Rejected) = f /\ Process(s, d, Cc) = c
  BY ProcessIs
<1> HIDE DEF r, f, c
<1>6. /\ \A x \in {Connect, Rejected} : Tail(<<x>>) = <<>> /\ Append(<<>>, x) = <<x>> /\ <<x>>[1] = x
      /\ \A x, y \in {Connect, Rejected} :
           Tail(<<x, y>>) = <<y>> /\ Append(<<x>>, y) = <<x, y>> /\ <<x, y>>[1] = x
  BY Kinds, Short
<1>7. CASE /\ Blank(b) /\ b.state = "W4_REMOTE_RESP"
           /\ \/ qa = <<Connect>> /\ qb = <<Connect>>
              \/ qa = <<Rejected>> /\ qb = <<Rejected>>
              \/ qa = <<Connect, Rejected>> /\ qb = <<>>
              \/ qa = <<Rejected, Connect>> /\ qb = <<>>
  <2>1. CASE qa = <<Connect>> /\ qb = <<Connect>>
    <3>1. Tail(qa) = <<>> /\ r.sig_xmit_q = <<Connect, Rejected>> /\ qa[1] = Connect
      BY <1>2, <1>6, <2>1
    <3>2. Setup(r, b, Tail(qa), r.sig_xmit_q)
      BY <1>2, <1>7, <3>1 DEF Setup
    <3> QED
      BY <1>2, <1>5, <3>1, <3>2 DEF Handles, Paired, Half
  <2>2. CASE qa = <<Rejected>> /\ qb = <<Rejected>>
    <3>1. Tail(qa) = <<>> /\ qa[1] = Rejected
      BY <1>6, <2>2
    <3>2. Setup(f, b, Tail(qa), f.sig_xmit_q)
      BY <1>3, <1>7, <2>2, <3>1 DEF Setup
    <3> QED
      BY <1>3, <1>5, <3>1, <3>2 DEF Handles, Paired, Half
  <2>3. CASE qa = <<Connect, Rejected>> /\ qb = <<>>
    <3>1. Tail(qa) = <<Rejected>> /\ r.sig_xmit_q = <<Rejected>> /\ qa[1] = Connect
      BY <1>2, <1>6, <2>3
    <3>2. Setup(r, b, Tail(qa), r.sig_xmit_q)
      BY <1>2, <1>7, <3>1 DEF Setup
    <3> QED
      BY <1>2, <1>5, <3>1, <3>2 DEF Handles, Paired, Half
  <2>4. CASE qa = <<Rejected, Connect>> /\ qb = <<>>
    <3>1. Tail(qa) = <<Connect>> /\ qa[1] = Rejected
      BY <1>6, <2>4
    <3>2. Setup(b, f, f.sig_xmit_q, Tail(qa))
      BY <1>3, <1>7, <2>4, <3>1 DEF Setup
    <3> QED
      BY <1>3, <1>5, <3>1, <3>2 DEF Handles, Paired, Half
  <2> QED
    BY <1>7, <2>1, <2>2, <2>3, <2>4
<1>8. CASE Blank(b) /\ b.state = "IDLE" /\ qa = <<Rejected>> /\ qb = <<>>
  <2>1. Tail(qa) = <<>> /\ qa[1] = Rejected
    BY <1>6, <1>8
  <2>2. Setup(f, b, Tail(qa), f.sig_xmit_q)
    BY <1>3, <1>8, <2>1 DEF Setup
  <2> QED
    BY <1>3, <1>5, <2>1, <2>2 DEF Handles, Paired, Half
<1>9. CASE \/ Accepted(b, d, qb, qa) /\ Flows(d, b, qa, qb, wa, wb)
           \/ Fleeting(b, d, qb, qa) /\ Flows(d, b, qa, qb, wa, wb)
  <2>1. qa[1] = Cc /\ qb = <<>> /\ Flows(d, b, qa, qb, wa, wb) /\ AllInfo(qb)
    BY <1>9 DEF Accepted, Fleeting, AllInfo
  <2>2. Flows(c, b, Tail(qa), qb, wa, wb)
    BY <1>4, <2>1, FlowsHandled, Kinds
  <2>3. Flows(b, c, qb, Tail(qa), wb, wa)
    BY <2>2, FlowsTurn
  <2>4. Accepted(b, d, qb, qa) => Joined(c, b, Tail(qa), qb)
    BY <1>4, <2>1 DEF Accepted, Joined
  <2>5. Fleeting(b, d, qb, qa) => Left(b, c, qb, Tail(qa))
    <3>1. Tail(qa) \in Seq(PDU)
      BY <1>1, TailParts
    <3> QED
      BY <1>4, <2>1, <3>1, AcksDisc DEF Fleeting, Left
  <2>6. Paired(c, b, Tail(qa), qb, wa, wb)
    BY <1>9, <2>2, <2>3, <2>4, <2>5 DEF Paired, Half, Open
  <2> QED
    BY <1>4, <1>5, <2>1, <2>6 DEF Handles
<1> QED
  BY <1>1, <1>7, <1>8, <1>9, HandlePhases

-------------------------------------------------------------------------------
(* A PDU with sequence numbers.                                              *)

\* What a connected station takes over of a good I PDU.
LEMMA ProcIIs ==
  ASSUME NEW s, NEW d \in Dlcb, d.state = "CONNECTED", NEW p \in PDU, p.type = "I",
         ValidNr(d, p.nr), p.ns = d.next_rx_seq, Minus(p.ns, d.sent_ack_seq) < Rw[s]
  PROVE  LET e == Process(s, d, p)
         IN  /\ e \in Dlcb /\ e.state = "CONNECTED" /\ e.sig_xmit_q = d.sig_xmit_q
             /\ e.next_tx_seq = d.next_tx_seq /\ e.sent_ack_seq = d.sent_ack_seq
             /\ e.rcvd_ack_seq = p.nr /\ e.next_rx_seq = (d.next_rx_seq + 1) % SeqMod
<1> DEFINE rx == (d.next_rx_seq + 1) % SeqMod
           q  == Append(d.i_rx_q, p.sdu)
           new == [d EXCEPT !.next_rx_seq = rx, !.rcvd_ack_seq = p.nr, !.i_rx_q = q]
           told == [new EXCEPT !.rung = TRUE]
           rung == IF ~new.local_busy /\ Len(new.i_rx_q) = 1 THEN DataInd(new) ELSE new
           fl == rung.flags \cup {"PENDING_RR_RNR"}
           full == [rung EXCEPT !.is_rx_congested = TRUE, !.flags = fl]
           Taken(e) == /\ e \in Dlcb /\ e.state = "CONNECTED" /\ e.sig_xmit_q = d.sig_xmit_q
                       /\ e.next_tx_seq = d.next_tx_seq /\ e.sent_ack_seq = d.sent_ack_seq
                       /\ e.rcvd_ack_seq = p.nr /\ e.next_rx_seq = rx
<1>1. rx \in Seqno /\ q \in Seq(Nat) /\ p.nr \in Seqno
  <2>1. p.nr \in Seqno /\ p.sdu \in Nat /\ d.i_rx_q \in Seq(Nat) /\ d.next_rx_seq \in Seqno
    BY Fields, PduFields
  <2>2. 1 \in 0..SeqMod
    BY SeqModAssumption
  <2> QED
    BY <2>1, <2>2, NextSeqno
<1>2. Process(s, d, p) = ProcI(s, d, p)
  BY DEF Process
<1>3. ProcI(s, d, p) = rung \/ ProcI(s, d, p) = full
  BY DEF ProcI
<1> HIDE DEF rx, q
<1>4. Taken(new)
  BY <1>1 DEF Dlcb
<1>5. rung = new \/ rung = told
  BY DEF DataInd
<1> HIDE DEF new
<1>6. Taken(told)
  BY <1>4 DEF Dlcb
<1> HIDE DEF told, rung
<1>7. Taken(rung)
  BY <1>4, <1>5, <1>6
<1>8. fl \in SUBSET Flag
  BY <1>7, Fields DEF Flag
<1> HIDE DEF fl
<1>9. Taken(full)
  BY <1>7, <1>8 DEF Dlcb
<1> HIDE DEF full
<1> QED
  BY <1>2, <1>3, <1>7, <1>9 DEF rx

\* What a station takes over of a good RR or RNR, before a disconnection goes on.
LEMMA ProcRrRnrIs ==
  ASSUME NEW s, NEW d \in Dlcb, d.state # "IDLE", NEW p \in PDU, Ack(p), ValidNr(d, p.nr)
  PROVE  \E x : /\ Process(s, d, p) = CheckPendingDisc(x)
                /\ x \in Dlcb /\ x.state = d.state /\ x.sig_xmit_q = d.sig_xmit_q
                /\ x.next_tx_seq = d.next_tx_seq /\ x.sent_ack_seq = d.sent_ack_seq
                /\ x.rcvd_ack_seq = p.nr /\ x.next_rx_seq = d.next_rx_seq
                /\ x.i_xmit_q = d.i_xmit_q
<1> DEFINE busy == p.type = "RNR"
           t == IF busy # d.remote_busy /\ ~d.is_tx_congested THEN busy ELSE d.told
           x == [d EXCEPT !.rcvd_ack_seq = p.nr, !.remote_busy = busy, !.told = t]
<1>1. busy \in BOOLEAN /\ t \in BOOLEAN /\ p.nr \in Seqno
  BY Fields, PduFields DEF Ack
<1>2. Process(s, d, p) = ProcRrRnr(d, p)
  BY DEF Process, Ack
<1>3. ProcRrRnr(d, p) = CheckPendingDisc(x)
  BY DEF ProcRrRnr
<1> HIDE DEF busy, t
<1>4. /\ x \in Dlcb /\ x.state = d.state /\ x.sig_xmit_q = d.sig_xmit_q
      /\ x.next_tx_seq = d.next_tx_seq /\ x.sent_ack_seq = d.sent_ack_seq
      /\ x.rcvd_ack_seq = p.nr /\ x.next_rx_seq = d.next_rx_seq
      /\ x.i_xmit_q = d.i_xmit_q
  BY <1>1 DEF Dlcb
<1> HIDE DEF x
<1> QED
  BY <1>2, <1>3, <1>4
\* What is no I, RR or RNR PDU is no acknowledgement.
LEMMA LeavingMore ==
  ASSUME NEW a, NEW q \in Seq(PDU), Leaving(a, q), NEW p \in PDU, ~Info(p)
  PROVE  Leaving(a, Append(q, p))
<1>1. /\ DOMAIN Append(q, p) = 1..(Len(q) + 1) /\ DOMAIN q = 1..Len(q) /\ Len(q) \in Nat
      /\ \A i \in 1..Len(q) : Append(q, p)[i] = q[i]
      /\ Append(q, p)[Len(q) + 1] = p
  BY AppendSeq
<1>2. \A i \in DOMAIN Append(q, p) :
        Info(Append(q, p)[i]) => i \in DOMAIN q /\ Append(q, p)[i] = q[i]
  <2> SUFFICES ASSUME NEW i \in DOMAIN Append(q, p), Info(Append(q, p)[i])
               PROVE  i \in DOMAIN q /\ Append(q, p)[i] = q[i]
    OBVIOUS
  <2>1. i # Len(q) + 1
    BY <1>1
  <2>2. i \in 1..Len(q)
    BY <1>1, <2>1
  <2> QED
    BY <1>1, <2>2
<1> QED
  BY <1>2 DEF Leaving

\* A pair whose station makes a move, and its signalling queue with it.
LEMMA MovesPaired ==
  ASSUME NEW x \in Dlcb, NEW b, NEW q, NEW wa, NEW wb, Ends(x, b, q, x.sig_xmit_q, wa, wb),
         Paired(x, b, q, x.sig_xmit_q, wa, wb), Signals(x.sig_xmit_q), NEW e, NEW out, Moves(x, e, out)
  PROVE  e \in Dlcb /\ Paired(e, b, q, e.sig_xmit_q, wa, wb) /\ Signals(e.sig_xmit_q)
<1>1. /\ e \in Dlcb /\ out \in Seq(PDU) /\ e.sig_xmit_q = x.sig_xmit_q \o out
      /\ ~HasI(out) /\ ~Has(out, NotHere) /\ x.sig_xmit_q \in Seq(PDU)
  BY Fields DEF Moves
<1>2. Paired(e, b, q, x.sig_xmit_q \o out, wa, wb)
  BY Zenon DEF Moves
<1>3. \A y, z \in Seq(PDU) :
        /\ HasI(y \o z) => HasI(y) \/ HasI(z)
        /\ Has(y \o z, NotHere) => Has(y, NotHere) \/ Has(z, NotHere)
  BY InfoParts
<1>4. \A y, z \in Seq(PDU) : Has(y, Disc) => Has(y \o z, Disc)
  BY DEF Has
<1>5. Signals(e.sig_xmit_q)
  BY <1>1, <1>3, <1>4 DEF Signals
<1> QED
  BY <1>1, <1>2, <1>5

\* Connected: an I, RR or RNR PDU, or the DISC behind which nothing is under way.
LEMMA HandlesConnected ==
  ASSUME NEW s \in Station, NEW d, NEW b, NEW qa, NEW wa, NEW wb,
         Ends(d, b, qa, d.sig_xmit_q, wa, wb), wa = Rw[s],
         Paired(d, b, qa, d.sig_xmit_q, wa, wb), Signals(d.sig_xmit_q), qa # <<>>,
         d.state = "CONNECTED"
  PROVE  /\ Handles(d, Process(s, d, qa[1]), b, qa, wa, wb)
         /\ Process(s, d, qa[1]).state = "IDLE" => b.i_xmit_q = <<>> /\ ~HasI(qa)
<1> DEFINE qb == d.sig_xmit_q
           e == Process(s, d, qa[1])
<1>1. /\ d \in Dlcb /\ b \in Dlcb /\ qa \in Seq(PDU) /\ qb \in Seq(PDU) /\ wa \in Seqno
      /\ wb \in Seqno /\ Tail(qa) \in Seq(PDU) /\ qa[1] \in PDU
  BY TailParts DEF Ends
<1>2. Flows(d, b, qa, qb, wa, wb) /\ Connected(d, b, qa, qb)
  BY ConnectedPhases
<1>3. \/ Info(qa[1])
      \/ Left(b, d, qb, qa) /\ qa[1] = Disc /\ All(Tail(qa), NotHere)
  <2>1. CASE Joined(d, b, qa, qb)
    BY <1>1, <2>1, TailParts DEF Joined
  <2>2. CASE Left(b, d, qb, qa)
    BY <1>1, <2>2, PartingSteps DEF Left, Ack, Info
  <2> QED
    BY <1>2, <2>1, <2>2 DEF Connected, Accepted
<1>4. CASE Info(qa[1])
  <2>1. /\ ValidNr(d, qa[1].nr)
        /\ qa[1].type = "I" => qa[1].ns = d.next_rx_seq /\ Minus(qa[1].ns, d.sent_ack_seq) < wa
    BY <1>4, InfoGood
  <2>2. CASE qa[1].type = "I"
    <3>1. /\ e \in Dlcb /\ e.state = "CONNECTED" /\ e.sig_xmit_q = d.sig_xmit_q
          /\ e.next_tx_seq = d.next_tx_seq /\ e.sent_ack_seq = d.sent_ack_seq
          /\ e.rcvd_ack_seq = qa[1].nr /\ e.next_rx_seq = (d.next_rx_seq + 1) % SeqMod
      BY <1>1, <2>1, <2>2, ProcIIs
    <3> HIDE DEF e
    <3>2. Paired(e, b, Tail(qa), qb, wa, wb)
      BY <1>4, <2>2, <3>1, InfoHandled
    <3>3. Handles(d, e, b, qa, wa, wb) /\ e.state # "IDLE"
      BY <3>1, <3>2 DEF Handles
    <3> QED
      BY <3>3 DEF e
  <2>3. CASE qa[1].type # "I"
    <3>1. Ack(qa[1])
      BY <1>4, <2>3 DEF Ack, Info
    <3>2. PICK x : /\ e = CheckPendingDisc(x)
                   /\ x \in Dlcb /\ x.state = d.state /\ x.sig_xmit_q = d.sig_xmit_q
                   /\ x.next_tx_seq = d.next_tx_seq /\ x.sent_ack_seq = d.sent_ack_seq
                   /\ x.rcvd_ack_seq = qa[1].nr /\ x.next_rx_seq = d.next_rx_seq
                   /\ x.i_xmit_q = d.i_xmit_q
      BY <1>1, <2>1, <3>1, ProcRrRnrIs
    <3> HIDE DEF e
    <3>3. Paired(x, b, Tail(qa), qb, wa, wb)
      BY <1>4, <2>3, <3>2, InfoHandled
    <3>4. PICK out : Moves(x, e, out)
      BY <3>2, CheckPendingDiscMoves
    <3>5. Ends(x, b, Tail(qa), x.sig_xmit_q, wa, wb)
      BY <1>1, <3>2 DEF Ends
    <3>6. e \in Dlcb /\ Paired(e, b, Tail(qa), e.sig_xmit_q, wa, wb) /\ Signals(e.sig_xmit_q)
      BY <3>2, <3>3, <3>4, <3>5, MovesPaired
    <3>7. e.state # "IDLE"
      BY <3>2, <3>4 DEF Moves, Early
    <3>8. Handles(d, e, b, qa, wa, wb)
      BY <3>6 DEF Handles
    <3> QED
      BY <3>7, <3>8 DEF e
  <2> QED
    BY <2>2, <2>3
<1>5. CASE Left(b, d, qb, qa) /\ qa[1] = Disc /\ All(Tail(qa), NotHere)
  <2> DEFINE x == Queue(d, Closed)
  <2>0. Closed \in PDU /\ ~Info(Closed) /\ Closed.type # "I" /\ Closed # NotHere
    BY Kinds
  <2>1. x \in Dlcb /\ x.sig_xmit_q = Append(qb, Closed)
    BY <1>1, <2>0, QueueIs
  <2>2. e = Deallocate(x)
    BY <1>5, ProcessIs
  <2> HIDE DEF x
  <2>3. e \in Dlcb /\ e.sig_xmit_q = Append(qb, Closed) /\ e.state = "IDLE" /\ Blank(e)
    BY <2>1, <2>2, DeallocateIs
  <2> HIDE DEF e
  <2>4. Leaving(b, qb) /\ AllInfo(qb) /\ Parting(qa)
    BY <1>5 DEF Left
  <2>5. Acks(Append(qb, Closed), <<Closed>>)
    <3>1. ~HasI(qb)
      BY DEF Signals
    <3>2. \A i \in DOMAIN qb : Ack(qb[i])
      BY <1>1, <2>0, <2>4, <3>1, InfoMore
    <3> QED
      BY <1>1, <2>0, <3>2, AcksOnly
  <2>6. Leaving(b, Append(qb, Closed))
    BY <1>1, <2>0, <2>4, LeavingMore
  <2>7. Answered(b, e, Append(qb, Closed), Tail(qa))
    BY <1>5, <2>3, <2>5, <2>6 DEF Answered
  <2>8. Signals(Append(qb, Closed))
    BY <1>1, <2>0, SignalsMore
  <2>9. Handles(d, e, b, qa, wa, wb)
    BY <2>3, <2>7, <2>8 DEF Handles, Paired, Half
  <2>10. b.i_xmit_q = <<>> /\ ~HasI(qa)
    <3>1. \A i \in DOMAIN qa : Ack(qa[i]) \/ qa[i] = Disc \/ qa[i] = NotHere
      BY <1>1, <2>4, PartingSteps
    <3>2. ~HasI(qa)
      BY <3>1, Kinds DEF HasI, Ack
    <3> QED
      BY <2>4, <3>2 DEF Leaving
  <2> QED
    BY <2>9, <2>10 DEF e
<1> QED
  BY <1>3, <1>4, <1>5
\* Disconnecting: an acknowledgement changes nothing.
LEMMA AckDropped ==
  ASSUME NEW d, NEW b, NEW qa, NEW qb, NEW wa, NEW wb, Ends(d, b, qa, qb, wa, wb),
         Paired(d, b, qa, qb, wa, wb), d.state = "W4_REMOTE_DM", qa # <<>>, Ack(qa[1])
  PROVE  qa[1].nr = d.rcvd_ack_seq /\ d.next_tx_seq = d.rcvd_ack_seq /\ Paired(d, b, Tail(qa), qb, wa, wb)
<1>1. /\ d \in Dlcb /\ b \in Dlcb /\ qa \in Seq(PDU) /\ qb \in Seq(PDU) /\ Tail(qa) \in Seq(PDU)
      /\ 1 \in DOMAIN qa /\ Info(qa[1]) /\ qa[1].type # "I"
      /\ \A p \in {Connect, Cc, Disc, Rejected, Closed, NotHere} : ~Ack(p)
  BY TailParts, Kinds DEF Ends, Ack, Info
<1>2. Leaving(d, qa) => /\ Leaving(d, Tail(qa)) /\ qa[1].nr = d.rcvd_ack_seq
                        /\ d.next_tx_seq = d.rcvd_ack_seq
  BY <1>1, TailParts DEF Leaving
<1>3. CASE Left(d, b, qa, qb) /\ Flows(d, b, qa, qb, wa, wb)
  <2>1. Flows(d, b, Tail(qa), qb, wa, wb)
    BY <1>1, <1>3, FlowsHandled DEF SameNumbers
  <2>2. Left(d, b, Tail(qa), qb)
    BY <1>1, <1>2, <1>3, TailParts DEF Left
  <2> QED
    BY <1>2, <1>3, <2>1, <2>2 DEF Left, Paired, Half, Open
<1>4. \A w \in Seq(PDU) : w[1] \in {Disc, Closed} /\ Acks(qa, w) => Acks(Tail(qa), w)
  <2> SUFFICES ASSUME NEW w \in Seq(PDU), w[1] \in {Disc, Closed}, Acks(qa, w)
               PROVE  Acks(Tail(qa), w)
    OBVIOUS
  <2>1. Acks(Tail(qa), w) \/ qa = w
    BY <1>1, AcksSteps
  <2> QED
    BY <1>1, <2>1
<1>5. /\ <<Disc>> \in Seq(PDU) /\ <<Disc>>[1] = Disc /\ <<Disc, Closed>> \in Seq(PDU)
      /\ <<Disc, Closed>>[1] = Disc /\ <<Closed>> \in Seq(PDU) /\ <<Closed>>[1] = Closed
      /\ <<Closed, Connect>> \in Seq(PDU) /\ <<Closed, Connect>>[1] = Closed
  BY Kinds, Short
<1>6. qa # <<Closed>>
  BY <1>1, <1>5
<1>7. CASE BothLeft(d, b, qa, qb)
  <2>1. Acks(qa, <<Disc>>) /\ Acks(qb, <<Disc>>) /\ Leaving(d, qa) /\ Leaving(b, qb)
    BY <1>6, <1>7 DEF BothLeft
  <2>2. Acks(Tail(qa), <<Disc>>)
    BY <1>4, <1>5, <2>1
  <2>3. BothLeft(d, b, Tail(qa), qb)
    BY <1>2, <2>1, <2>2 DEF BothLeft
  <2> QED
    BY <1>2, <2>1, <2>3 DEF Paired, Half
<1>8. CASE BothLeft(b, d, qb, qa)
  <2>1. /\ Leaving(d, qa) /\ Leaving(b, qb)
        /\ \/ Acks(qa, <<Disc>>) /\ Acks(qb, <<Disc>>)
           \/ qb = <<>> /\ Acks(qa, <<Disc, Closed>>)
    BY <1>6, <1>8 DEF BothLeft
  <2>2. \/ Acks(Tail(qa), <<Disc>>) /\ Acks(qb, <<Disc>>)
        \/ qb = <<>> /\ Acks(Tail(qa), <<Disc, Closed>>)
    BY <1>4, <1>5, <2>1
  <2>3. BothLeft(b, d, qb, Tail(qa))
    BY <1>2, <2>1, <2>2 DEF BothLeft
  <2> QED
    BY <1>2, <2>1, <2>3 DEF Paired, Half
<1>9. CASE Answered(d, b, qa, qb)
  <2>1. Leaving(d, qa)
    BY <1>9 DEF Answered
  <2>2. /\ Acks(qa, <<Closed>>) => Acks(Tail(qa), <<Closed>>)
        /\ Acks(qa, <<Closed, Connect>>) => Acks(Tail(qa), <<Closed, Connect>>)
    BY <1>4, <1>5
  <2>3. Answered(d, b, Tail(qa), qb)
    BY <1>2, <1>9, <2>2 DEF Answered
  <2> QED
    BY <1>2, <2>1, <2>3 DEF Paired, Half
<1> QED
  BY <1>3, <1>7, <1>8, <1>9, HandlePhases

\* Disconnecting: an I PDU is answered, an RR or RNR dropped; the answer ends it, and a
\* DISC is answered too.
LEMMA HandlesLeft ==
  ASSUME NEW s, NEW d, NEW b, NEW qa, NEW wa, NEW wb, Ends(d, b, qa, d.sig_xmit_q, wa, wb),
         Paired(d, b, qa, d.sig_xmit_q, wa, wb), Signals(d.sig_xmit_q), qa # <<>>,
         d.state = "W4_REMOTE_DM"
  PROVE  Handles(d, Process(s, d, qa[1]), b, qa, wa, wb)
<1> DEFINE qb == d.sig_xmit_q
           e == Process(s, d, qa[1])
           c == Queue(d, Closed)
           n == Queue(d, NotHere)
           f == Deallocate(d)
<1>1. /\ d \in Dlcb /\ b \in Dlcb /\ qa \in Seq(PDU) /\ qb \in Seq(PDU) /\ Tail(qa) \in Seq(PDU)
      /\ qa[1] \in PDU /\ wa \in Seqno /\ wb \in Seqno
  BY TailParts DEF Ends
<1>2. /\ c \in Dlcb /\ c.sig_xmit_q = Append(qb, Closed) /\ c.state = "W4_REMOTE_DM"
      /\ SameNumbers(d, c) /\ c.i_xmit_q = d.i_xmit_q
      /\ n \in Dlcb /\ n.sig_xmit_q = Append(qb, NotHere) /\ n.state = "W4_REMOTE_DM"
      /\ SameNumbers(d, n) /\ n.i_xmit_q = d.i_xmit_q
      /\ f \in Dlcb /\ f.sig_xmit_q = qb /\ f.state = "IDLE" /\ Blank(f)
  <2>1. Closed \in PDU /\ NotHere \in PDU
    BY Kinds
  <2>2. /\ c \in Dlcb /\ c.sig_xmit_q = Append(qb, Closed) /\ c.state = "W4_REMOTE_DM"
        /\ SameNumbers(d, c) /\ c.i_xmit_q = d.i_xmit_q
    BY <1>1, <2>1, QueueIs
  <2>3. /\ n \in Dlcb /\ n.sig_xmit_q = Append(qb, NotHere) /\ n.state = "W4_REMOTE_DM"
        /\ SameNumbers(d, n) /\ n.i_xmit_q = d.i_xmit_q
    BY <1>1, <2>1, QueueIs
  <2>4. /\ f \in Dlcb /\ f.sig_xmit_q = qb /\ f.state = "IDLE" /\ Blank(f)
    BY <1>1, DeallocateIs
  <2> QED
    BY <2>2, <2>3, <2>4
<1>3. /\ qa[1].type = "I" => e = n
      /\ qa[1] = Disc => e = c
      /\ qa[1] = Closed => e = f
  <2>1. qa[1].type = "I" => e = ProcI(s, d, qa[1])
    BY DEF Process
  <2>2. ProcI(s, d, qa[1]) = n
    BY DEF ProcI, NotHere
  <2> QED
    BY <2>1, <2>2, ProcessIs
<1> HIDE DEF c, n, f
<1>4. CASE Ack(qa[1])
  <2>1. /\ qa[1].nr = d.rcvd_ack_seq /\ d.next_tx_seq = d.rcvd_ack_seq
        /\ Paired(d, b, Tail(qa), qb, wa, wb)
    BY <1>4, AckDropped
  <2>2. ValidNr(d, qa[1].nr)
    <3>1. d.rcvd_ack_seq \in Seqno
      BY <1>1, Fields
    <3>2. Minus(d.rcvd_ack_seq, d.rcvd_ack_seq) = 0
      BY <3>1, MinusIs
    <3> QED
      BY <2>1, <3>2 DEF ValidNr
  <2>3. PICK x : /\ e = CheckPendingDisc(x)
                 /\ x \in Dlcb /\ x.state = d.state /\ x.sig_xmit_q = d.sig_xmit_q
                 /\ x.next_tx_seq = d.next_tx_seq /\ x.sent_ack_seq = d.sent_ack_seq
                 /\ x.rcvd_ack_seq = qa[1].nr /\ x.next_rx_seq = d.next_rx_seq
                 /\ x.i_xmit_q = d.i_xmit_q
    BY <1>1, <1>4, <2>2, ProcRrRnrIs
  <2> HIDE DEF e
  <2>4. Keeps(d, x)
    BY <2>1, <2>3 DEF Keeps, SameNumbers, Early
  <2>5. Paired(x, b, Tail(qa), x.sig_xmit_q, wa, wb)
    BY <1>1, <2>1, <2>3, <2>4, KeepsPaired
  <2>6. PICK out : Moves(x, e, out)
    BY <2>3, CheckPendingDiscMoves
  <2>7. Ends(x, b, Tail(qa), x.sig_xmit_q, wa, wb)
    BY <1>1, <2>3 DEF Ends
  <2>8. e \in Dlcb /\ Paired(e, b, Tail(qa), e.sig_xmit_q, wa, wb) /\ Signals(e.sig_xmit_q)
    BY <2>3, <2>5, <2>6, <2>7, MovesPaired
  <2> QED
    BY <2>8 DEF Handles, e
<1> HIDE DEF e
<1>5. CASE Left(d, b, qa, qb) /\ Flows(d, b, qa, qb, wa, wb) /\ ~Ack(qa[1])
  <2> DEFINE q == Append(qb, NotHere)
  <2>1. Leaving(d, qa) /\ b.state = "CONNECTED" /\ AllInfo(qa) /\ Parting(qb)
    BY <1>5 DEF Left
  <2>2. /\ qa[1].type = "I" /\ AllInfo(Tail(qa)) /\ HasI(qa) /\ Leaving(d, Tail(qa))
        /\ (Has(Tail(qa), NotHere) => Has(qa, NotHere))
    BY <1>1, <1>5, <2>1, TailParts DEF Info, Ack, Leaving
  <2>3. Parting(q) /\ q = qb \o <<NotHere>> /\ q \in Seq(PDU) /\ ~Info(NotHere) /\ NotHere \in PDU
        /\ NotHere.type # "I"
    BY <1>1, <2>1, PartingSteps, InfoMore, Kinds
  <2> HIDE DEF q
  <2>4. /\ Numbers(d, b, qa, wb) /\ Carries(d, b, qa, qb)
        /\ Numbers(b, d, qb, wa) /\ Carries(b, d, qb, qa)
    BY <1>5 DEF Flows, Flow
  <2>5. Numbers(d, b, Tail(qa), wb)
    BY <1>1, <2>4, NumbersHandle
  <2>6. Carries(d, b, Tail(qa), q)
    <3>1. Carries(d, b, qa, q)
      BY <1>1, <2>3, <2>4, CarriesMore DEF q
    <3> QED
      BY <2>1, <3>1 DEF Carries
  <2>7. Numbers(b, d, q, wa)
    <3>1. <<NotHere>> \in Seq(PDU) /\ \A i \in DOMAIN <<NotHere>> : ~Info(<<NotHere>>[i])
      BY <2>3
    <3> QED
      BY <1>1, <2>3, <2>4, <3>1, NumbersAck
  <2>8. Carries(b, d, q, Tail(qa))
    BY <2>2, <2>4 DEF Carries
  <2>9. Flows(n, b, Tail(qa), q, wa, wb)
    <3>1. Flows(d, b, Tail(qa), q, wa, wb)
      BY <2>5, <2>6, <2>7, <2>8 DEF Flows, Flow
    <3> QED
      BY <1>2, <3>1, SameFlow
  <2>10. Leaving(n, Tail(qa))
    BY <1>2, <2>2 DEF Leaving, SameNumbers
  <2>11. Left(n, b, Tail(qa), q)
    BY <2>1, <2>2, <2>3, <2>10 DEF Left
  <2>12. Signals(q)
    <3>1. Has(qb, Disc)
      <4>1. PICK m \in 0..Len(qb) : m < Len(qb) /\ qb[m + 1] = Disc
        BY <2>1 DEF Parting
      <4>2. m + 1 \in DOMAIN qb
        BY <1>1, <4>1
      <4> QED
        BY <4>1, <4>2 DEF Has
    <3> QED
      BY <1>1, <2>3, <3>1, SignalsMore DEF q
  <2> QED
    BY <1>2, <1>3, <2>2, <2>9, <2>11, <2>12 DEF Handles, Paired, Half, Open, e, q
<1>6. /\ <<Disc>> \in Seq(PDU) /\ Tail(<<Disc>>) = <<>> /\ <<Disc>>[1] = Disc
      /\ <<Disc, Closed>> \in Seq(PDU) /\ Tail(<<Disc, Closed>>) = <<Closed>>
      /\ <<Disc, Closed>>[1] = Disc /\ Append(<<>>, Closed) = <<Closed>>
      /\ Append(<<Disc>>, Closed) = <<Disc, Closed>>
      /\ <<Closed>> \in Seq(PDU) /\ Tail(<<Closed>>) = <<>> /\ <<Closed>>[1] = Closed
      /\ <<Closed, Connect>> \in Seq(PDU) /\ Tail(<<Closed, Connect>>) = <<Connect>>
      /\ <<Closed, Connect>>[1] = Closed
      /\ Disc # Closed /\ ~Info(Closed) /\ Closed \in PDU /\ Closed.type # "I" /\ Closed # NotHere
  BY Kinds, Short
<1>7. \A w \in Seq(PDU) : Acks(qa, w) /\ ~Ack(qa[1]) => qa = w
  BY <1>1, AcksSteps
<1>8. \A g, q : Leaving(g, q) => Leaving(g, <<>>)
  BY DEF Leaving
<1>9. CASE (BothLeft(d, b, qa, qb) \/ BothLeft(b, d, qb, qa)) /\ ~Ack(qa[1])
  <2>1. Leaving(d, qa) /\ Leaving(b, qb)
    BY <1>9 DEF BothLeft
  <2>2. \/ qa = <<Disc>> /\ Acks(qb, <<Disc>>)
        \/ qa = <<Disc, Closed>> /\ qb = <<>>
        \/ qa = <<Closed>> /\ qb = <<Closed>>
    BY <1>6, <1>7, <1>9 DEF BothLeft
  <2>3. Leaving(c, <<>>) /\ Leaving(c, <<Closed>>)
    <3>1. Leaving(c, <<>>)
      BY <1>2, <1>8, <2>1 DEF Leaving, SameNumbers
    <3>2. <<>> \in Seq(PDU)
      OBVIOUS
    <3> QED
      BY <1>6, <3>1, <3>2, LeavingMore
  <2>4. Leaving(b, Append(qb, Closed))
    BY <1>1, <1>6, <2>1, LeavingMore
  <2>5. Signals(Append(qb, Closed))
    BY <1>1, <1>6, SignalsMore
  <2>6. CASE qa = <<Disc>> /\ Acks(qb, <<Disc>>)
    <3>1. Acks(Append(qb, Closed), <<Disc, Closed>>)
      <4>1. \A q, w \in Seq(PDU) : Acks(q, w) => Acks(Append(q, Closed), Append(w, Closed))
        BY <1>6, AcksSteps
      <4>2. Acks(Append(qb, Closed), Append(<<Disc>>, Closed))
        BY <1>1, <1>6, <2>6, <4>1, Zenon
      <4> QED
        BY <1>6, <4>2
    <3>2. BothLeft(c, b, <<>>, Append(qb, Closed))
      BY <2>3, <2>4, <3>1 DEF BothLeft
    <3> QED
      BY <1>2, <1>3, <1>6, <2>5, <2>6, <3>2 DEF Handles, Paired, Half, e
  <2>7. CASE qa = <<Disc, Closed>> /\ qb = <<>>
    <3>1. BothLeft(c, b, <<Closed>>, <<Closed>>)
      BY <1>6, <2>3, <2>4, <2>7 DEF BothLeft
    <3> QED
      BY <1>2, <1>3, <1>6, <2>5, <2>7, <3>1 DEF Handles, Paired, Half, e
  <2>8. CASE qa = <<Closed>> /\ qb = <<Closed>>
    <3>1. Acks(qb, <<Closed>>)
      <4>1. <<>> \in Seq(PDU) /\ \A i \in DOMAIN <<>> : Ack(<<>>[i])
        OBVIOUS
      <4> QED
        BY <1>6, <2>8, <4>1, AcksOnly
    <3>2. All(<<>>, NotHere)
      BY DEF All
    <3>3. Answered(b, f, qb, <<>>)
      BY <1>2, <2>1, <3>1, <3>2 DEF Answered
    <3> QED
      BY <1>2, <1>3, <1>6, <2>8, <3>3 DEF Handles, Paired, Half, e
  <2> QED
    BY <2>2, <2>6, <2>7, <2>8
<1>10. CASE Answered(d, b, qa, qb) /\ ~Ack(qa[1])
  <2>1. /\ Blank(b)
        /\ \/ b.state = "IDLE" /\ qa = <<Closed>> /\ All(qb, NotHere)
           \/ b.state = "W4_REMOTE_RESP" /\ qa = <<Closed, Connect>> /\ qb = <<>>
    BY <1>6, <1>7, <1>10 DEF Answered
  <2>2. CASE b.state = "IDLE" /\ qa = <<Closed>> /\ All(qb, NotHere)
    <3>1. qb = <<>>
      <4> SUFFICES ASSUME qb # <<>> PROVE FALSE
        OBVIOUS
      <4>1. 1 \in DOMAIN qb
        BY <1>1, TailParts
      <4>2. Has(qb, NotHere)
        BY <2>2, <4>1 DEF All, Has
      <4>3. Has(qb, Disc)
        BY <4>2 DEF Signals
      <4> QED
        BY <2>2, <4>3, Kinds DEF All, Has
    <3>2. Setup(f, b, <<>>, <<>>)
      BY <1>2, <2>1, <2>2, <3>1 DEF Setup
    <3> QED
      BY <1>2, <1>3, <1>6, <2>2, <3>1, <3>2 DEF Handles, Paired, Half, e
  <2>3. CASE b.state = "W4_REMOTE_RESP" /\ qa = <<Closed, Connect>> /\ qb = <<>>
    <3>1. Setup(b, f, <<>>, <<Connect>>)
      BY <1>2, <2>1, <2>3 DEF Setup
    <3> QED
      BY <1>2, <1>3, <1>6, <2>3, <3>1 DEF Handles, Paired, Half, e
  <2> QED
    BY <2>1, <2>2, <2>3
<1> QED
  BY <1>4, <1>5, <1>9, <1>10, HandlePhases DEF e

\* In any state.
LEMMA Handled ==
  ASSUME NEW s \in Station, NEW d, NEW b, NEW qa, NEW wa, NEW wb,
         Ends(d, b, qa, d.sig_xmit_q, wa, wb), wa = Rw[s],
         Paired(d, b, qa, d.sig_xmit_q, wa, wb), Signals(d.sig_xmit_q), qa # <<>>
  PROVE  /\ Handles(d, Process(s, d, qa[1]), b, qa, wa, wb)
         /\ d.state = "CONNECTED" /\ Process(s, d, qa[1]).state = "IDLE"
              => b.i_xmit_q = <<>> /\ ~HasI(qa)
BY HandlesIdle, HandlesWaiting, HandlesConnected, HandlesLeft, HandlePhases
-------------------------------------------------------------------------------
(* The steps of a pair.                                                      *)

\* A step of station s keeps the pair; a connection that ends leaves nothing to come.
Keeping(s) ==
  /\ Pair' /\ dl'[Peer(s)] = dl[Peer(s)]
  /\ dl[s].state = "CONNECTED" /\ dl'[s].state = "IDLE"
       => dl[Peer(s)].i_xmit_q = <<>> /\ ~HasI(Underway(s))

\* What a station becomes makes a match with its peer.
LEMMA MatchedStep ==
  ASSUME IInv, NEW s \in Station, NEW d, dl' = [dl EXCEPT ![s] = d],
         Matched(s, d, dl[Peer(s)], link'),
         dl[s].state = "CONNECTED" /\ d.state = "IDLE"
           => dl[Peer(s)].i_xmit_q = <<>> /\ ~HasI(Underway(s))
  PROVE  Keeping(s)
<1>1. dl \in [Station -> Dlcb] /\ Peer(s) \in Station /\ Peer(s) # s
  BY IInvSound, Peers
<1>2. dl'[s] = d /\ dl'[Peer(s)] = dl[Peer(s)]
  BY <1>1
<1>3. Pair'
  BY <1>1, MatchedPair
<1> QED
  BY <1>2, <1>3 DEF Keeping

\* It changes without its peer noticing.
LEMMA KeepsStep ==
  ASSUME IInv, Pair, Undisturbed, NEW s \in Station, NEW e, Keeps(dl[s], e),
         e.sig_xmit_q = dl[s].sig_xmit_q, dl' = [dl EXCEPT ![s] = e], link' = link
  PROVE  Keeping(s)
<1>1. Matched(s, dl[s], dl[Peer(s)], link) /\ dl[s] \in Dlcb /\ dl[Peer(s)] \in Dlcb /\ link \in Link
  BY PairMatched, IInvSound
<1>2. Moves(dl[s], e, <<>>) /\ e.state = dl[s].state
  BY <1>1, Stays DEF Keeps
<1>3. Matched(s, e, dl[Peer(s)], link)
  BY <1>1, <1>2, MovesMatched
<1> QED
  BY <1>2, <1>3, MatchedStep

\* It changes, and llcp_link_check_send_data may send.
LEMMA UpdateKeeps ==
  ASSUME IInv, NEW s \in Station, NEW d, NEW l \in Link, Sound(s, d),
         Matched(s, d, dl[Peer(s)], l), Update(s, d, l),
         d.state = "IDLE" => dl[s].state # "CONNECTED"
  PROVE  Keeping(s)
<1>1. PICK o \in CheckSend(s, d, l) : dl' = [dl EXCEPT ![s] = o.d] /\ link' = o.link
  BY DEF Update
<1>2. o.d \in Dlcb /\ d \in Dlcb /\ dl[Peer(s)] \in Dlcb
  <2>1. Peer(s) \in Station
    BY Peers
  <2> QED
    BY <2>1, CheckSendSound, IInvSound DEF Sound
<1>3. /\ Matched(s, o.d, dl[Peer(s)], o.link)
      /\ d.state \in Early \/ o.d.state \in Early => o.d.state = d.state
  BY <1>2, CheckSendMatched
<1> QED
  BY <1>1, <1>3, MatchedStep DEF Early

\* A signalling PDU is queued behind what the peer has yet to handle.
LEMMA QueuedMatched ==
  ASSUME NEW s \in Station, NEW d \in Dlcb, NEW b \in Dlcb, NEW l \in Link, Matched(s, d, b, l),
         NEW e \in Dlcb, NEW p \in PDU, p.type # "I", p # NotHere,
         e.sig_xmit_q = Append(d.sig_xmit_q, p),
         Paired(e, b, Ahead(l, s) \o b.sig_xmit_q, Append(Ahead(l, Peer(s)) \o d.sig_xmit_q, p),
                Rw[s], Rw[Peer(s)])
  PROVE  Matched(s, e, b, l)
<1> DEFINE qa == Ahead(l, s) \o b.sig_xmit_q
           x == Ahead(l, Peer(s))
           qb == x \o d.sig_xmit_q
<1>1. x \in Seq(PDU) /\ d.sig_xmit_q \in Seq(PDU)
  <2>1. <<>> \in Seq(PDU)
    OBVIOUS
  <2> QED
    BY <2>1, LinkFields, Fields DEF Ahead
<1>2. x \o e.sig_xmit_q = Append(qb, p) /\ Append(qb, p) \in Seq(PDU)
  <2>1. \A q, r \in Seq(PDU) : q \o Append(r, p) = Append(q \o r, p) /\ Append(q \o r, p) \in Seq(PDU)
    OBVIOUS
  <2>2. x \o Append(d.sig_xmit_q, p) = Append(qb, p) /\ Append(qb, p) \in Seq(PDU)
    BY <1>1, <2>1, Zenon
  <2> QED
    BY <2>2
<1>3. Ends(d, b, qa, qb, Rw[s], Rw[Peer(s)]) /\ Signals(d.sig_xmit_q) /\ Signals(b.sig_xmit_q)
  BY DEF Matched
<1>4. Signals(e.sig_xmit_q)
  BY <1>1, <1>3, SignalsMore
<1>5. Ends(e, b, qa, Append(qb, p), Rw[s], Rw[Peer(s)])
  BY <1>2, <1>3 DEF Ends
<1> HIDE DEF x
<1> QED
  BY <1>2, <1>3, <1>4, <1>5 DEF Matched, x

\* What a station has received is handled PDU by PDU.
LEMMA ReceiveKeeps ==
  ASSUME IInv, Pair, Undisturbed, NEW s \in Station, ReceivePdu(s)
  PROVE  Keeping(s)
<1> DEFINE d == dl[s]
           b == dl[Peer(s)]
           pdus == link.pdus
           sb == b.sig_xmit_q
           qa == pdus \o sb
           e == Process(s, d, qa[1])
<1>1. /\ Matched(s, d, b, link) /\ d \in Dlcb /\ b \in Dlcb /\ link \in Link /\ Sound(s, d)
      /\ Peer(s) \in Station /\ Peer(s) # s
  BY PairMatched, IInvSound, Peers
<1>2. link.at = s /\ pdus # <<>> /\ pdus \in Seq(PDU) /\ sb \in Seq(PDU) /\ d.sig_xmit_q \in Seq(PDU)
  BY <1>1, LinkFields, Fields DEF ReceivePdu
<1>3. Ahead(link, s) = pdus /\ Ahead(link, Peer(s)) = <<>> /\ <<>> \o d.sig_xmit_q = d.sig_xmit_q
  BY <1>1, <1>2 DEF Ahead
<1>4. /\ Ends(d, b, qa, d.sig_xmit_q, Rw[s], Rw[Peer(s)])
      /\ Paired(d, b, qa, d.sig_xmit_q, Rw[s], Rw[Peer(s)])
      /\ Signals(d.sig_xmit_q) /\ Signals(sb)
  BY <1>1, <1>3 DEF Matched
<1>5. /\ Tail(qa) = Tail(pdus) \o sb /\ qa[1] = pdus[1] /\ qa # <<>> /\ Tail(pdus) \in Seq(PDU)
      /\ Head(pdus) = pdus[1]
  <2>1. \A q, r \in Seq(PDU) : q # <<>> => /\ Tail(q \o r) = Tail(q) \o r /\ (q \o r)[1] = q[1]
                                           /\ q \o r # <<>> /\ Tail(q) \in Seq(PDU)
    BY InfoParts
  <2>2. Head(pdus) = pdus[1]
    BY <1>2, TailParts
  <2> QED
    BY <1>2, <2>1, <2>2
<1>6. dl' = [dl EXCEPT ![s] = e] /\ link' = [link EXCEPT !.pdus = Tail(pdus)]
  BY <1>5 DEF ReceivePdu
<1>7. /\ Handles(d, e, b, qa, Rw[s], Rw[Peer(s)])
      /\ d.state = "CONNECTED" /\ e.state = "IDLE" => b.i_xmit_q = <<>> /\ ~HasI(qa)
  BY <1>4, <1>5, Handled
<1>8. Ahead(link', s) = Tail(pdus) /\ Ahead(link', Peer(s)) = <<>>
  BY <1>1, <1>2, <1>6 DEF Ahead, Link
<1>9. HasI(pdus) => HasI(qa)
  <2>1. \A q, r \in Seq(PDU) : HasI(q) => HasI(q \o r)
    BY DEF HasI
  <2> QED
    BY <1>2, <2>1
<1> HIDE DEF qa, e
<1>10. e \in Dlcb /\ Paired(e, b, Tail(qa), e.sig_xmit_q, Rw[s], Rw[Peer(s)]) /\ Signals(e.sig_xmit_q)
  BY <1>7 DEF Handles
<1>11. e.sig_xmit_q \in Seq(PDU) /\ Tail(qa) \in Seq(PDU) /\ <<>> \o e.sig_xmit_q = e.sig_xmit_q
  <2>1. e.sig_xmit_q \in Seq(PDU)
    BY <1>10, Fields
  <2>2. Tail(qa) \in Seq(PDU)
    BY <1>4, <1>5, TailParts DEF Ends
  <2> QED
    BY <2>1, <2>2
<1>12. Ends(e, b, Tail(qa), e.sig_xmit_q, Rw[s], Rw[Peer(s)])
  BY <1>4, <1>10, <1>11 DEF Ends
<1>13. Matched(s, e, b, link')
  BY <1>4, <1>5, <1>8, <1>10, <1>11, <1>12 DEF Matched
<1>14. Underway(s) = pdus
  BY <1>2 DEF Underway
<1> QED
  BY <1>6, <1>7, <1>9, <1>13, <1>14, MatchedStep

\* A frame has been handled, and the turn is the station's.
LEMMA TurnsKeep ==
  ASSUME IInv, Pair, Undisturbed, NEW s \in Station
  PROVE  EndRx(s) \/ SymmTimeout(s) => Keeping(s)
<1> DEFINE d == dl[s]
           b == dl[Peer(s)]
<1>1. /\ Matched(s, d, b, link) /\ d \in Dlcb /\ b \in Dlcb /\ link \in Link /\ Sound(s, d)
      /\ Peer(s) \in Station /\ Peer(s) # s /\ dl \in [Station -> Dlcb]
  BY PairMatched, IInvSound, Peers
<1>2. <<>> \in Seq(PDU) /\ Turn(s) \in Link
  <2>1. <<>> \in Seq(PDU)
    OBVIOUS
  <2> QED
    BY <2>1, PassType
<1>3. ASSUME NEW l, NEW m, \A t \in Station : Ahead(l, t) = Ahead(m, t), Matched(s, d, b, l)
      PROVE  Matched(s, d, b, m)
  BY <1>1, <1>3 DEF Matched
<1>4. ASSUME EndRx(s) PROVE Keeping(s)
  <2>1. link = [Turn(s) EXCEPT !.mode = "rx"] /\ Update(s, d, Turn(s))
    BY <1>4 DEF EndRx
  <2>2. \A t \in Station : Ahead(link, t) = Ahead(Turn(s), t)
    BY <2>1 DEF Ahead, Turn
  <2>3. Matched(s, d, b, Turn(s))
    BY <1>1, <1>3, <2>2
  <2> QED
    BY <1>1, <1>2, <2>1, <2>3, UpdateKeeps
<1>5. ASSUME SymmTimeout(s) PROVE Keeping(s)
  <2>1. link = Turn(s) /\ link' = Pass(s, <<>>) /\ dl' = dl
    BY <1>5 DEF SymmTimeout
  <2>2. \A t \in Station : Ahead(link, t) = Ahead(link', t)
    BY <2>1 DEF Ahead, Turn, Pass
  <2>3. Matched(s, d, b, link')
    BY <1>1, <1>3, <2>2
  <2>4. dl' = [dl EXCEPT ![s] = d]
    BY <1>1, <2>1
  <2> QED
    BY <2>3, <2>4, MatchedStep
<1> QED
  BY <1>4, <1>5
-------------------------------------------------------------------------------
(* The application of a pair's station.                                      *)

\* Before a connection, and after one, the control block is blank.
LEMMA EarlyBlank ==
  ASSUME NEW d, NEW b, NEW qa, NEW qb, NEW wa, NEW wb, Paired(d, b, qa, qb, wa, wb),
         d.state \in Early
  PROVE  Blank(d)
<1>1. CASE Setup(d, b, qa, qb) \/ Setup(b, d, qb, qa)
  BY <1>1 DEF Setup
<1>2. CASE Open(d, b, qa, qb) \/ Open(b, d, qb, qa)
  BY <1>2 DEF Open, Joined, Accepted, Fleeting, Left, Leaving, Early
<1>3. CASE \/ BothLeft(d, b, qa, qb) \/ BothLeft(b, d, qb, qa)
           \/ Answered(d, b, qa, qb) \/ Answered(b, d, qb, qa)
  BY <1>3 DEF BothLeft, Answered, Leaving, Early
<1> QED
  BY <1>1, <1>2, <1>3 DEF Paired, Half

\* Of a station without a connection that handled its frame the phase is one of these.
LEMMA IdlePhases ==
  ASSUME NEW d, NEW b, NEW qa \in Seq(PDU), NEW qb, NEW wa, NEW wb, Paired(d, b, qa, qb, wa, wb),
         d.state = "IDLE", Signals(qa)
  PROVE  \/ Blank(b) /\ b.state = "IDLE" /\ qa = <<>> /\ qb = <<>>
         \/ Blank(b) /\ b.state = "W4_REMOTE_RESP" /\ qa = <<>> /\ qb = <<Rejected>>
         \/ Blank(b) /\ b.state = "W4_REMOTE_RESP" /\ qa = <<Connect>> /\ qb = <<>>
         \/ Leaving(b, qb) /\ Acks(qb, <<Closed>>) /\ qa = <<>>
<1>1. CASE Setup(d, b, qa, qb) \/ Setup(b, d, qb, qa)
  BY <1>1 DEF Setup
<1>2. CASE Open(d, b, qa, qb) \/ Open(b, d, qb, qa)
  BY <1>2 DEF Open, Joined, Accepted, Fleeting, Left, Leaving
<1>3. CASE BothLeft(d, b, qa, qb) \/ BothLeft(b, d, qb, qa) \/ Answered(d, b, qa, qb)
  BY <1>3 DEF BothLeft, Answered, Leaving
<1>4. CASE Answered(b, d, qb, qa)
  <2>1. Leaving(b, qb) /\ Acks(qb, <<Closed>>) /\ All(qa, NotHere)
    BY <1>4 DEF Answered
  <2>2. qa = <<>>
    <3> SUFFICES ASSUME qa # <<>> PROVE FALSE
      OBVIOUS
    <3>1. 1 \in DOMAIN qa
      BY TailParts
    <3>2. Has(qa, NotHere)
      BY <2>1, <3>1 DEF All, Has
    <3>3. Has(qa, Disc)
      BY <3>2 DEF Signals
    <3> QED
      BY <2>1, <3>3, Kinds DEF All, Has
  <2> QED
    BY <2>1, <2>2
<1> QED
  BY <1>1, <1>2, <1>3, <1>4 DEF Paired, Half

\* LLCP_ConnectReq, out of no callback.
LEMMA ConnectReqKeeps ==
  ASSUME IInv, Pair, Undisturbed, NEW s \in Station, ConnectReq(s)
  PROVE  Keeping(s)
<1> DEFINE d == dl[s]
           b == dl[Peer(s)]
           f == Deallocate(d)
           w == [f EXCEPT !.state = "W4_REMOTE_RESP"]
           e == Queue(w, Connect)
           qa == Ahead(link, s) \o b.sig_xmit_q
           qb == Ahead(link, Peer(s)) \o d.sig_xmit_q
           r == Append(qb, Connect)
<1>1. /\ Matched(s, d, b, link) /\ d \in Dlcb /\ b \in Dlcb /\ link \in Link /\ Sound(s, d)
      /\ Peer(s) \in Station
  BY PairMatched, IInvSound, Peers
<1>2. d.state = "IDLE" /\ Underway(s) = <<>> /\ Update(s, e, link)
  BY DEF ConnectReq, Undisturbed, Connect
<1>3. /\ f \in Dlcb /\ f.sig_xmit_q = d.sig_xmit_q /\ Blank(f)
      /\ Sound(s, f) /\ f.i_rx_q = <<>>
  BY <1>1, DeallocateIs, DeallocateSound
<1> HIDE DEF f
<1>4. /\ w \in Dlcb /\ w.sig_xmit_q = d.sig_xmit_q /\ w.state = "W4_REMOTE_RESP" /\ Blank(w)
      /\ Sound(s, w)
  BY <1>3, StateIs, StateSound DEF State
<1> HIDE DEF w
<1>5. /\ e \in Dlcb /\ e.sig_xmit_q = Append(d.sig_xmit_q, Connect) /\ e.state = "W4_REMOTE_RESP"
      /\ Blank(e) /\ Sound(s, e)
  <2>1. Connect \in PDU
    BY Kinds
  <2>2. /\ e \in Dlcb /\ e.sig_xmit_q = Append(w.sig_xmit_q, Connect) /\ e.state = w.state
        /\ (Blank(w) => Blank(e))
    BY <1>4, <2>1, QueueIs
  <2>3. Sound(s, e)
    BY <1>4, <2>1, QueueSound
  <2> QED
    BY <1>4, <2>2, <2>3
<1> HIDE DEF e
<1>6. /\ Ends(d, b, qa, qb, Rw[s], Rw[Peer(s)]) /\ Paired(d, b, qa, qb, Rw[s], Rw[Peer(s)])
      /\ Signals(b.sig_xmit_q)
  BY <1>1 DEF Matched
<1>7. Signals(qa) /\ qa \in Seq(PDU) /\ qb \in Seq(PDU)
  <2>1. Ahead(link, s) = <<>>
    BY <1>2 DEF Ahead, Underway
  <2>2. b.sig_xmit_q \in Seq(PDU)
    BY <1>1, Fields
  <2>3. <<>> \o b.sig_xmit_q = b.sig_xmit_q
    BY <2>2
  <2> QED
    BY <1>6, <2>1, <2>3 DEF Ends
<1> HIDE DEF qa, qb
<1>8. \/ Blank(b) /\ b.state = "IDLE" /\ qa = <<>> /\ qb = <<>>
      \/ Blank(b) /\ b.state = "W4_REMOTE_RESP" /\ qa = <<>> /\ qb = <<Rejected>>
      \/ Blank(b) /\ b.state = "W4_REMOTE_RESP" /\ qa = <<Connect>> /\ qb = <<>>
      \/ Leaving(b, qb) /\ Acks(qb, <<Closed>>) /\ qa = <<>>
  BY <1>2, <1>6, <1>7, IdlePhases
<1>9. Append(<<>>, Connect) = <<Connect>> /\ Append(<<Rejected>>, Connect) = <<Rejected, Connect>>
      /\ Append(<<Closed>>, Connect) = <<Closed, Connect>> /\ <<Closed>> \in Seq(PDU)
      /\ Connect \in PDU /\ ~Info(Connect) /\ Connect.type # "I" /\ Connect # NotHere
  BY Kinds, Short
<1>10. Paired(e, b, qa, r, Rw[s], Rw[Peer(s)])
  <2>1. CASE Blank(b) /\ b.state = "IDLE" /\ qa = <<>> /\ qb = <<>>
    <3>1. Setup(e, b, qa, r)
      BY <1>5, <1>9, <2>1 DEF Setup
    <3> QED
      BY <3>1 DEF Paired, Half
  <2>2. CASE Blank(b) /\ b.state = "W4_REMOTE_RESP" /\ qa = <<>> /\ qb = <<Rejected>>
    <3>1. Setup(e, b, qa, r)
      BY <1>5, <1>9, <2>2 DEF Setup
    <3> QED
      BY <3>1 DEF Paired, Half
  <2>3. CASE Blank(b) /\ b.state = "W4_REMOTE_RESP" /\ qa = <<Connect>> /\ qb = <<>>
    <3>1. Setup(e, b, qa, r)
      BY <1>5, <1>9, <2>3 DEF Setup
    <3> QED
      BY <3>1 DEF Paired, Half
  <2>4. CASE Leaving(b, qb) /\ Acks(qb, <<Closed>>) /\ qa = <<>>
    <3>1. Leaving(b, r)
      BY <1>7, <1>9, <2>4, LeavingMore
    <3>2. Acks(r, Append(<<Closed>>, Connect))
      <4>1. \A q, t \in Seq(PDU) : Acks(q, t) => Acks(Append(q, Connect), Append(t, Connect))
        BY <1>9, AcksSteps
      <4> QED
        BY <1>7, <1>9, <2>4, <4>1, Zenon
    <3>3. Answered(b, e, r, qa)
      BY <1>5, <1>9, <2>4, <3>1, <3>2 DEF Answered
    <3> QED
      BY <3>3 DEF Paired, Half
  <2> QED
    BY <1>8, <2>1, <2>2, <2>3, <2>4
<1>11. Matched(s, e, b, link)
  BY <1>1, <1>5, <1>9, <1>10, QueuedMatched DEF qa, qb
<1> QED
  BY <1>1, <1>2, <1>5, <1>11, UpdateKeeps

\* LLCP_ConnectCfm and LLCP_ConnectReject: nothing is under way.
LEMMA ConnectAnswerKeeps ==
  ASSUME IInv, Pair, Undisturbed, NEW s \in Station
  PROVE  ConnectCfm(s) \/ ConnectReject(s) => Keeping(s)
<1> SUFFICES ASSUME ConnectCfm(s) \/ ConnectReject(s) PROVE Keeping(s)
  OBVIOUS
<1> DEFINE d == dl[s]
           b == dl[Peer(s)]
           qa == Ahead(link, s) \o b.sig_xmit_q
           qb == Ahead(link, Peer(s)) \o d.sig_xmit_q
           c == [d EXCEPT !.state = "CONNECTED"]
           e == Queue(c, Cc)
           r == Queue(d, Rejected)
           f == Deallocate(r)
<1>1. /\ Matched(s, d, b, link) /\ d \in Dlcb /\ b \in Dlcb /\ link \in Link /\ Sound(s, d)
      /\ Peer(s) \in Station
  BY PairMatched, IInvSound, Peers
<1>2. d.state = "W4_LOCAL_RESP"
  BY DEF ConnectCfm, ConnectReject
<1>3. Ends(d, b, qa, qb, Rw[s], Rw[Peer(s)]) /\ Paired(d, b, qa, qb, Rw[s], Rw[Peer(s)])
  BY <1>1 DEF Matched
<1> HIDE DEF qa, qb
<1>4. /\ Blank(d) /\ Blank(b) /\ b.state = "W4_REMOTE_RESP" /\ qa = <<>> /\ qb = <<>>
  <2>1. CASE Setup(d, b, qa, qb) \/ Setup(b, d, qb, qa)
    BY <1>2, <2>1 DEF Setup
  <2>2. CASE Open(d, b, qa, qb) \/ Open(b, d, qb, qa)
    BY <1>2, <2>2 DEF Open, Joined, Accepted, Fleeting, Left, Leaving
  <2>3. CASE \/ BothLeft(d, b, qa, qb) \/ BothLeft(b, d, qb, qa)
             \/ Answered(d, b, qa, qb) \/ Answered(b, d, qb, qa)
    BY <1>2, <2>3 DEF BothLeft, Answered, Leaving
  <2> QED
    BY <1>3, <2>1, <2>2, <2>3 DEF Paired, Half
<1>5. /\ Cc \in PDU /\ Cc.type # "I" /\ Cc # NotHere
      /\ Rejected \in PDU /\ Rejected.type # "I" /\ Rejected # NotHere
      /\ Append(<<>>, Cc) = <<Cc>> /\ Append(<<>>, Rejected) = <<Rejected>>
      /\ <<Cc>> \in Seq(PDU) /\ Tail(<<Cc>>) = <<>> /\ <<Cc>>[1] = Cc /\ <<Cc>> # <<>>
      /\ <<>> \in Seq(PDU)
  BY Kinds, Short
<1>6. ASSUME ConnectCfm(s) PROVE Keeping(s)
  <2>1. /\ c \in Dlcb /\ c.sig_xmit_q = d.sig_xmit_q /\ c.state = "CONNECTED" /\ SameNumbers(d, c)
    BY <1>1, StateIs DEF State
  <2>2. Sound(s, c)
    BY <1>1, <1>2, StateSound DEF State, Sound, Notified
  <2> HIDE DEF c
  <2>3. /\ e \in Dlcb /\ e.sig_xmit_q = Append(d.sig_xmit_q, Cc) /\ e.state = "CONNECTED"
        /\ SameNumbers(c, e) /\ Sound(s, e)
    BY <1>5, <2>1, <2>2, QueueIs, QueueSound
  <2>4. Update(s, e, link)
    BY <1>6 DEF ConnectCfm, Cc, c
  <2> HIDE DEF e
  <2>5. /\ e.next_tx_seq = 0 /\ e.rcvd_ack_seq = 0 /\ e.next_rx_seq = 0 /\ e.sent_ack_seq = 0
        /\ b.next_tx_seq = 0 /\ b.rcvd_ack_seq = 0 /\ b.next_rx_seq = 0 /\ b.sent_ack_seq = 0
    BY <1>4, <2>1, <2>3, BlankFields DEF SameNumbers
  <2>6. ~HasI(<<>>) /\ ~HasI(<<Cc>>) /\ AllInfo(<<>>)
    BY <1>5 DEF HasI, AllInfo
  <2>7. \A w \in Seqno : Numbers(e, b, <<>>, w) /\ Numbers(b, e, <<Cc>>, w)
    <3>1. Minus(0, 0) = 0 /\ \A w \in Seqno : 0 <= w
      BY SeqModAssumption, MinusIs DEF Seqno
    <3>2. \A i \in DOMAIN <<Cc>> : ~Info(<<Cc>>[i])
      BY <1>5, Kinds
    <3> QED
      BY <2>5, <3>1, <3>2 DEF Numbers, From
  <2>8. Carries(e, b, <<>>, <<Cc>>) /\ Carries(b, e, <<Cc>>, <<>>)
    <3>1. Line(<<>>, 0, 0, 0) /\ Line(<<Cc>>, 0, 0, 0) /\ (0 + 0) % SeqMod = 0
      <4>1. Line(<<>>, 0, 0, 0) /\ Line(<<Cc>>, 0, 0, 0)
        BY <1>5, <2>6, NoLine, Zenon
      <4>2. (0 + 0) % SeqMod = 0
        BY SeqModAssumption
      <4> QED
        BY <4>1, <4>2
    <3>2. 0 \in 0..Len(<<Cc>>) /\ 0 \in 0..Len(<<>>)
      OBVIOUS
    <3> QED
      BY <1>4, <2>3, <2>5, <3>1, <3>2 DEF Carries
  <2>9. Flows(e, b, <<>>, <<Cc>>, Rw[s], Rw[Peer(s)])
    BY <1>3, <2>7, <2>8 DEF Flows, Flow, Ends
  <2>10. Accepted(e, b, <<>>, <<Cc>>)
    BY <1>4, <1>5, <2>3, <2>6 DEF Accepted
  <2>11. Paired(e, b, qa, Append(qb, Cc), Rw[s], Rw[Peer(s)])
    BY <1>4, <1>5, <2>9, <2>10 DEF Paired, Half, Open
  <2>12. Matched(s, e, b, link)
    BY <1>1, <1>5, <2>3, <2>11, QueuedMatched DEF qa, qb
  <2> QED
    BY <1>1, <2>3, <2>4, <2>12, UpdateKeeps
<1>7. ASSUME ConnectReject(s) PROVE Keeping(s)
  <2>1. /\ r \in Dlcb /\ r.sig_xmit_q = Append(d.sig_xmit_q, Rejected) /\ Sound(s, r)
    BY <1>1, <1>5, QueueIs, QueueSound
  <2>2. Update(s, f, link)
    BY <1>7 DEF ConnectReject, Reject, Rejected
  <2> HIDE DEF r
  <2>3. /\ f \in Dlcb /\ f.sig_xmit_q = Append(d.sig_xmit_q, Rejected) /\ f.state = "IDLE" /\ Blank(f)
        /\ Sound(s, f)
    BY <2>1, DeallocateIs, DeallocateSound
  <2> HIDE DEF f
  <2>4. Setup(f, b, qa, Append(qb, Rejected))
    BY <1>4, <1>5, <2>3 DEF Setup
  <2>5. Paired(f, b, qa, Append(qb, Rejected), Rw[s], Rw[Peer(s)])
    BY <2>4 DEF Paired, Half
  <2>6. Matched(s, f, b, link)
    BY <1>1, <1>5, <2>3, <2>5, QueuedMatched DEF qa, qb
  <2> QED
    BY <1>1, <1>2, <2>2, <2>3, <2>6, UpdateKeeps
<1> QED
  BY <1>6, <1>7

\* LLCP_SendData
LEMMA SendDataKeeps ==
  ASSUME IInv, Pair, Undisturbed, NEW s \in Station, SendData(s)
  PROVE  Keeping(s)
<1> DEFINE d == dl[s]
           b == dl[Peer(s)]
           q == Append(d.i_xmit_q, sent[s] + 1)
           e == [d EXCEPT !.i_xmit_q = q]
<1>1. /\ Matched(s, d, b, link) /\ d \in Dlcb /\ b \in Dlcb /\ link \in Link /\ Sound(s, d)
      /\ sent[s] \in Nat /\ d.state = "CONNECTED"
  BY PairMatched, IInvSound DEF SendData
<1>2. q \in Seq(Nat)
  BY <1>1, Fields
<1>3. PICK o \in CheckSend(s, e, link) :
        /\ link' = o.link
        /\ \/ dl' = [dl EXCEPT ![s] = o.d]
           \/ dl' = [dl EXCEPT ![s] = [o.d EXCEPT !.is_tx_congested = TRUE, !.told = TRUE]]
  BY DEF SendData
<1> HIDE DEF q
<1>4. /\ e \in Dlcb /\ e.state = "CONNECTED" /\ SameNumbers(d, e) /\ e.sig_xmit_q = d.sig_xmit_q
      /\ SameRx(d, e)
  BY <1>1, <1>2 DEF Dlcb, SameNumbers, SameRx
<1> HIDE DEF e
<1>5. Moves(d, e, <<>>) /\ Sound(s, e)
  BY <1>1, <1>4, Stays, SameRxSound DEF Keeps, Early
<1>6. Matched(s, e, b, link)
  BY <1>1, <1>5, MovesMatched
<1>7. o.d \in Dlcb /\ o.link \in Link
  BY <1>1, <1>5, CheckSendSound DEF Sound
<1>8. Matched(s, o.d, b, o.link) /\ o.d.state \notin Early
  BY <1>1, <1>4, <1>6, <1>7, CheckSendMatched DEF Early
<1> DEFINE f == o.d
           g == [f EXCEPT !.is_tx_congested = TRUE, !.told = TRUE]
<1>9. f \in Dlcb /\ f.state \notin Early /\ Matched(s, f, b, o.link)
  BY <1>7, <1>8
<1> HIDE DEF f
<1>10. /\ g \in Dlcb /\ g.state = f.state /\ SameNumbers(f, g) /\ g.sig_xmit_q = f.sig_xmit_q
       /\ g.i_xmit_q = f.i_xmit_q
  BY <1>9 DEF Dlcb, SameNumbers
<1> HIDE DEF g
<1>11. Moves(f, g, <<>>)
  BY <1>9, <1>10, Stays DEF Keeps
<1>12. Matched(s, g, b, o.link)
  BY <1>1, <1>7, <1>9, <1>11, MovesMatched
<1>13. dl' = [dl EXCEPT ![s] = f] \/ dl' = [dl EXCEPT ![s] = g]
  BY <1>3 DEF f, g
<1>14. f.state # "IDLE" /\ g.state # "IDLE"
  BY <1>9, <1>10 DEF Early
<1> QED
  BY <1>3, <1>9, <1>12, <1>13, <1>14, MatchedStep
\* LLCP_ReadDataLinkData, LLCP_SetLocalBusyStatus and LLCP_SetTxCompleteNtf, for which
\* there is a connection.
LEMMA QuietKeeps ==
  ASSUME IInv, Pair, Undisturbed, NEW s \in Station
  PROVE  ReadData(s) \/ SetLocalBusy(s) \/ ClearLocalBusy(s) \/ SetTxCompleteNtf(s) => Keeping(s)
<1> DEFINE d == dl[s]
           fl == d.flags \cup {"PENDING_RR_RNR"}
           Same(e) == /\ e \in Dlcb /\ e.state = d.state /\ SameNumbers(d, e)
                      /\ e.i_xmit_q = d.i_xmit_q /\ e.sig_xmit_q = d.sig_xmit_q
<1>1. d \in Dlcb /\ Sound(s, d) /\ d.i_rx_q \in Seq(Nat) /\ fl \in SUBSET Flag /\ dl \in [Station -> Dlcb]
  BY PairMatched, IInvSound, Fields DEF Flag
<1>2. d.state \in Early => d.i_rx_q = <<>> /\ ~d.local_busy
  <2>1. Paired(d, dl[Peer(s)], Coming(s), Coming(Peer(s)), Rw[s], Rw[Peer(s)])
    BY DEF Pair
  <2> QED
    BY <2>1, EarlyBlank, BlankFields
<1> HIDE DEF fl
<1>3. ASSUME NEW e, Same(e), d.state \notin Early, dl' = [dl EXCEPT ![s] = e], link' = link
      PROVE  Keeping(s)
  BY <1>3, KeepsStep DEF Keeps
<1>4. ASSUME ReadData(s) PROVE Keeping(s)
  <2> DEFINE q == Tail(d.i_rx_q)
             t == Len(d.i_rx_q) > 1
             x == [d EXCEPT !.i_rx_q = q, !.rung = t]
             y == RxUncongested(x, Threshold(s) \div 2)
             f == x.flags \cup {"PENDING_RR_RNR"}
             z == [x EXCEPT !.is_rx_congested = FALSE, !.flags = f]
  <2>1. d.i_rx_q # <<>> /\ dl' = [dl EXCEPT ![s] = y] /\ link' = link
    BY <1>4 DEF ReadData
  <2>2. q \in Seq(Nat) /\ t \in BOOLEAN
    BY <1>1, <2>1
  <2> HIDE DEF q, t
  <2>3. Same(x)
    BY <1>1, <2>2 DEF Dlcb, SameNumbers
  <2>4. y = x \/ y = z
    BY DEF RxUncongested
  <2> HIDE DEF x
  <2>5. f \in SUBSET Flag
    BY <2>3, Fields DEF Flag
  <2> HIDE DEF f
  <2>6. Same(z)
    BY <2>3, <2>5 DEF Dlcb, SameNumbers
  <2> HIDE DEF z, y
  <2> QED
    BY <1>2, <1>3, <2>1, <2>3, <2>4, <2>6
<1>5. ASSUME SetLocalBusy(s) PROVE Keeping(s)
  <2> DEFINE e == [d EXCEPT !.local_busy = TRUE, !.flags = fl]
  <2>1. dl' = [dl EXCEPT ![s] = e] /\ link' = link /\ d.state \notin Early
    BY <1>1, <1>5 DEF SetLocalBusy, Early, fl
  <2>2. Same(e)
    BY <1>1 DEF Dlcb, SameNumbers
  <2> HIDE DEF e
  <2> QED
    BY <1>3, <2>1, <2>2
<1>6. ASSUME ClearLocalBusy(s) PROVE Keeping(s)
  <2> DEFINE e == [d EXCEPT !.local_busy = FALSE, !.flags = fl]
             r == [e EXCEPT !.rung = TRUE]
  <2>1. /\ \/ dl' = [dl EXCEPT ![s] = e]
           \/ dl' = [dl EXCEPT ![s] = r]
        /\ link' = link /\ d.state \notin Early
    BY <1>2, <1>6 DEF ClearLocalBusy, DataInd, fl
  <2>2. Same(e)
    BY <1>1 DEF Dlcb, SameNumbers
  <2> HIDE DEF e
  <2>3. Same(r)
    BY <2>2 DEF Dlcb, SameNumbers
  <2> HIDE DEF r
  <2> QED
    BY <1>3, <2>1, <2>2, <2>3
<1>7. ASSUME SetTxCompleteNtf(s) PROVE Keeping(s)
  <2> DEFINE f == d.flags \cup {"NOTIFY_TX_DONE"}
             e == [d EXCEPT !.flags = f]
  <2>1. dl' = [dl EXCEPT ![s] = e] /\ link' = link /\ d.state \notin Early
    BY <1>1, <1>7 DEF SetTxCompleteNtf, Early
  <2>2. f \in SUBSET Flag
    BY <1>1, Fields DEF Flag
  <2> HIDE DEF f
  <2>3. Same(e)
    BY <1>1, <2>2 DEF Dlcb, SameNumbers
  <2> HIDE DEF e
  <2> QED
    BY <1>3, <2>1, <2>3
<1> QED
  BY <1>4, <1>5, <1>6, <1>7

\* LLCP_DisconnectReq without flush, at once or when everything is acknowledged
LEMMA DisconnectKeeps ==
  ASSUME IInv, Pair, Undisturbed, NEW s \in Station, Disconnect(s)
  PROVE  Keeping(s)
<1> DEFINE d == dl[s]
           b == dl[Peer(s)]
           e == SendDisc(d)
           f == d.flags \cup {"PENDING_DISC"}
           g == [d EXCEPT !.flags = f]
<1>1. /\ Matched(s, d, b, link) /\ d \in Dlcb /\ b \in Dlcb /\ link \in Link /\ Sound(s, d)
      /\ d.state = "CONNECTED" /\ dl \in [Station -> Dlcb]
  BY PairMatched, IInvSound DEF Disconnect
<1>2. CASE Acked(d)
  <2>1. Moves(d, e, <<Disc>>) /\ Sound(s, e)
    BY <1>1, <1>2, SendDiscMoves, SendDiscSound
  <2>2. Update(s, e, link)
    BY <1>2 DEF Disconnect
  <2> HIDE DEF e
  <2>3. Matched(s, e, b, link) /\ e.state # "IDLE"
    BY <1>1, <2>1, MovesMatched DEF Moves, Early
  <2> QED
    BY <1>1, <2>1, <2>2, <2>3, UpdateKeeps
<1>3. CASE ~Acked(d)
  <2>1. dl' = [dl EXCEPT ![s] = g] /\ link' = link
    BY <1>1, <1>3 DEF Disconnect
  <2>2. f \in SUBSET Flag
    BY <1>1, Fields DEF Flag
  <2> HIDE DEF f
  <2>3. g \in Dlcb /\ g.state = d.state /\ SameNumbers(d, g) /\ g.sig_xmit_q = d.sig_xmit_q
    BY <1>1, <2>2 DEF Dlcb, SameNumbers
  <2> HIDE DEF g
  <2>4. Keeps(d, g)
    BY <1>1, <2>3 DEF Keeps, Early
  <2> QED
    BY <2>1, <2>3, <2>4, KeepsStep
<1> QED
  BY <1>2, <1>3

-------------------------------------------------------------------------------
(* The invariant, and what follows.                                          *)

\* The cases of a behaviour are chosen at its start.
LEMMA CasesKept ==
  ASSUME IInv, [Next]_vars
  PROVE  Undisturbed' = Undisturbed
<1>1. budget \in Budget
  BY IInvSound
<1>2. /\ [budget EXCEPT !.conn = @ - 1].cases = budget.cases
      /\ [budget EXCEPT !.busy = @ - 1].cases = budget.cases
      /\ [budget EXCEPT !.faults = @ - 1].cases = budget.cases
  BY <1>1 DEF Budget
<1>3. CASE LinkStep
  BY <1>3 DEF LinkStep, ReceivePdu, EndRx, SymmTimeout, Undisturbed
<1>4. ASSUME NEW s \in Station, Application(s) PROVE budget'.cases = budget.cases
  <2>1. CASE ConnectReq(s) \/ ConnectCfm(s) \/ ConnectReject(s)
    BY <1>2, <2>1 DEF ConnectReq, ConnectCfm, ConnectReject
  <2>2. CASE SendData(s) \/ ReadData(s) \/ FlushRxData(s)
    BY <2>2 DEF SendData, ReadData, FlushRxData
  <2>3. CASE SetLocalBusy(s) \/ ClearLocalBusy(s) \/ SetTxCompleteNtf(s)
    BY <1>2, <2>3 DEF SetLocalBusy, ClearLocalBusy, SetTxCompleteNtf
  <2>4. CASE Disconnect(s) \/ DisconnectFlush(s)
    BY <2>4 DEF Disconnect, DisconnectFlush
  <2> QED
    BY <1>4, <2>1, <2>2, <2>3, <2>4 DEF Application
<1>5. CASE (\E s \in Station : DlcTimeout(s)) \/ LinkLoss
  BY <1>2, <1>5 DEF DlcTimeout, LinkLoss, Undisturbed
<1>6. CASE UNCHANGED vars
  BY <1>6 DEF vars, Undisturbed
<1> QED
  BY <1>3, <1>4, <1>5, <1>6 DEF Next, Undisturbed

\* Undisturbed, every step is one that keeps the pair.
LEMMA StepsKeep ==
  ASSUME IInv, Pair, Undisturbed, Next
  PROVE  \E s \in Station : Keeping(s)
<1>1. CASE LinkStep
  BY <1>1, ReceiveKeeps, TurnsKeep DEF LinkStep
<1>2. ASSUME NEW s \in Station, Application(s) PROVE Keeping(s)
  <2>1. ~FlushRxData(s) /\ ~DisconnectFlush(s)
    BY DEF FlushRxData, DisconnectFlush, Undisturbed
  <2>2. CASE ConnectReq(s) \/ ConnectCfm(s) \/ ConnectReject(s)
    BY <2>2, ConnectReqKeeps, ConnectAnswerKeeps
  <2>3. CASE SendData(s) \/ Disconnect(s)
    BY <2>3, SendDataKeeps, DisconnectKeeps
  <2>4. CASE ReadData(s) \/ SetLocalBusy(s) \/ ClearLocalBusy(s) \/ SetTxCompleteNtf(s)
    BY <2>4, QuietKeeps
  <2> QED
    BY <1>2, <2>1, <2>2, <2>3, <2>4 DEF Application
<1>3. ~(\E s \in Station : DlcTimeout(s)) /\ ~LinkLoss
  BY DEF DlcTimeout, LinkLoss, Undisturbed
<1> QED
  BY <1>1, <1>2, <1>3 DEF Next

\* Two stations without a connection are a pair.
LEMMA InitPair == Init => Pair
<1> SUFFICES ASSUME Init, NEW s \in Station
             PROVE  /\ Paired(dl[s], dl[Peer(s)], Coming(s), Coming(Peer(s)), Rw[s], Rw[Peer(s)])
                    /\ Signals(dl[s].sig_xmit_q)
  BY DEF Pair
<1>1. dl[s] = Idle /\ dl[Peer(s)] = Idle /\ Peer(s) \in Station /\ Peer(Peer(s)) = s
  BY Peers DEF Init
<1>2. Idle.sig_xmit_q = <<>> /\ Idle.state = "IDLE" /\ Blank(Idle) /\ <<>> \o <<>> = <<>>
  <2>1. Idle.sig_xmit_q = <<>> /\ Idle.state = "IDLE"
    BY DEF Idle
  <2>2. [Idle EXCEPT !.state = Idle.state, !.sig_xmit_q = Idle.sig_xmit_q] = Idle
    <3>1. Idle \in Dlcb
      BY Fresh DEF Sound
    <3>2. ASSUME NEW d \in Dlcb
          PROVE  [d EXCEPT !.state = d.state, !.sig_xmit_q = d.sig_xmit_q] = d
      BY DEF Dlcb
    <3> QED
      BY <3>1, <3>2
  <2>3. Blank(Idle)
    BY <2>2, Zenon DEF Blank
  <2>4. \A q \in Seq(PDU) : <<>> \o q = q
    BY EmptyFirst
  <2>5. <<>> \in Seq(PDU)
    OBVIOUS
  <2> QED
    BY <2>1, <2>3, <2>4, <2>5, Zenon
<1>3. Coming(s) = <<>> /\ Coming(Peer(s)) = <<>>
  BY <1>1, <1>2 DEF Coming, Underway, Init, Turn
<1>4. Setup(Idle, Idle, <<>>, <<>>)
  BY <1>2 DEF Setup
<1>5. Signals(<<>>)
  BY DEF Signals, HasI, Has
<1> QED
  BY <1>1, <1>2, <1>3, <1>4, <1>5 DEF Paired, Half

\* Every step keeps the pair.
LEMMA NextPair == IInv /\ Pair /\ [Next]_vars => Pair'
<1> SUFFICES ASSUME IInv, Pair, [Next]_vars PROVE Pair'
  OBVIOUS
<1>1. CASE ~Undisturbed
  BY <1>1, CasesKept DEF Pair
<1>2. CASE Undisturbed /\ Next
  BY <1>2, StepsKeep DEF Keeping
<1>3. CASE UNCHANGED vars
  BY <1>3 DEF vars, Pair, Coming, Underway, Undisturbed
<1> QED
  BY <1>1, <1>2, <1>3

\* Of a pair neither is sent a FRMR.
LEMMA NoFrmr ==
  ASSUME NEW a, NEW b, NEW qa \in Seq(PDU), NEW qb \in Seq(PDU), NEW wa, NEW wb,
         Half(a, b, qa, qb, wa, wb)
  PROVE  /\ \A i \in DOMAIN qa : qa[i].type # "FRMR"
         /\ \A i \in DOMAIN qb : qb[i].type # "FRMR"
<1> DEFINE Good(q) == \A i \in DOMAIN q : q[i].type # "FRMR"
           Named == {Connect, Cc, Disc, Rejected, Closed, NotHere}
<1>1. \A p \in Named : p \in PDU /\ p.type # "FRMR"
  BY Kinds
<1>2. \A x, y \in Named : Good(<<>>) /\ Good(<<x>>) /\ Good(<<x, y>>)
  BY <1>1
<1>3. \A q : AllInfo(q) => Good(q)
  BY DEF AllInfo, Info
<1>4. \A q : All(q, NotHere) => Good(q)
  BY <1>1 DEF All
<1>5. \A q \in Seq(PDU) : Parting(q) => Good(q)
  BY <1>1, PartingSteps DEF Ack
<1>6. \A q \in Seq(PDU), w \in Seq(PDU) : Acks(q, w) /\ Good(w) => Good(q)
  <2> SUFFICES ASSUME NEW q \in Seq(PDU), NEW w \in Seq(PDU), Acks(q, w), Good(w) PROVE Good(q)
    OBVIOUS
  <2>1. \A i \in DOMAIN q : Ack(q[i]) \/ \E j \in DOMAIN w : q[i] = w[j]
    BY AcksSteps
  <2> QED
    BY <2>1 DEF Ack
<1>7. \A q \in Seq(PDU) : q # <<>> /\ q[1] = Cc /\ Good(Tail(q)) => Good(q)
  <2> SUFFICES ASSUME NEW q \in Seq(PDU), q # <<>>, q[1] = Cc, Good(Tail(q)), NEW i \in DOMAIN q
               PROVE  q[i].type # "FRMR"
    OBVIOUS
  <2>1. /\ DOMAIN q = 1..Len(q) /\ DOMAIN Tail(q) = 1..(Len(q) - 1) /\ Len(q) \in Nat
        /\ \A k \in 1..(Len(q) - 1) : Tail(q)[k] = q[k + 1]
    BY TailSeq
  <2>2. CASE i = 1
    BY <1>1, <2>2
  <2>3. CASE i # 1
    <3>1. i - 1 \in 1..(Len(q) - 1) /\ (i - 1) + 1 = i
      BY <2>1, <2>3
    <3> QED
      BY <2>1, <3>1
  <2> QED
    BY <2>2, <2>3
<1>8. \A x, y \in Named : \A q \in Seq(PDU) : Acks(q, <<x>>) \/ Acks(q, <<x, y>>) => Good(q)
  <2>1. \A x, y \in Named : <<x>> \in Seq(PDU) /\ <<x, y>> \in Seq(PDU)
    BY <1>1
  <2> HIDE DEF Good, Named
  <2> QED
    BY <1>2, <1>6, <2>1
<1>9. CASE Setup(a, b, qa, qb)
  <2>1. Good(qa) /\ Good(qb)
    BY <1>2, <1>9 DEF Setup
  <2> QED
    BY <2>1
<1>10. CASE Open(a, b, qa, qb)
  <2>1. qb # <<>> => Tail(qb) \in Seq(PDU)
    OBVIOUS
  <2>2. Disc \in Named
    OBVIOUS
  <2> HIDE DEF Good, Named
  <2>3. Good(qa) /\ Good(qb)
    BY <1>2, <1>3, <1>5, <1>7, <1>8, <1>10, <2>1, <2>2 DEF Open, Joined, Accepted, Fleeting, Left
  <2> QED
    BY <2>3 DEF Good
<1>11. CASE BothLeft(a, b, qa, qb) \/ Answered(a, b, qa, qb)
  <2>1. Disc \in Named /\ Closed \in Named /\ Connect \in Named
    OBVIOUS
  <2> HIDE DEF Good, Named
  <2>2. Good(qa) /\ Good(qb)
    BY <1>2, <1>4, <1>8, <1>11, <2>1 DEF BothLeft, Answered
  <2> QED
    BY <2>2 DEF Good
<1> QED
  BY <1>9, <1>10, <1>11 DEF Half

\* NoFrameError holds of every behaviour, for every modulus and window: a station that runs
\* this code never finds a sequence number of the other out of place, nor a PDU out of order.
THEOREM NoFrameErrors == Spec => []NoFrameError
<1>1. IInv /\ Pair => NoFrameError
  <2> SUFFICES ASSUME IInv, Pair, Undisturbed, NEW s \in Station
               PROVE  \A i \in DOMAIN Coming(s) : Coming(s)[i].type # "FRMR"
    BY DEF NoFrameError
  <2>1. /\ Paired(dl[s], dl[Peer(s)], Coming(s), Coming(Peer(s)), Rw[s], Rw[Peer(s)])
        /\ Coming(s) \in Seq(PDU) /\ Coming(Peer(s)) \in Seq(PDU)
    <3>1. Matched(s, dl[s], dl[Peer(s)], link) /\ Peer(s) \in Station /\ Peer(Peer(s)) = s
      BY PairMatched, Peers
    <3>2. /\ Coming(s) = Ahead(link, s) \o dl[Peer(s)].sig_xmit_q
          /\ Coming(Peer(s)) = Ahead(link, Peer(s)) \o dl[s].sig_xmit_q
      BY <3>1 DEF Coming, Underway, Ahead
    <3> QED
      BY <3>1, <3>2 DEF Matched, Ends
  <2> QED
    BY <2>1, NoFrmr DEF Paired
<1> QED
  BY <1>1, InitIInv, NextIInv, InitPair, NextPair, PTL DEF Spec

\* NoHalfOpen holds of every behaviour: whatever requests, rejections and disconnections
\* cross each other, both stations know in the end.
THEOREM NeverHalfOpen == Spec => []NoHalfOpen
<1>1. IInv /\ Pair => NoHalfOpen
  <2> SUFFICES ASSUME IInv, Pair, Undisturbed, Quiet, NEW s \in Station
               PROVE  /\ dl[s].state = "CONNECTED" => dl[Peer(s)].state = "CONNECTED"
                      /\ dl[s].state = "W4_REMOTE_RESP" => dl[Peer(s)].state = "W4_LOCAL_RESP"
                      /\ dl[s].state # "W4_REMOTE_DM"
    BY DEF NoHalfOpen
  <2> DEFINE a == dl[s]
             b == dl[Peer(s)]
  <2>1. Coming(s) = <<>> /\ Coming(Peer(s)) = <<>>
    BY Peers DEF Coming, Underway, Quiet
  <2>2. Paired(a, b, <<>>, <<>>, Rw[s], Rw[Peer(s)])
    BY <2>1 DEF Pair
  <2>3. /\ ~Parting(<<>>) /\ \A x, y : ~Acks(<<>>, <<x>>) /\ ~Acks(<<>>, <<x, y>>)
        /\ \A x : <<x>> # <<>>
    <3>1. Len(<<>>) = 0 /\ \A x, y : Len(<<x>>) = 1 /\ Len(<<x, y>>) = 2
      OBVIOUS
    <3> QED
      BY <3>1 DEF Parting, Acks, Then
  <2>4. ASSUME NEW x, NEW y, NEW wx, NEW wy, Half(x, y, <<>>, <<>>, wx, wy)
        PROVE  \/ x.state = "IDLE" /\ y.state = "IDLE"
               \/ x.state = "W4_REMOTE_RESP" /\ y.state = "W4_LOCAL_RESP"
               \/ x.state = "CONNECTED" /\ y.state = "CONNECTED"
    <3>1. CASE Setup(x, y, <<>>, <<>>)
      BY <2>3, <3>1 DEF Setup
    <3>2. CASE Open(x, y, <<>>, <<>>)
      BY <2>3, <3>2 DEF Open, Joined, Accepted, Fleeting, Left
    <3>3. CASE BothLeft(x, y, <<>>, <<>>) \/ Answered(x, y, <<>>, <<>>)
      BY <2>3, <3>3 DEF BothLeft, Answered
    <3> QED
      BY <2>4, <3>1, <3>2, <3>3 DEF Half
  <2> QED
    BY <2>2, <2>4 DEF Paired
<1> QED
  BY <1>1, InitIInv, NextIInv, InitPair, NextPair, PTL DEF Spec

\* DisconnectWaits holds of every behaviour: the DISC of a disconnection without flush is
\* behind everything its sender had to send, and all of it was acknowledged.
THEOREM DisconnectWaitsForAll == Spec => DisconnectWaits
<1> DEFINE Waits == \A s \in Station :
              Undisturbed /\ dl[s].state = "CONNECTED" /\ dl'[s].state = "IDLE"
                => dl[Peer(s)].i_xmit_q = <<>> /\ \A i \in DOMAIN Underway(s) : Underway(s)[i].type # "I"
<1>1. IInv /\ Pair /\ [Next]_vars => [Waits]_vars
  <2> SUFFICES ASSUME IInv, Pair, Next, Undisturbed, NEW s \in Station,
                      dl[s].state = "CONNECTED", dl'[s].state = "IDLE"
               PROVE  dl[Peer(s)].i_xmit_q = <<>> /\ \A i \in DOMAIN Underway(s) : Underway(s)[i].type # "I"
    OBVIOUS
  <2>1. PICK t \in Station : Keeping(t)
    BY StepsKeep
  <2>2. s = t
    <3>1. s = t \/ s = Peer(t)
      BY Peers
    <3> QED
      BY <2>1, <3>1 DEF Keeping
  <2> QED
    BY <2>1, <2>2 DEF Keeping, HasI
<1>2. Spec => [][Waits]_vars
  BY <1>1, InitIInv, NextIInv, InitPair, NextPair, PTL DEF Spec
<1> QED
  BY <1>2 DEF DisconnectWaits
================================================================================
