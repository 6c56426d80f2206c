---------------------------- MODULE NciDataProofs ----------------------------
(***********************************************************************************)
(*  Proofs about the NCI data plane, the sending side (NciData): the types,        *)
(*  what becomes of every credit over late ones and resets (CreditsKept), that     *)
(*  the command which ends an NFC-DEP link waits for the packets that are out      *)
(*  (DeactivationWaits), and that the NFCC gets every packet whole (NeverTorn),    *)
(*  for every set of connections, number of credits, buffer size and bound.        *)
(*                                                                                 *)
(*  The properties are about a block, the NFCC and the mailbox at the same         *)
(*  time, and none of them is inductive.  Handshake says that one command and      *)
(*  one answer create and close a connection, LinkOrder that the NFCC's idea of    *)
(*  the RF link and the task's differ by the messages on their way, Ledger where   *)
(*  each credit is and that only a late one is one too many, Surplus how many      *)
(*  credits resets can make up, Whole where the rest of a packet is that the NFCC  *)
(*  has a part of.  A reset empties the NFCC under a host that keeps its blocks:   *)
(*  all but Surplus hold while none has come, which is what Calm says of a state.  *)
(***********************************************************************************)
EXTENDS NciData, SeqLemmas

-------------------------------------------------------------------------------
(* What the state is made of, and the invariants.                            *)

\* Types.
Frag == [pkt : Nat \ {0}, last : BOOLEAN]
Buffer == [from : Nat, to : Nat, more : BOOLEAN, big : BOOLEAN, max : BOOLEAN]
Block == [id : {"illegal", "pending", "open"}, init : Nat, num : Nat, tx : Seq(Frag),
          rx : Seq(Buffer), cb : BOOLEAN, dep : BOOLEAN]
Kind == {"activated", "deactivated", "credits", "late", "data", "created", "closed", "reset"}
Message == [kind : Kind, c : Conn, n : Nat, flag : BOOLEAN]
Cmd == [kind : {"deactivate", "create", "close"}, c : Conn, link : Nat]

NfcState == [st : {"IDLE", "OPEN", "CLOSING"}, deactivating : BOOLEAN, timer : BOOLEAN,
             param : Nat, reassembly : BOOLEAN, link : Nat, bump : BOOLEAN]
NfccState == [mode : {"idle", "active"}, held : [Conn -> Nat], sent : [Conn -> Nat],
              ends : [Conn -> SUBSET Nat], open : SUBSET Conn, late : Nat]
History == [part : [Conn -> Nat], torn : BOOLEAN, up : [Conn -> Nat], garbled : BOOLEAN,
            flushed : SUBSET Conn]
Use == [pkt : Nat, act : Nat, ask : Nat, reset : Nat, late : Nat, lim : Bounds]

TypeOK ==
  /\ nfc \in NfcState
  /\ conn \in [Conn -> Block]
  /\ nfcc \in NfccState
  /\ toHost \in Seq(Message)
  /\ toNfcc \in Seq(Cmd)
  /\ seen \in History
  /\ used \in Use

\* What each message and command says, whatever became of the connection.
MessageOK(m) ==
  /\ m.kind = "activated" => m.c = RF /\ m.n = Credits
  /\ m.kind = "credits" => m.n = 1
  /\ m.kind = "late" => m.c = RF /\ m.n = 1
  /\ m.kind = "created" => m.c \in Dyn /\ (m.flag => m.n \in {Credits, NoFC})
  /\ m.kind = "closed" => m.c \in Dyn

CommandOK(m) == m.kind \in {"create", "close"} => m.c \in Dyn /\ m.link = 0

\* No two messages in s of one of the kinds are for the same connection.
Single(s, kinds) ==
  \A i, j \in DOMAIN s :
    i # j /\ s[i].kind \in kinds /\ s[i].kind = s[j].kind => s[i].c # s[j].c

\* A message of kind k is for c.
For(s, k, c) == \E i \in DOMAIN s : s[i].kind = k /\ s[i].c = c

\* A connection is created and closed by one command and one answer.
Handshake ==
  /\ \A i \in DOMAIN toHost : MessageOK(toHost[i])
  /\ \A i \in DOMAIN toNfcc : CommandOK(toNfcc[i])
  /\ Single(toHost, {"created", "closed"})
  /\ Single(toNfcc, {"create", "close"})
  /\ \A c \in Dyn :
       /\ For(toNfcc, "create", c) \/ For(toHost, "created", c) => conn[c].id = "pending"
       /\ For(toNfcc, "close", c) \/ For(toHost, "closed", c) => conn[c].id = "open"
       /\ ~(For(toNfcc, "create", c) /\ For(toHost, "created", c))
       /\ ~(For(toNfcc, "close", c) /\ For(toHost, "closed", c))

\* The answer that opens c is on its way.
Created(c) ==
  \E i \in DOMAIN toHost : toHost[i].kind = "created" /\ toHost[i].c = c /\ toHost[i].flag

\* A link that comes up finds the notification that ended the last one handled.
Ordered(s) ==
  \A i, j \in DOMAIN s :
    i < j /\ s[i].kind \in {"activated", "deactivated"} => s[j].kind # "activated"

\* The NFCC has the link the task has, but for the messages on their way.
LinkOrder ==
  /\ Ordered(toHost)
  /\ nfcc.mode = "active" <=>
       (nfc.st # "IDLE" \/ Owed("activated")) /\ ~Owed("deactivated")
  /\ Owed("activated") => nfc.st = "IDLE"

\* No reset is on its way, and none is behind the next call or credit.
Calm == ~nfc.bump /\ ~Owed("reset")

\* Where the credits of a connection are: none is lost, and only a late one is too many.
Balance(c) ==
  conn[c].num + nfcc.held[c] + CreditsDue(c) \in conn[c].init..(conn[c].init + LateOn(c))

\* The messages that start a connection's credits.
Opens(m) == m.kind = "activated" \/ (m.kind = "created" /\ m.flag)

\* No credit for a connection arrives after the message that opens it.
NoCreditsBehind(s) ==
  \A i, j \in DOMAIN s :
    i < j /\ Opens(s[i]) /\ s[j].kind = "credits" => s[i].c # s[j].c

\* Either c has no flow control, or its credits balance while it is open; RF's do from the
\* moment its link's notification is handled.
Account(c) ==
  /\ conn[c].init \in {0, Credits, NoFC}
  /\ conn[c].init = NoFC => conn[c].num = NoFC
  /\ conn[c].init # NoFC => conn[c].num <= conn[c].init
  /\ (conn[c].id = "open" /\ conn[c].init # NoFC /\ (c = RF => ~Owed("activated")))
       => Balance(c)
  /\ Created(c) => nfcc.held[c] = 0

\* The invariant of CreditLedger: a new link and a new connection start with none out.
Ledger ==
  /\ conn[RF].id = "open" /\ conn[RF].init # NoFC
  /\ \A c \in Conn : Account(c)
  /\ Owed("activated") => nfcc.held[RF] = 0
  /\ NoCreditsBehind(toHost)

\* One more credit for each reset that a connection has been counted anew for, or will be.
Pending == (IF nfc.bump THEN 1 ELSE 0) + (IF Owed("reset") THEN 1 ELSE 0)
OneReset(s) == \A i, j \in DOMAIN s : s[i].kind = "reset" /\ s[j].kind = "reset" => i = j
Surplus ==
  /\ OneReset(toHost)
  /\ Pending <= used.reset
  /\ \A c \in Conn : conn[c].init # NoFC => conn[c].num + Pending <= conn[c].init + used.reset

\* The invariant of CreditLedger.  A reset empties the NFCC and leaves RF's block: what
\* holds of the credits, the commands and the link until then ends there.
IInvCredits ==
  TypeOK /\ Surplus /\ (used.reset = 0 => Calm /\ Handshake /\ LinkOrder /\ Ledger)

\* The queue of a connection holds the rest of the packet in front and whole packets
\* behind it; the NFCC has a part of a packet only when its rest is still queued.
Tidy(tx) ==
  /\ \A i \in 1..(Len(tx) - 1) : ~tx[i].last => tx[i + 1].pkt = tx[i].pkt
  /\ tx # <<>> => tx[Len(tx)].last

\* Packets may be sent on c.
Live(c) == conn[c].id = "open" /\ (c = RF => nfc.st # "IDLE")

\* What the queue of c holds, and what the NFCC has of the packet in front.
Outgoing(c) ==
  /\ Tidy(conn[c].tx)
  /\ ~Live(c) => conn[c].tx = <<>>
  /\ Live(c) /\ c \notin seen.flushed /\ seen.part[c] # 0
       => conn[c].tx # <<>> /\ conn[c].tx[1].pkt = seen.part[c]
  /\ Created(c) => seen.part[c] = 0

\* The invariant of PacketsWhole.
Whole ==
  /\ ~seen.torn
  /\ \A c \in Conn : Outgoing(c)
  /\ Owed("activated") => seen.part[RF] = 0

-------------------------------------------------------------------------------
(* Types.                                                                    *)

\* nfc_data_event hands up some number of the buffers: Reported is well defined.
LEMMA ReportedRange ==
  ASSUME NEW c, NEW rx \in Seq(Buffer), NEW r
  PROVE  Reported(c, rx, r) \in 0..Len(rx)
<1> DEFINE W(k) == MustWait(c, rx[k + 1], r \/ \E j \in 1..k : ~rx[j].more)
           K == {k \in 0..Len(rx) : k < Len(rx) => W(k)}
           R == OpToRel(<, Nat)
<1>1. Len(rx) \in Nat
  OBVIOUS
<1>2. K \subseteq Nat /\ Len(rx) \in K
  BY <1>1
<1>3. PICK k \in K : \A y \in K : <<y, k>> \notin R
  <2> HIDE DEF K, R
  <2>1. IsWellFoundedOn(R, Nat)
    BY NatLessThanWellFounded, Zenon DEF R
  <2> QED
    BY <1>2, <2>1, WFMin
<1>4. \A y \in K : ~(y < k)
  BY <1>2, <1>3 DEF OpToRel
<1>5. k \in 0..Len(rx) /\ (k < Len(rx) => W(k))
  OBVIOUS
<1>6. \A i \in 1..k : ~MustWait(c, rx[i], r \/ \E j \in 1..(i - 1) : ~rx[j].more)
  <2> TAKE i \in 1..k
  <2>1. i - 1 \in 0..Len(rx) /\ i - 1 < k /\ i - 1 < Len(rx) /\ (i - 1) + 1 = i
    BY <1>1, <1>5
  <2>2. i - 1 \notin K
    BY <1>4, <2>1
  <2>3. ~W(i - 1)
    BY <2>1, <2>2
  <2> QED
    BY <2>1, <2>3
<1> HIDE DEF K, R
<1> QED
  BY <1>5, <1>6 DEF Reported

\* The fragments of a packet.
LEMMA CutType ==
  ASSUME NEW p \in Nat \ {0}, NEW n \in Nat
  PROVE  Cut(p, n) \in Seq(Frag) /\ Len(Cut(p, n)) = n
  BY DEF Cut, Frag

\* nfc_ncif_send_data never takes more fragments than there are credits for.
LEMMA SendCountsRange ==
  ASSUME NEW cb \in Block, NEW k \in SendCounts(cb)
  PROVE  k \in 0..Len(cb.tx) /\ k <= cb.num /\ k \in Nat
<1>1. Len(cb.tx) \in Nat /\ cb.num \in Nat
  BY DEF Block
<1>2. Sendable(cb) \in 0..Len(cb.tx) /\ Sendable(cb) <= cb.num
  BY <1>1 DEF Sendable
<1>3. k \in 0..Sendable(cb)
  BY <1>2 DEF SendCounts
<1> QED
  BY <1>1, <1>2, <1>3

\* A block stays well typed when fragments leave its queue.
LEMMA AfterSendType ==
  ASSUME NEW cb \in Block, NEW k \in Nat, k <= Len(cb.tx), k <= cb.num
  PROVE  AfterSend(cb, k) \in Block
<1> DEFINE rest == SubSeq(cb.tx, k + 1, Len(cb.tx))
           left == IF cb.num = NoFC THEN NoFC ELSE cb.num - k
<1>1. rest \in Seq(Frag) /\ left \in Nat
  BY CreditAssumption DEF Block
<1>2. AfterSend(cb, k) = [cb EXCEPT !.tx = rest, !.num = left]
  BY DEF AfterSend
<1> HIDE DEF rest, left
<1> QED
  BY <1>1, <1>2 DEF Block

\* Sending keeps the types.
LEMMA TransmitType ==
  ASSUME TypeOK, NEW c \in Conn, NEW cb \in Block, NEW k \in SendCounts(cb),
         Transmit(c, cb, k)
  PROVE  conn' \in [Conn -> Block] /\ nfcc' \in NfccState /\ seen' \in History
<1> DEFINE out == SubSeq(cb.tx, 1, k)
           h == IF cb.num = NoFC THEN nfcc.held[c] ELSE nfcc.held[c] + k
           t == seen.torn \/ (c \notin seen.flushed /\ Torn(seen.part[c], out))
           p == PartAfter(seen.part[c], out)
<1>1. k \in 0..Len(cb.tx) /\ k <= cb.num /\ k \in Nat
  BY SendCountsRange
<1>2. AfterSend(cb, k) \in Block
  BY <1>1, AfterSendType
<1>3. out \in Seq(Frag)
  BY <1>1 DEF Block
<1>4. p \in Nat
  <2>1. CASE out = <<>>
    BY <2>1 DEF PartAfter, TypeOK, History
  <2>2. CASE out # <<>>
    <3>1. out[Len(out)] \in Frag
      BY <1>3, <2>2
    <3> HIDE DEF out
    <3> QED
      BY <2>2, <3>1 DEF PartAfter, Frag, Last
  <2> QED
    BY <2>1, <2>2
<1>5. conn' \in [Conn -> Block]
  BY <1>2 DEF Transmit, TypeOK
<1>6. nfcc' = [nfcc EXCEPT !.held[c] = h]
  BY DEF Transmit
<1>7. seen' = [seen EXCEPT !.torn = t, !.part[c] = p]
  BY DEF Transmit
<1>8. h \in Nat /\ t \in BOOLEAN
  BY <1>1 DEF TypeOK, NfccState, History
<1> HIDE DEF h, t, p
<1>9. nfcc' \in NfccState
  BY <1>6, <1>8 DEF NfccState, TypeOK
<1>10. seen' \in History
  BY <1>4, <1>7, <1>8 DEF History, TypeOK
<1> QED
  BY <1>5, <1>9, <1>10

\* Reporting received buffers keeps the types.
LEMMA DataEventType ==
  ASSUME TypeOK, NEW c \in Conn, NEW cb \in Block, NEW reassembly \in BOOLEAN,
         NEW tail \in Seq(Buffer), DataEvent(c, cb, reassembly, tail)
  PROVE  conn' \in [Conn -> Block] /\ nfc' \in NfcState /\ seen' \in History
<1> DEFINE k == IF cb.cb THEN Reported(c, cb.rx, reassembly) ELSE 0
           done == SubSeq(cb.rx, 1, k)
           rest == SubSeq(cb.rx, k + 1, Len(cb.rx)) \o tail
           on == reassembly \/ \E i \in 1..k : ~done[i].more
           up == IF k = 0 THEN seen.up[c] ELSE done[k].to
           bad == seen.garbled \/ \E i \in 1..k :
                    ~Right(c, done[i], IF i = 1 THEN seen.up[c] ELSE done[i - 1].to)
<1>1. cb.rx \in Seq(Buffer) /\ Len(cb.rx) \in Nat
  BY DEF Block
<1>2. k \in 0..Len(cb.rx)
  BY <1>1, ReportedRange
<1> HIDE DEF k
<1>3. done \in Seq(Buffer) /\ Len(done) = k /\ rest \in Seq(Buffer)
  BY <1>1, <1>2
<1>4. /\ conn' = [conn EXCEPT ![c] = [cb EXCEPT !.rx = rest]]
      /\ nfc' = [nfc EXCEPT !.reassembly = on]
      /\ seen' = [seen EXCEPT !.up[c] = up, !.garbled = bad]
  BY DEF DataEvent, k
<1>5. up \in Nat
  <2>1. CASE k = 0
    BY <2>1 DEF TypeOK, History
  <2>2. CASE k # 0
    <3>1. done[k] \in Buffer
      BY <1>2, <1>3, <2>2
    <3> QED
      BY <2>2, <3>1 DEF Buffer
  <2> QED
    BY <2>1, <2>2
<1>6. on \in BOOLEAN /\ bad \in BOOLEAN
  BY DEF TypeOK, History
<1> HIDE DEF done, rest, on, up, bad
<1>7. [cb EXCEPT !.rx = rest] \in Block
  BY <1>3 DEF Block
<1>8. conn' \in [Conn -> Block]
  BY <1>4, <1>7 DEF TypeOK
<1>9. nfc' \in NfcState
  BY <1>4, <1>6 DEF TypeOK, NfcState
<1>10. seen' \in History
  BY <1>4, <1>5, <1>6 DEF TypeOK, History
<1> QED
  BY <1>8, <1>9, <1>10

\* The smaller of two numbers, as Min of FiniteSetsExt has it.
LEMMA MinOfTwo ==
  ASSUME NEW a \in Nat, NEW b \in Nat
  PROVE  Min({a, b}) = IF a <= b THEN a ELSE b
<1>1. \E x \in {a, b} : \A y \in {a, b} : x <= y
  OBVIOUS
<1>2. /\ Min({a, b}) \in {a, b}
      /\ \A y \in {a, b} : Min({a, b}) <= y
  BY <1>1 DEF Min
<1> QED
  BY <1>2

\* The connection block nfc_free_conn_cb leaves.
LEMMA FreeType ==
  /\ Free \in Block /\ Free.tx = <<>> /\ Free.rx = <<>> /\ Free.id = "illegal"
  /\ Free.init = 0 /\ Free.num = 0
<1>1. <<>> \in Seq(Frag) /\ <<>> \in Seq(Buffer)
  OBVIOUS
<1> QED
  BY <1>1 DEF Free, Block

\* The types hold when nfc_enabled has set the blocks up.
LEMMA InitType ==
  ASSUME Init
  PROVE  TypeOK
<1> DEFINE up == [Free EXCEPT !.id = "open"]
<1>1. up \in Block
  BY FreeType DEF Block
<1>2. conn = [c \in Conn |-> IF c = RF THEN up ELSE Free]
  BY DEF Init
<1> HIDE DEF up
<1>3. conn \in [Conn -> Block]
  BY <1>1, <1>2, FreeType
<1>4. nfc \in NfcState /\ nfcc \in NfccState /\ seen \in History
  BY DEF Init, NfcState, NfccState, History
<1>5. toHost \in Seq(Message) /\ toNfcc \in Seq(Cmd)
  BY DEF Init
<1>6. used \in Use
  BY DEF Init, Use
<1> QED
  BY <1>3, <1>4, <1>5, <1>6 DEF TypeOK

\* A block whose credits are counted anew has at most one more.
LEMMA RecountedBlock ==
  ASSUME NEW cb \in Block
  PROVE  /\ Recounted(cb) \in Block /\ Recounted(cb).num \in Nat
         /\ Recounted(cb).num <= cb.num + IF nfc.bump THEN 1 ELSE 0
         /\ Recounted(cb).id = cb.id /\ Recounted(cb).init = cb.init
         /\ Recounted(cb).tx = cb.tx /\ Recounted(cb).rx = cb.rx
         /\ ~nfc.bump => Recounted(cb) = cb
<1> DEFINE n == IF cb.num = NoFC THEN 0 ELSE cb.num + 1
<1>1. cb.num \in Nat /\ NoFC \in Nat
  BY CreditAssumption DEF Block
<1>2. n \in Nat /\ n <= cb.num + 1
  BY <1>1
<1>3. Recounted(cb) = IF nfc.bump THEN [cb EXCEPT !.num = n] ELSE cb
  BY DEF Recounted
<1> HIDE DEF n
<1> QED
  BY <1>1, <1>2, <1>3 DEF Block

\* NFC_TASK forgets that it has to.
LEMMA NfcRecountedType ==
  ASSUME nfc \in NfcState
  PROVE  /\ NfcRecounted \in NfcState
         /\ NfcRecounted.st = nfc.st /\ NfcRecounted.timer = nfc.timer
         /\ NfcRecounted.reassembly = nfc.reassembly /\ ~NfcRecounted.bump
         /\ ~nfc.bump => NfcRecounted = nfc
  BY DEF NfcRecounted, NfcState

\* The block NFC_SendData queues a packet in.
Queued(c, n) == [Recounted(conn[c]) EXCEPT !.tx = conn[c].tx \o Cut(used.pkt + 1, n)]

\* What NFC_SendData queues and sends.
LEMMA SendDataEffect ==
  ASSUME TypeOK, NEW c \in Conn, NEW n \in 1..lim.frag, NFC_SendData(c, n)
  PROVE  /\ conn[c].id = "open" /\ (c = RF => nfc.st = "OPEN")
         /\ nfc' = NfcRecounted /\ UNCHANGED <<toHost, toNfcc>>
         /\ used' = [used EXCEPT !.pkt = @ + 1]
         /\ Queued(c, n) \in Block
         /\ Queued(c, n).id = conn[c].id /\ Queued(c, n).init = conn[c].init
         /\ Queued(c, n).num = Recounted(conn[c]).num /\ Queued(c, n).rx = conn[c].rx
         /\ Queued(c, n).tx = conn[c].tx \o Cut(used.pkt + 1, n)
         /\ \E k \in SendCounts(Queued(c, n)) : Transmit(c, Queued(c, n), k)
<1> DEFINE tx == conn[c].tx \o Cut(used.pkt + 1, n)
           cb == Recounted(conn[c])
<1>1. used.pkt + 1 \in Nat \ {0} /\ n \in Nat
  BY BoundAssumption DEF TypeOK, lim, Use
<1>2. conn[c] \in Block /\ Cut(used.pkt + 1, n) \in Seq(Frag)
  BY <1>1, CutType DEF TypeOK
<1>3. tx \in Seq(Frag)
  BY <1>2 DEF Block
<1>4. Queued(c, n) = [cb EXCEPT !.tx = tx]
  BY DEF Queued
<1>5. /\ cb \in Block /\ cb.id = conn[c].id /\ cb.init = conn[c].init
      /\ cb.tx = conn[c].tx /\ cb.rx = conn[c].rx
  BY <1>2, RecountedBlock
<1>6. \E k \in SendCounts([cb EXCEPT !.tx = @ \o Cut(used.pkt + 1, n)]) :
        Transmit(c, [cb EXCEPT !.tx = @ \o Cut(used.pkt + 1, n)], k)
  BY DEF NFC_SendData
<1>7. [cb EXCEPT !.tx = @ \o Cut(used.pkt + 1, n)] = Queued(c, n)
  BY <1>4, <1>5
<1>8. /\ conn[c].id = "open" /\ (c = RF => nfc.st = "OPEN")
      /\ nfc' = NfcRecounted /\ UNCHANGED <<toHost, toNfcc>>
      /\ used' = [used EXCEPT !.pkt = @ + 1]
  BY DEF NFC_SendData
<1> HIDE DEF tx, cb
<1>9. /\ Queued(c, n) \in Block
      /\ Queued(c, n).id = conn[c].id /\ Queued(c, n).init = conn[c].init
      /\ Queued(c, n).num = cb.num /\ Queued(c, n).rx = conn[c].rx
      /\ Queued(c, n).tx = tx
  BY <1>3, <1>4, <1>5 DEF Block
<1> QED
  BY <1>6, <1>7, <1>8, <1>9 DEF tx, cb

\* NFC_SendData keeps the types.
LEMMA SendDataType ==
  ASSUME TypeOK, NEW c \in Conn, NEW n \in 1..lim.frag, NFC_SendData(c, n)
  PROVE  TypeOK'
<1>1. PICK k \in SendCounts(Queued(c, n)) : Transmit(c, Queued(c, n), k)
  BY SendDataEffect
<1>2. conn' \in [Conn -> Block] /\ nfcc' \in NfccState /\ seen' \in History
  BY <1>1, SendDataEffect, TransmitType
<1>3. nfc' \in NfcState
  BY SendDataEffect, NfcRecountedType DEF TypeOK
<1>4. used' = [used EXCEPT !.pkt = @ + 1] /\ UNCHANGED <<toHost, toNfcc>>
  BY SendDataEffect
<1>5. used' \in Use
  BY <1>4 DEF TypeOK, Use
<1> QED
  BY <1>2, <1>3, <1>4, <1>5 DEF TypeOK

\* The deactivation command is a command.
LEMMA DeactivateCmdType ==
  ASSUME NEW link \in Nat
  PROVE  DeactivateCmd(link) \in Cmd
  BY DEF DeactivateCmd, Cmd, Conn

\* So are those of a connection.
LEMMA CommandType ==
  ASSUME NEW c \in Conn, NEW k \in {"create", "close"}
  PROVE  Command(k, c) \in Cmd
  BY DEF Command, Cmd

\* NFC_FlushData keeps the types.
LEMMA FlushType ==
  ASSUME TypeOK, NEW c \in Conn, NFC_FlushData(c)
  PROVE  TypeOK'
<1>1. conn' \in [Conn -> Block]
  <2>1. conn[c] \in Block /\ <<>> \in Seq(Frag)
    BY DEF TypeOK
  <2>2. [conn[c] EXCEPT !.tx = <<>>] \in Block
    BY <2>1 DEF Block
  <2>3. conn' = [conn EXCEPT ![c] = [conn[c] EXCEPT !.tx = <<>>]]
    BY DEF NFC_FlushData
  <2> QED
    BY <2>2, <2>3 DEF TypeOK
<1>2. seen' \in History
  BY DEF NFC_FlushData, TypeOK, History
<1> QED
  BY <1>1, <1>2 DEF NFC_FlushData, TypeOK

\* NFC_Deactivate keeps the types.
LEMMA DeactivateType ==
  ASSUME TypeOK, NFC_Deactivate
  PROVE  TypeOK'
<1> DEFINE waits == nfc.st = "OPEN" /\ conn[RF].dep /\ conn[RF].init # conn[RF].num
           st == IF nfc.st = "OPEN" THEN "CLOSING" ELSE nfc.st
           ras == IF waits THEN nfc.reassembly ELSE TRUE
           par == IF waits THEN nfc.link ELSE nfc.param
           cmds == IF waits THEN toNfcc ELSE Append(toNfcc, DeactivateCmd(nfc.link))
           de == nfc.deactivating \/ waits
           ti == nfc.timer \/ waits
<1>0. nfc \in NfcState /\ toNfcc \in Seq(Cmd) /\ nfc.link \in Nat
  BY DEF TypeOK, NfcState
<1>1. waits \in BOOLEAN
  OBVIOUS
<1>2. /\ nfc' = [nfc EXCEPT !.st = st, !.deactivating = de, !.timer = ti, !.param = par,
                            !.reassembly = ras]
      /\ toNfcc' = cmds /\ used' = [used EXCEPT !.ask = @ + 1]
      /\ UNCHANGED <<conn, nfcc, toHost, seen>>
  BY DEF NFC_Deactivate
<1> HIDE DEF waits
<1>3. st \in {"IDLE", "OPEN", "CLOSING"} /\ ras \in BOOLEAN /\ par \in Nat
      /\ de \in BOOLEAN /\ ti \in BOOLEAN
  BY <1>0, <1>1 DEF NfcState
<1>4. cmds \in Seq(Cmd)
  BY <1>0, DeactivateCmdType
<1> HIDE DEF st, de, ti, ras, par, cmds
<1>5. [nfc EXCEPT !.st = st, !.deactivating = de, !.timer = ti, !.param = par,
                  !.reassembly = ras] \in NfcState
  BY <1>0, <1>3 DEF NfcState
<1>6. nfc' \in NfcState
  BY <1>2, <1>5, Zenon
<1>7. [used EXCEPT !.ask = @ + 1] \in Use
  BY DEF TypeOK, Use
<1>8. /\ conn \in [Conn -> Block] /\ nfcc \in NfccState /\ toHost \in Seq(Message)
      /\ seen \in History
  BY DEF TypeOK
<1> QED
  BY <1>2, <1>4, <1>6, <1>7, <1>8, Zenon DEF TypeOK

\* The timer of a deactivation keeps the types.
LEMMA TimeoutType ==
  ASSUME TypeOK, WaitToDeactivateTimeout
  PROVE  TypeOK'
<1>1. nfc' \in NfcState
  BY DEF WaitToDeactivateTimeout, TypeOK, NfcState
<1>2. nfc.param \in Nat
  BY DEF TypeOK, NfcState
<1>3. DeactivateCmd(nfc.param) \in Cmd
  BY <1>2, DeactivateCmdType
<1> QED
  BY <1>1, <1>3 DEF WaitToDeactivateTimeout, TypeOK

\* NFC_SetStaticRfCback keeps the types.
LEMMA CbackType ==
  ASSUME TypeOK, NEW set \in BOOLEAN, NFC_SetStaticRfCback(set)
  PROVE  TypeOK'
<1> DEFINE cb == [conn[RF] EXCEPT !.cb = set]
<1>1. RF \in Conn /\ cb \in Block /\ nfc.reassembly \in BOOLEAN
  <2>1. RF \in Conn /\ conn[RF] \in Block
    BY DEF TypeOK, Conn
  <2>2. \A b \in Block : [b EXCEPT !.cb = set] \in Block
    BY DEF Block
  <2>3. nfc.reassembly \in BOOLEAN
    BY DEF TypeOK, NfcState
  <2> QED
    BY <2>1, <2>2, <2>3
<1>2. DataEvent(RF, cb, nfc.reassembly, <<>>)
  BY DEF NFC_SetStaticRfCback
<1>4. <<>> \in Seq(Buffer)
  OBVIOUS
<1> HIDE DEF cb
<1>3. conn' \in [Conn -> Block] /\ nfc' \in NfcState /\ seen' \in History
  BY <1>1, <1>2, <1>4, DataEventType
<1> QED
  BY <1>3 DEF TypeOK, NFC_SetStaticRfCback

\* NFC_ConnCreate keeps the types.
LEMMA ConnCreateType ==
  ASSUME TypeOK, NEW c \in Dyn, NFC_ConnCreate(c)
  PROVE  TypeOK'
<1>1. c \in Conn /\ [Free EXCEPT !.id = "pending", !.cb = TRUE] \in Block
      /\ Command("create", c) \in Cmd
  BY FreeType, CommandType DEF Block, Conn
<1>2. used' = [used EXCEPT !.ask = used.ask + 1]
  BY DEF NFC_ConnCreate
<1>3. used' \in Use
  BY <1>2 DEF TypeOK, Use
<1> QED
  BY <1>1, <1>3 DEF NFC_ConnCreate, TypeOK

\* NFC_ConnClose keeps the types.
LEMMA ConnCloseType ==
  ASSUME TypeOK, NEW c \in Dyn, NFC_ConnClose(c)
  PROVE  TypeOK'
<1>1. c \in Conn /\ Command("close", c) \in Cmd
  BY CommandType DEF Conn
<1> QED
  BY <1>1 DEF NFC_ConnClose, TypeOK

\* The connection block with the credits of m.
Credited(m) == Recounted(ToppedUp(conn[m.c], m.n))

\* The block after a credit message: only the credits moved, not past the initial number
\* but for one that a reset gives.
LEMMA CreditedBlock ==
  ASSUME TypeOK, NEW m \in Message
  PROVE  /\ m.c \in Conn /\ conn[m.c] \in Block
         /\ Credited(m) \in Block
         /\ Credited(m).id = conn[m.c].id /\ Credited(m).init = conn[m.c].init
         /\ Credited(m).tx = conn[m.c].tx /\ Credited(m).rx = conn[m.c].rx
         /\ Credited(m).num <= conn[m.c].init + IF nfc.bump THEN 1 ELSE 0
         /\ ~nfc.bump => Credited(m).num = IF conn[m.c].num + m.n <= conn[m.c].init
                                           THEN conn[m.c].num + m.n ELSE conn[m.c].init
<1> DEFINE c == m.c
           num == IF conn[c].num + m.n <= conn[c].init THEN conn[c].num + m.n
                  ELSE conn[c].init
           cb == ToppedUp(conn[c], m.n)
<1>1. c \in Conn /\ conn[c] \in Block /\ m.n \in Nat
  BY DEF Message, TypeOK
<1>2. conn[c].num \in Nat /\ conn[c].num + m.n \in Nat /\ conn[c].init \in Nat
  BY <1>1 DEF Block
<1>3. cb = [conn[c] EXCEPT !.num = num]
  BY <1>2, MinOfTwo DEF ToppedUp
<1>4. num \in Nat /\ num <= conn[c].init
  BY <1>2
<1> HIDE DEF num, cb
<1>5. /\ cb \in Block /\ cb.num = num
      /\ cb.id = conn[c].id /\ cb.init = conn[c].init
      /\ cb.tx = conn[c].tx /\ cb.rx = conn[c].rx
  BY <1>1, <1>3, <1>4 DEF Block
<1>6. Credited(m) = Recounted(cb)
  BY DEF Credited, cb
<1>7. /\ Credited(m) \in Block
      /\ Credited(m).id = conn[c].id /\ Credited(m).init = conn[c].init
      /\ Credited(m).tx = conn[c].tx /\ Credited(m).rx = conn[c].rx
  BY <1>5, <1>6, RecountedBlock
<1>8. Credited(m).num <= conn[c].init + IF nfc.bump THEN 1 ELSE 0
  <2>1. Credited(m).num <= num + IF nfc.bump THEN 1 ELSE 0
    BY <1>5, <1>6, RecountedBlock
  <2>2. Credited(m).num \in Nat
    BY <1>7 DEF Block
  <2> QED
    BY <1>2, <1>4, <2>1, <2>2
<1>9. ~nfc.bump => Credited(m).num = num
  BY <1>5, <1>6, RecountedBlock
<1> QED
  BY <1>1, <1>7, <1>8, <1>9 DEF num

\* The outcomes of nfc_ncif_proc_credits.
LEMMA ProcCreditsCases ==
  ASSUME NEW m, ProcCredits(m)
  PROVE  /\ m.kind \in {"credits", "late"}
         /\ used' = [used EXCEPT !.late = IF m.kind = "late" THEN @ + 1 ELSE @]
         /\ \/ /\ conn[m.c].id # "open" \/ conn[m.c].num = NoFC
               /\ UNCHANGED <<nfc, conn, nfcc, toNfcc, seen>>
            \/ /\ conn[m.c].id = "open" /\ conn[m.c].num # NoFC
               /\ m.c = RF /\ nfc.st # "OPEN"
               /\ conn' = [conn EXCEPT ![m.c] = Credited(m)]
               /\ nfcc' = nfcc /\ seen' = seen
               /\ \/ /\ AllCreditsBack(Credited(m))
                     /\ nfc' = [NfcRecounted EXCEPT !.deactivating = FALSE, !.timer = FALSE,
                                                    !.reassembly = TRUE]
                     /\ toNfcc' = Append(toNfcc, DeactivateCmd(nfc.param))
                  \/ nfc' = NfcRecounted /\ toNfcc' = toNfcc
            \/ /\ conn[m.c].id = "open" /\ conn[m.c].num # NoFC
               /\ m.c = RF => nfc.st = "OPEN"
               /\ \E k \in SendCounts(Credited(m)) : Transmit(m.c, Credited(m), k)
               /\ nfc' = NfcRecounted /\ toNfcc' = toNfcc
  BY Zenon DEF ProcCredits, Credited

\* nfc_ncif_proc_credits keeps the types.
LEMMA ProcCreditsType ==
  ASSUME TypeOK, NEW m \in Message, ProcCredits(m)
  PROVE  /\ nfc' \in NfcState /\ conn' \in [Conn -> Block] /\ nfcc' \in NfccState
         /\ toNfcc' \in Seq(Cmd) /\ seen' \in History /\ used' \in Use
<1>1. m.c \in Conn /\ Credited(m) \in Block
  BY CreditedBlock
<1>2. used' \in Use
  BY ProcCreditsCases DEF TypeOK, Use
<1>3. NfcRecounted \in NfcState
  BY NfcRecountedType DEF TypeOK
<1>4. CASE UNCHANGED <<nfc, conn, nfcc, toNfcc, seen>>
  BY <1>2, <1>4 DEF TypeOK
<1>5. CASE /\ conn' = [conn EXCEPT ![m.c] = Credited(m)]
           /\ UNCHANGED <<nfcc, seen>>
           /\ \/ /\ nfc' = [NfcRecounted EXCEPT !.deactivating = FALSE, !.timer = FALSE,
                                                !.reassembly = TRUE]
                 /\ toNfcc' = Append(toNfcc, DeactivateCmd(nfc.param))
              \/ nfc' = NfcRecounted /\ toNfcc' = toNfcc
  <2>1. /\ [NfcRecounted EXCEPT !.deactivating = FALSE, !.timer = FALSE, !.reassembly = TRUE]
             \in NfcState
        /\ DeactivateCmd(nfc.param) \in Cmd
    BY <1>3, DeactivateCmdType DEF TypeOK, NfcState
  <2>2. nfc' \in NfcState
    BY <1>3, <1>5, <2>1, Zenon
  <2>3. toNfcc' \in Seq(Cmd)
    BY <1>5, <2>1 DEF TypeOK
  <2>4. conn' \in [Conn -> Block]
    BY <1>1, <1>5 DEF TypeOK
  <2> QED
    BY <1>2, <1>5, <2>2, <2>3, <2>4 DEF TypeOK
<1>6. CASE /\ \E k \in SendCounts(Credited(m)) : Transmit(m.c, Credited(m), k)
           /\ nfc' = NfcRecounted /\ toNfcc' = toNfcc
  BY <1>1, <1>2, <1>3, <1>6, TransmitType DEF TypeOK
<1> QED
  BY <1>4, <1>5, <1>6, ProcCreditsCases

\* What nfc_ncif_proc_data queues: it reports a connection's buffers with the new packet
\* in a buffer of its own or joined to the last one, or leaves everything as it is.
NewBuffer(m) == [from |-> m.n, to |-> m.n, more |-> m.flag, big |-> FALSE, max |-> FALSE]

\* The outcomes of nfc_ncif_proc_data: no block, a buffer of its own, the buffer of the
\* packet it continues, or one behind a buffer that is full.
LEMMA ProcDataCases ==
  ASSUME NEW m, ProcData(m)
  PROVE  LET c == m.c
             rx == conn[c].rx
             with(r) == [conn[c] EXCEPT !.rx = r]
             on == nfc.reassembly \/ m.flag
         IN
         /\ m.kind = "data" /\ UNCHANGED <<nfcc, toNfcc, used>>
         /\ \/ conn[c].id # "open" /\ UNCHANGED <<conn, nfc, seen>>
            \/ /\ conn[c].id = "open" /\ (rx # <<>> => ~Last(rx).more)
               /\ DataEvent(c, with(Append(rx, NewBuffer(m))), on, <<>>)
            \/ /\ conn[c].id = "open" /\ rx # <<>> /\ Last(rx).more
               /\ \/ DataEvent(c, with(Append(Front(rx), Joined(Last(rx), m))), on, <<>>)
                  \/ DataEvent(c, with(Append(Front(rx),
                                  Joined([Last(rx) EXCEPT !.max = TRUE], m))), on, <<>>)
                  \/ DataEvent(c, with(Append(Front(rx), [Last(rx) EXCEPT !.big = TRUE])), on,
                               <<NewBuffer(m)>>)
  BY Zenon DEF ProcData, NewBuffer

\* The last buffer of a queue and the ones before it.
LEMMA LastFront ==
  ASSUME NEW S, NEW s \in Seq(S), s # <<>>
  PROVE  /\ Last(s) = s[Len(s)] /\ Last(s) \in S /\ Len(s) \in Nat \ {0}
         /\ Front(s) \in Seq(S) /\ Len(Front(s)) = Len(s) - 1
         /\ \A i \in 1..(Len(s) - 1) : Front(s)[i] = s[i]
<1>1. Len(s) \in Nat \ {0} /\ s[Len(s)] \in S
  OBVIOUS
<1> DEFINE n == Len(s) - 1
<1>2. Front(s) = SubSeq(s, 1, n)
  BY DEF Front
<1>3. n \in (1 - 1)..Len(s) /\ 1 \in 1..(Len(s) + 1) /\ n - 1 + 1 = n
  BY <1>1
<1> HIDE DEF n
<1>4. /\ Front(s) \in Seq(S) /\ Len(Front(s)) = n
      /\ \A i \in 1..n : Front(s)[i] = s[1 + i - 1]
  BY <1>2, <1>3, SubSeqSeq
<1>5. /\ Front(s) \in Seq(S) /\ Len(Front(s)) = Len(s) - 1
      /\ \A i \in 1..(Len(s) - 1) : Front(s)[i] = s[i]
  BY <1>1, <1>4 DEF n
<1> QED
  BY <1>1, <1>5 DEF Last

\* It reports a queue of buffers of the right type, or nothing.
LEMMA ProcDataQueue ==
  ASSUME TypeOK, NEW m \in Message, ProcData(m)
  PROVE  \/ UNCHANGED <<conn, nfc, seen>>
         \/ \E r, tail \in Seq(Buffer) :
              /\ [conn[m.c] EXCEPT !.rx = r] \in Block
              /\ DataEvent(m.c, [conn[m.c] EXCEPT !.rx = r], nfc.reassembly \/ m.flag, tail)
<1> DEFINE c == m.c
           rx == conn[c].rx
           on == nfc.reassembly \/ m.flag
           with(r) == [conn[c] EXCEPT !.rx = r]
<1>1. /\ c \in Conn /\ conn[c] \in Block /\ rx \in Seq(Buffer) /\ on \in BOOLEAN
      /\ m.n \in Nat /\ m.flag \in BOOLEAN
  BY DEF TypeOK, Message, Block, NfcState
<1>2. NewBuffer(m) \in Buffer /\ <<>> \in Seq(Buffer) /\ <<NewBuffer(m)>> \in Seq(Buffer)
  BY <1>1 DEF NewBuffer, Buffer
<1>3. ASSUME NEW r \in Seq(Buffer)
      PROVE  with(r) \in Block
  BY <1>1 DEF Block
<1>4. ASSUME NEW b \in Buffer
      PROVE  Joined(b, m) \in Buffer /\ [b EXCEPT !.max = TRUE] \in Buffer
             /\ [b EXCEPT !.big = TRUE] \in Buffer
  BY <1>1 DEF Buffer, Joined
<1>5. CASE conn[c].id # "open" /\ UNCHANGED <<conn, nfc, seen>>
  BY <1>5
<1>6. CASE DataEvent(c, with(Append(rx, NewBuffer(m))), on, <<>>)
  <2>1. Append(rx, NewBuffer(m)) \in Seq(Buffer)
    BY <1>1, <1>2
  <2> QED
    BY <1>2, <1>3, <1>6, <2>1
<1>7. CASE rx # <<>> /\
           \/ DataEvent(c, with(Append(Front(rx), Joined(Last(rx), m))), on, <<>>)
           \/ DataEvent(c, with(Append(Front(rx),
                           Joined([Last(rx) EXCEPT !.max = TRUE], m))), on, <<>>)
           \/ DataEvent(c, with(Append(Front(rx), [Last(rx) EXCEPT !.big = TRUE])), on,
                        <<NewBuffer(m)>>)
  <2>1. Last(rx) \in Buffer /\ Front(rx) \in Seq(Buffer)
    BY <1>1, <1>7, LastFront
  <2>2. ASSUME NEW b \in Buffer
        PROVE  Append(Front(rx), b) \in Seq(Buffer)
    BY <2>1
  <2> QED
    BY <1>2, <1>3, <1>4, <1>7, <2>1, <2>2
<1> QED
  BY <1>5, <1>6, <1>7, ProcDataCases

\* nfc_ncif_proc_data keeps the types.
LEMMA ProcDataType ==
  ASSUME TypeOK, NEW m \in Message, ProcData(m)
  PROVE  /\ nfc' \in NfcState /\ conn' \in [Conn -> Block] /\ nfcc' \in NfccState
         /\ toNfcc' \in Seq(Cmd) /\ seen' \in History /\ used' = used
<1>1. m.c \in Conn /\ (nfc.reassembly \/ m.flag) \in BOOLEAN
  BY DEF TypeOK, Message, NfcState
<1>2. nfcc' = nfcc /\ toNfcc' = toNfcc /\ used' = used
  BY ProcDataCases
<1>3. CASE UNCHANGED <<conn, nfc, seen>>
  BY <1>2, <1>3 DEF TypeOK
<1>4. ASSUME NEW cb \in Block, NEW tail \in Seq(Buffer),
             DataEvent(m.c, cb, nfc.reassembly \/ m.flag, tail)
      PROVE  conn' \in [Conn -> Block] /\ nfc' \in NfcState /\ seen' \in History
  BY <1>1, <1>4, DataEventType
<1> QED
  BY <1>2, <1>3, <1>4, ProcDataQueue DEF TypeOK

\* NFC_TASK keeps the types, whatever message it takes.
LEMMA HandleType ==
  ASSUME TypeOK, Handle
  PROVE  TypeOK'
<1> DEFINE m == Head(toHost)
<1>1. toHost # <<>> /\ toHost' = Tail(toHost) /\ toHost \in Seq(Message)
  BY DEF Handle, TypeOK
<1>2. m \in Message /\ toHost' \in Seq(Message)
  BY <1>1
<1>3. m.c \in Conn /\ m.n \in Nat /\ m.flag \in BOOLEAN /\ conn[m.c] \in Block
  BY <1>2 DEF Message, TypeOK
<1> HIDE DEF m
<1>4. RF \in Conn /\ conn[RF] \in Block /\ <<>> \in Seq(Frag) /\ <<>> \in Seq(Buffer)
  BY DEF Conn, TypeOK
<1>5. CASE ProcDeactivate(m)
  <2>1. [conn[RF] EXCEPT !.rx = <<>>, !.tx = <<>>] \in Block
    BY <1>4 DEF Block
  <2>2. conn' = [conn EXCEPT ![RF] = [conn[RF] EXCEPT !.rx = <<>>, !.tx = <<>>]]
    BY <1>5 DEF ProcDeactivate, TypeOK
  <2>3. conn' \in [Conn -> Block]
    BY <2>1, <2>2 DEF TypeOK
  <2>4. nfc' \in NfcState
    BY <1>5 DEF ProcDeactivate, TypeOK, NfcState
  <2> QED
    BY <1>2, <1>5, <2>3, <2>4 DEF ProcDeactivate, TypeOK
<1>6. CASE ProcActivate(m)
  <2>1. [conn[RF] EXCEPT !.num = m.n, !.init = m.n, !.dep = m.flag] \in Block
    BY <1>3, <1>4 DEF Block
  <2>2. conn' = [conn EXCEPT ![RF] = [conn[RF] EXCEPT !.num = m.n, !.init = m.n,
                                                      !.dep = m.flag]]
    BY <1>6 DEF ProcActivate, TypeOK
  <2>3. conn' \in [Conn -> Block]
    BY <2>1, <2>2 DEF TypeOK
  <2>4. nfc' \in NfcState
    <3>1. nfc.link + 1 \in Nat
      BY DEF TypeOK, NfcState
    <3>2. nfc' = [nfc EXCEPT !.st = "OPEN", !.link = nfc.link + 1]
      BY <1>6 DEF ProcActivate
    <3> QED
      BY <3>1, <3>2 DEF TypeOK, NfcState
  <2>5. used' \in Use
    BY <1>6 DEF ProcActivate, TypeOK, Use
  <2> QED
    BY <1>2, <1>6, <2>3, <2>4, <2>5 DEF ProcActivate, TypeOK
<1>7. CASE ProcCredits(m)
  BY <1>2, <1>7, ProcCreditsType DEF TypeOK
<1>8. CASE ProcData(m)
  BY <1>2, <1>8, ProcDataType DEF TypeOK
<1>9. CASE ProcConnCreateRsp(m)
  <2>1. [conn[m.c] EXCEPT !.id = "open", !.num = m.n, !.init = m.n] \in Block
    BY <1>3 DEF Block
  <2>2. conn' = [conn EXCEPT ![m.c] = IF m.flag
                   THEN [conn[m.c] EXCEPT !.id = "open", !.num = m.n, !.init = m.n] ELSE Free]
    BY <1>9 DEF ProcConnCreateRsp
  <2>3. conn' \in [Conn -> Block]
    BY <2>1, <2>2, FreeType DEF TypeOK
  <2> QED
    BY <1>2, <1>9, <2>3 DEF ProcConnCreateRsp, TypeOK
<1>10. CASE ReportConnCloseEvt(m)
  <2>1. conn' \in [Conn -> Block]
    BY <1>10, FreeType DEF ReportConnCloseEvt, TypeOK
  <2> QED
    BY <1>2, <1>10, <2>1 DEF ReportConnCloseEvt, TypeOK
<1>11. CASE ProcReset(m)
  <2>1. Dh \in Conn /\ conn[Dh] \in Block
    BY ConnAssumption DEF Conn, TypeOK
  <2>2. [conn[Dh] EXCEPT !.tx = <<>>] \in Block
    BY <1>4, <2>1 DEF Block
  <2>3. conn' = [conn EXCEPT ![Dh] = [conn[Dh] EXCEPT !.tx = <<>>]]
    BY <1>11 DEF ProcReset
  <2>4. conn' \in [Conn -> Block]
    BY <2>2, <2>3 DEF TypeOK
  <2>5. nfcc' \in NfccState
    BY <1>11, <2>1 DEF ProcReset, Emptied, TypeOK, NfccState
  <2>6. seen' \in History
    BY <1>11, <2>1 DEF ProcReset, TypeOK, History
  <2>7. nfc' \in NfcState
    BY <1>11 DEF ProcReset, TypeOK, NfcState
  <2> QED
    BY <1>2, <1>11, <2>4, <2>5, <2>6, <2>7 DEF ProcReset, TypeOK
<1> QED
  BY <1>5, <1>6, <1>7, <1>8, <1>9, <1>10, <1>11 DEF Handle, m

\* What Msg makes is a message.
LEMMA MsgType ==
  ASSUME NEW k \in {"activated", "deactivated", "credits", "late", "data", "created", "closed"},
         NEW c \in Conn, NEW n \in Nat, NEW f \in BOOLEAN
  PROVE  /\ Msg(k, c, n, f) \in Message
         /\ Msg(k, c, n, f).kind = k /\ Msg(k, c, n, f).c = c
         /\ Msg(k, c, n, f).n = n /\ Msg(k, c, n, f).flag = f
  BY DEF Msg, Message, Kind

\* The messages of the NFCC.
Rsp == Msg("deactivated", RF, 0, FALSE)
Ntf == Msg("deactivated", RF, 0, TRUE)

\* The messages that the NFCC sends.
LEMMA Messages ==
  /\ Rsp \in Message /\ Rsp.kind = "deactivated" /\ Rsp.c = RF
  /\ Ntf \in Message /\ Ntf.kind = "deactivated" /\ Ntf.c = RF
  /\ \A f \in BOOLEAN : Msg("activated", RF, Credits, f) \in Message
  /\ Msg("late", RF, 1, FALSE) \in Message /\ Msg("reset", RF, 0, FALSE) \in Message
  /\ \A c \in Conn :
       /\ Msg("credits", c, 1, FALSE) \in Message
       /\ Msg("closed", c, 0, FALSE) \in Message
       /\ Msg("created", c, 0, FALSE) \in Message
       /\ \A n \in {Credits, NoFC} : Msg("created", c, n, TRUE) \in Message
       /\ \A n \in Nat, f \in BOOLEAN : Msg("data", c, n, f) \in Message
<1>1. RF \in Conn /\ 0 \in Nat /\ 1 \in Nat /\ Credits \in Nat /\ NoFC \in Nat
  BY CreditAssumption DEF Conn
<1> QED
  BY <1>1 DEF Msg, Message, Kind, Rsp, Ntf

\* What an answer of the NFCC to the command m does.
AnswerOutcome(m) ==
  \/ /\ m.kind = "deactivate"
     /\ nfcc' = [nfcc EXCEPT !.mode = "idle"] /\ seen' = seen
     /\ toHost' = IF nfcc.mode = "active" THEN Append(Append(toHost, Rsp), Ntf)
                  ELSE Append(toHost, Rsp)
  \/ /\ m.kind = "create"
     /\ nfcc' = [nfcc EXCEPT !.open = @ \cup {m.c}, !.held[m.c] = 0,
                             !.sent[m.c] = 0, !.ends[m.c] = {}]
     /\ seen' = [seen EXCEPT !.part[m.c] = 0, !.up[m.c] = 0, !.flushed = @ \ {m.c}]
     /\ \E n \in {Credits, NoFC} : toHost' = Append(toHost, Msg("created", m.c, n, TRUE))
  \/ /\ m.kind = "create" /\ nfcc' = nfcc
     /\ seen' = [seen EXCEPT !.part[m.c] = 0, !.up[m.c] = 0, !.flushed = @ \ {m.c}]
     /\ toHost' = Append(toHost, Msg("created", m.c, 0, FALSE))
  \/ /\ m.kind = "close" /\ seen' = seen
     /\ nfcc' = [nfcc EXCEPT !.open = @ \ {m.c}]
     /\ toHost' = Append(toHost, Msg("closed", m.c, 0, FALSE))

\* What the NFCC answers to a command, case by case.
LEMMA AnswerCases ==
  ASSUME toHost \in Seq(Message), Answer
  PROVE  /\ toNfcc # <<>> /\ toNfcc' = Tail(toNfcc)
         /\ nfc' = nfc /\ conn' = conn /\ used' = used
         /\ AnswerOutcome(Head(toNfcc))
<1> DEFINE m == Head(toNfcc)
<1>1. /\ toHost \o <<Rsp, Ntf>> = Append(Append(toHost, Rsp), Ntf)
      /\ toHost \o <<Rsp>> = Append(toHost, Rsp)
  BY Messages, AppendTwo
<1>2. CASE m.kind = "deactivate"
  <2>1. /\ nfcc' = [nfcc EXCEPT !.mode = "idle"] /\ seen' = seen
        /\ toHost' = IF nfcc.mode = "active" THEN toHost \o <<Rsp, Ntf>> ELSE toHost \o <<Rsp>>
    <3>1. m.kind # "create" /\ m.kind # "close"
      BY <1>2
    <3> QED
      BY <3>1, Zenon DEF Answer, Rsp, Ntf
  <2> QED
    BY <1>1, <1>2, <2>1 DEF Answer, AnswerOutcome
<1>3. CASE m.kind = "create"
  BY <1>3 DEF Answer, ToHost, AnswerOutcome
<1>4. CASE m.kind = "close"
  BY <1>4 DEF Answer, ToHost, AnswerOutcome
<1> QED
  BY <1>2, <1>3, <1>4 DEF Answer

\* An answer keeps the types.
LEMMA AnswerType ==
  ASSUME TypeOK, Answer
  PROVE  TypeOK'
<1> DEFINE m == Head(toNfcc)
<1>0. /\ RF \in Conn /\ nfcc \in NfccState /\ toHost \in Seq(Message) /\ toNfcc \in Seq(Cmd)
      /\ seen \in History
  BY DEF Conn, TypeOK
<1>1. toNfcc # <<>> /\ toNfcc' = Tail(toNfcc) /\ nfc' = nfc /\ conn' = conn /\ used' = used
  BY <1>0, AnswerCases
<1>2. m \in Cmd /\ toNfcc' \in Seq(Cmd)
  BY <1>0, <1>1
<1>3. m.c \in Conn
  BY <1>2 DEF Cmd
<1>4. toHost' \in Seq(Message)
  <2>1. \/ toHost' = Append(Append(toHost, Rsp), Ntf)
        \/ \E e \in Message : toHost' = Append(toHost, e)
    <3>1. AnswerOutcome(m)
      BY <1>0, AnswerCases
    <3>2. CASE m.kind = "deactivate"
      BY <3>1, <3>2, Messages DEF AnswerOutcome
    <3>3. CASE m.kind = "create"
      BY <1>3, <3>1, <3>3, Messages DEF AnswerOutcome
    <3>4. CASE m.kind = "close"
      BY <1>3, <3>1, <3>4, Messages DEF AnswerOutcome
    <3> QED
      BY <3>1, <3>2, <3>3, <3>4 DEF AnswerOutcome
  <2>2. Append(toHost, Rsp) \in Seq(Message)
    BY <1>0, Messages, AppendSeq
  <2>3. Append(Append(toHost, Rsp), Ntf) \in Seq(Message)
    BY <2>2, Messages, AppendSeq
  <2>4. \A e \in Message : Append(toHost, e) \in Seq(Message)
    BY <1>0, AppendSeq
  <2> QED
    BY <2>1, <2>3, <2>4
<1>5. nfcc' \in NfccState
  <2>1. /\ [nfcc EXCEPT !.mode = "idle"] \in NfccState
        /\ [nfcc EXCEPT !.open = @ \ {m.c}] \in NfccState
    BY <1>0, <1>3 DEF NfccState
  <2>2. [nfcc EXCEPT !.open = @ \cup {m.c}, !.held[m.c] = 0,
                     !.sent[m.c] = 0, !.ends[m.c] = {}] \in NfccState
    BY <1>0, <1>3 DEF NfccState
  <2> QED
    BY <1>0, <2>1, <2>2, AnswerCases DEF AnswerOutcome
<1>6. seen' \in History
  <2>1. [seen EXCEPT !.part[m.c] = 0, !.up[m.c] = 0, !.flushed = @ \ {m.c}] \in History
    BY <1>0, <1>3 DEF History
  <2> QED
    BY <1>0, <2>1, AnswerCases DEF AnswerOutcome
<1> QED
  BY <1>1, <1>2, <1>4, <1>5, <1>6 DEF TypeOK

\* The steps of the NFCC keep the types.
LEMMA NfccType ==
  ASSUME TypeOK, NfccNext
  PROVE  TypeOK'
<1>0. RF \in Conn /\ nfcc \in NfccState /\ toHost \in Seq(Message)
  BY DEF Conn, TypeOK
<1>1. ASSUME NEW c \in Conn, ReturnCredit(c)
      PROVE  TypeOK'
  <2>1. nfcc.held[c] - 1 \in Nat
    BY <1>0, <1>1 DEF ReturnCredit, NfccState
  <2>2. nfcc' \in NfccState
    BY <1>0, <1>1, <2>1 DEF ReturnCredit, NfccState
  <2>3. UNCHANGED <<nfc, conn, toNfcc, seen, used>>
    BY <1>1 DEF ReturnCredit
  <2>4. toHost' \in Seq(Message)
    <3>1. toHost' = Append(toHost, Msg("credits", c, 1, FALSE))
      BY <1>1 DEF ReturnCredit, ToHost
    <3> QED
      BY <1>0, <3>1, Messages, AppendSeq
  <2> QED
    BY <2>2, <2>3, <2>4 DEF TypeOK
<1>2. ASSUME NEW c \in Conn, NEW more \in BOOLEAN, SendToHost(c, more)
      PROVE  TypeOK'
  <2> DEFINE ends == IF more THEN nfcc.ends[c] ELSE nfcc.ends[c] \cup {nfcc.sent[c] + 1}
             sent == nfcc.sent[c] + 1
  <2>1. sent \in Nat /\ ends \in SUBSET Nat
    BY <1>0 DEF NfccState
  <2>2. nfcc' = [nfcc EXCEPT !.sent[c] = sent, !.ends[c] = ends]
    BY <1>2 DEF SendToHost
  <2>3. Msg("data", c, sent, more) \in Message
    BY <2>1, Messages
  <2>4. toHost' = Append(toHost, Msg("data", c, sent, more))
    BY <1>2 DEF SendToHost, ToHost
  <2> HIDE DEF ends, sent
  <2>5. nfcc' \in NfccState
    BY <1>0, <2>1, <2>2 DEF NfccState
  <2>6. UNCHANGED <<nfc, conn, toNfcc, seen, used>>
    BY <1>2 DEF SendToHost
  <2>7. toHost' \in Seq(Message)
    BY <1>0, <2>3, <2>4
  <2> QED
    BY <2>5, <2>6, <2>7 DEF TypeOK
<1>3. ASSUME NEW dep \in BOOLEAN, Activate(dep)
      PROVE  TypeOK'
  <2>1. nfcc' \in NfccState
    <3>1. PICK late \in 0..(IF "late" \in lim.cases THEN nfcc.late + nfcc.held[RF] ELSE 0) :
            nfcc' = [nfcc EXCEPT !.mode = "active", !.held[RF] = 0, !.sent[RF] = 0,
                                 !.ends[RF] = {}, !.late = late]
      BY <1>3, Zenon DEF Activate
    <3>2. late \in Nat
      BY <1>0 DEF NfccState
    <3> QED
      BY <1>0, <3>1, <3>2 DEF NfccState
  <2>2. seen' \in History
    BY <1>0, <1>3 DEF Activate, TypeOK, History
  <2>3. toHost' \in Seq(Message)
    BY <1>0, <1>3, Messages DEF Activate, ToHost
  <2>4. used' \in Use
    BY <1>3 DEF Activate, TypeOK, Use
  <2>5. UNCHANGED <<nfc, conn, toNfcc>>
    BY <1>3 DEF Activate
  <2> QED
    BY <2>1, <2>2, <2>3, <2>4, <2>5 DEF TypeOK
<1>4. ASSUME LinkLost
      PROVE  TypeOK'
  <2>1. nfcc' \in NfccState
    BY <1>0, <1>4 DEF LinkLost, NfccState
  <2>2. toHost' \in Seq(Message)
    <3>1. toHost' = Append(toHost, Ntf)
      BY <1>4 DEF LinkLost, ToHost, Ntf
    <3> QED
      BY <1>0, <3>1, Messages, AppendSeq
  <2>3. UNCHANGED <<nfc, conn, toNfcc, seen, used>>
    BY <1>4 DEF LinkLost
  <2> QED
    BY <2>1, <2>2, <2>3 DEF TypeOK
<1>5. ASSUME ReturnLate
      PROVE  TypeOK'
  <2>1. nfcc' = [nfcc EXCEPT !.late = nfcc.late - 1] /\ nfcc.late - 1 \in Nat
    BY <1>0, <1>5 DEF ReturnLate, NfccState
  <2>5. nfcc' \in NfccState
    BY <1>0, <2>1 DEF NfccState
  <2>2. toHost' \in Seq(Message)
    BY <1>0, <1>5, Messages, AppendSeq DEF ReturnLate, ToHost
  <2>3. UNCHANGED <<nfc, conn, toNfcc, seen, used>>
    BY <1>5 DEF ReturnLate
  <2> QED
    BY <2>2, <2>3, <2>5 DEF TypeOK
<1>6. ASSUME NfccReset
      PROVE  TypeOK'
  <2>1. nfcc' \in NfccState
    BY <1>0, <1>6 DEF NfccReset, Emptied, NfccState
  <2>2. toHost' \in Seq(Message)
    BY <1>0, <1>6, Messages, AppendSeq DEF NfccReset, ToHost
  <2>3. used' \in Use
    BY <1>6 DEF NfccReset, TypeOK, Use
  <2>4. UNCHANGED <<nfc, conn, toNfcc, seen>>
    BY <1>6 DEF NfccReset
  <2> QED
    BY <2>1, <2>2, <2>3, <2>4 DEF TypeOK
<1> QED
  BY <1>1, <1>2, <1>3, <1>4, <1>5, <1>6, AnswerType DEF NfccNext

\* The type of every variable.
LEMMA StepType ==
  ASSUME TypeOK, [Next]_vars
  PROVE  TypeOK'
<1>1. ASSUME NEW c \in Conn, NEW n \in 1..lim.frag, NFC_SendData(c, n)
      PROVE  TypeOK'
  BY <1>1, SendDataType
<1>2. ASSUME NEW c \in Conn, NFC_FlushData(c)
      PROVE  TypeOK'
  BY <1>2, FlushType
<1>3. ASSUME NEW set \in BOOLEAN, NFC_SetStaticRfCback(set)
      PROVE  TypeOK'
  BY <1>3, CbackType
<1>4. ASSUME NEW set \in BOOLEAN, NFC_SetReassemblyFlag(set)
      PROVE  TypeOK'
  <2>1. nfc' \in NfcState
    BY <1>4 DEF NFC_SetReassemblyFlag, TypeOK, NfcState
  <2> QED
    BY <1>4, <2>1 DEF NFC_SetReassemblyFlag, TypeOK
<1>5. ASSUME NEW c \in Dyn, NFC_ConnCreate(c) \/ NFC_ConnClose(c)
      PROVE  TypeOK'
  BY <1>5, ConnCreateType, ConnCloseType
<1>6. ASSUME NFC_Deactivate \/ WaitToDeactivateTimeout \/ Handle \/ NfccNext
      PROVE  TypeOK'
  BY <1>6, DeactivateType, TimeoutType, HandleType, NfccType
<1>7. CASE UNCHANGED vars
  BY <1>7 DEF vars, TypeOK
<1> QED
  BY <1>1, <1>2, <1>3, <1>4, <1>5, <1>6, <1>7 DEF Next, ApiNext

\* Every variable keeps its type: credits and sequence numbers are never negative, queues
\* hold fragments and buffers, whatever the bounds.
THEOREM DataTypes == Spec => []TypeOK
<1>1. Init => TypeOK
  BY InitType
<1>2. TypeOK /\ [Next]_vars => TypeOK'
  BY StepType
<1> QED
  BY <1>1, <1>2, PTL DEF Spec
-------------------------------------------------------------------------------
(* What the steps do to each connection, for the proofs of the invariants.   *)

\* nfc_ncif_send_data touches one connection.
LEMMA TransmitEffect ==
  ASSUME TypeOK, NEW c \in Conn, NEW cb \in Block, NEW k \in SendCounts(cb),
         Transmit(c, cb, k)
  PROVE  /\ \A d \in Conn \ {c} : /\ conn'[d] = conn[d] /\ nfcc'.held[d] = nfcc.held[d]
                                  /\ seen'.part[d] = seen.part[d]
         /\ conn'[c].id = cb.id /\ conn'[c].init = cb.init /\ conn'[c].rx = cb.rx
         /\ conn'[c].tx = SubSeq(cb.tx, k + 1, Len(cb.tx))
         /\ conn'[c].num = IF cb.num = NoFC THEN NoFC ELSE cb.num - k
         /\ nfcc'.held[c] = IF cb.num = NoFC THEN nfcc.held[c] ELSE nfcc.held[c] + k
         /\ seen'.part[c] = PartAfter(seen.part[c], SubSeq(cb.tx, 1, k))
         /\ seen'.torn = (seen.torn \/ (c \notin seen.flushed
                                        /\ Torn(seen.part[c], SubSeq(cb.tx, 1, k))))
         /\ nfcc'.mode = nfcc.mode /\ nfcc'.sent = nfcc.sent /\ nfcc'.ends = nfcc.ends
         /\ nfcc'.open = nfcc.open
         /\ seen'.up = seen.up /\ seen'.garbled = seen.garbled /\ seen'.flushed = seen.flushed
<1> DEFINE out == SubSeq(cb.tx, 1, k)
           h == IF cb.num = NoFC THEN nfcc.held[c] ELSE nfcc.held[c] + k
           t == seen.torn \/ (c \notin seen.flushed /\ Torn(seen.part[c], out))
           p == PartAfter(seen.part[c], out)
           rest == SubSeq(cb.tx, k + 1, Len(cb.tx))
           left == IF cb.num = NoFC THEN NoFC ELSE cb.num - k
<1>1. /\ conn' = [conn EXCEPT ![c] = [cb EXCEPT !.tx = rest, !.num = left]]
      /\ nfcc' = [nfcc EXCEPT !.held[c] = h]
      /\ seen' = [seen EXCEPT !.torn = t, !.part[c] = p]
  BY DEF Transmit, AfterSend
<1> SUFFICES /\ \A d \in Conn \ {c} : /\ conn'[d] = conn[d] /\ nfcc'.held[d] = nfcc.held[d]
                                      /\ seen'.part[d] = seen.part[d]
             /\ conn'[c].id = cb.id /\ conn'[c].init = cb.init /\ conn'[c].rx = cb.rx
             /\ conn'[c].tx = rest /\ conn'[c].num = left /\ nfcc'.held[c] = h
             /\ seen'.part[c] = p /\ seen'.torn = t
             /\ nfcc'.mode = nfcc.mode /\ nfcc'.sent = nfcc.sent /\ nfcc'.ends = nfcc.ends
             /\ nfcc'.open = nfcc.open
             /\ seen'.up = seen.up /\ seen'.garbled = seen.garbled
             /\ seen'.flushed = seen.flushed
  OBVIOUS
<1> HIDE DEF out, h, t, p, rest, left
<1>2. /\ \A d \in Conn \ {c} : conn'[d] = conn[d]
      /\ conn'[c].id = cb.id /\ conn'[c].init = cb.init /\ conn'[c].rx = cb.rx
      /\ conn'[c].tx = rest /\ conn'[c].num = left
  BY <1>1 DEF TypeOK, Block
<1>3. /\ \A d \in Conn \ {c} : nfcc'.held[d] = nfcc.held[d]
      /\ nfcc'.held[c] = h /\ nfcc'.mode = nfcc.mode /\ nfcc'.sent = nfcc.sent
      /\ nfcc'.ends = nfcc.ends /\ nfcc'.open = nfcc.open
  BY <1>1 DEF TypeOK, NfccState
<1>4. /\ \A d \in Conn \ {c} : seen'.part[d] = seen.part[d]
      /\ seen'.part[c] = p /\ seen'.torn = t
      /\ seen'.up = seen.up /\ seen'.garbled = seen.garbled /\ seen'.flushed = seen.flushed
  BY <1>1 DEF TypeOK, History
<1> QED
  BY <1>2, <1>3, <1>4

\* nfc_data_event touches the received buffers of one connection and the reassembly flag.
LEMMA DataEventEffect ==
  ASSUME TypeOK, NEW c \in Conn, NEW cb \in Block, NEW reassembly, NEW tail,
         DataEvent(c, cb, reassembly, tail)
  PROVE  /\ \A d \in Conn \ {c} : conn'[d] = conn[d] /\ seen'.up[d] = seen.up[d]
         /\ conn'[c].id = cb.id /\ conn'[c].init = cb.init /\ conn'[c].num = cb.num
         /\ conn'[c].tx = cb.tx /\ conn'[c].dep = cb.dep
         /\ nfc'.st = nfc.st /\ nfc'.timer = nfc.timer /\ nfc'.bump = nfc.bump
         /\ seen'.part = seen.part /\ seen'.torn = seen.torn /\ seen'.flushed = seen.flushed
<1> DEFINE k == IF cb.cb THEN Reported(c, cb.rx, reassembly) ELSE 0
           done == SubSeq(cb.rx, 1, k)
           rest == SubSeq(cb.rx, k + 1, Len(cb.rx)) \o tail
           on == reassembly \/ \E i \in 1..k : ~done[i].more
           up == IF k = 0 THEN seen.up[c] ELSE done[k].to
           bad == seen.garbled \/ \E i \in 1..k :
                    ~Right(c, done[i], IF i = 1 THEN seen.up[c] ELSE done[i - 1].to)
<1>1. /\ conn' = [conn EXCEPT ![c] = [cb EXCEPT !.rx = rest]]
      /\ nfc' = [nfc EXCEPT !.reassembly = on]
      /\ seen' = [seen EXCEPT !.up[c] = up, !.garbled = bad]
  BY DEF DataEvent
<1> HIDE DEF k, done, rest, on, up, bad
<1>2. /\ \A d \in Conn \ {c} : conn'[d] = conn[d]
      /\ conn'[c].id = cb.id /\ conn'[c].init = cb.init /\ conn'[c].num = cb.num
      /\ conn'[c].tx = cb.tx /\ conn'[c].dep = cb.dep
  BY <1>1 DEF TypeOK, Block
<1>3. nfc'.st = nfc.st /\ nfc'.timer = nfc.timer /\ nfc'.bump = nfc.bump
  BY <1>1 DEF TypeOK, NfcState
<1>4. /\ \A d \in Conn \ {c} : seen'.up[d] = seen.up[d]
      /\ seen'.part = seen.part /\ seen'.torn = seen.torn /\ seen'.flushed = seen.flushed
  BY <1>1 DEF TypeOK, History
<1> QED
  BY <1>2, <1>3, <1>4

\* A received packet changes nothing on the sending side of any connection.
LEMMA ProcDataEffect ==
  ASSUME TypeOK, NEW m \in Message, ProcData(m)
  PROVE  /\ \A d \in Conn : /\ conn'[d].id = conn[d].id /\ conn'[d].init = conn[d].init
                            /\ conn'[d].num = conn[d].num /\ conn'[d].tx = conn[d].tx
         /\ nfc'.st = nfc.st /\ nfc'.bump = nfc.bump /\ used' = used
         /\ nfcc' = nfcc /\ toNfcc' = toNfcc
         /\ seen'.part = seen.part /\ seen'.torn = seen.torn /\ seen'.flushed = seen.flushed
<1> DEFINE c == m.c
           on == nfc.reassembly \/ m.flag
           with(r) == [conn[c] EXCEPT !.rx = r]
<1>1. c \in Conn /\ conn[c] \in Block
  BY DEF TypeOK, Message
<1>2. \/ UNCHANGED <<conn, nfc, seen>>
      \/ \E r, tail \in Seq(Buffer) : with(r) \in Block /\ DataEvent(c, with(r), on, tail)
  BY ProcDataQueue
<1>3. nfcc' = nfcc /\ toNfcc' = toNfcc /\ used' = used
  BY ProcDataCases
<1>4. CASE UNCHANGED <<conn, nfc, seen>>
  BY <1>3, <1>4
<1>5. ASSUME NEW r, NEW tail, with(r) \in Block, DataEvent(c, with(r), on, tail)
      PROVE  /\ \A d \in Conn : /\ conn'[d].id = conn[d].id /\ conn'[d].init = conn[d].init
                                /\ conn'[d].num = conn[d].num /\ conn'[d].tx = conn[d].tx
             /\ nfc'.st = nfc.st /\ nfc'.bump = nfc.bump
             /\ seen'.part = seen.part /\ seen'.torn = seen.torn /\ seen'.flushed = seen.flushed
  <2>1. /\ with(r).id = conn[c].id /\ with(r).init = conn[c].init
        /\ with(r).num = conn[c].num /\ with(r).tx = conn[c].tx
    BY <1>1 DEF Block
  <2> HIDE DEF with
  <2> QED
    BY <1>1, <1>5, <2>1, DataEventEffect
<1> QED
  BY <1>2, <1>3, <1>4, <1>5

\* Without a reset behind it, no call or credit counts anew.
LEMMA CalmBlocks ==
  ASSUME TypeOK, Calm
  PROVE  NfcRecounted = nfc /\ \A cb \in Block : Recounted(cb) = cb
  BY NfcRecountedType, RecountedBlock DEF Calm, TypeOK

\* Without a reset on its way, NFC_TASK handles something else.
LEMMA CalmHandle ==
  ASSUME TypeOK, Calm, Handle
  PROVE  LET m == Head(toHost) IN
         /\ toHost # <<>> /\ toHost' = Tail(toHost) /\ m = toHost[1] /\ m \in Message
         /\ m.kind # "reset"
         /\ \/ ProcDeactivate(m) \/ ProcActivate(m) \/ ProcCredits(m) \/ ProcData(m)
            \/ ProcConnCreateRsp(m) \/ ReportConnCloseEvt(m)
<1> DEFINE m == Head(toHost)
<1>1. toHost # <<>> /\ toHost' = Tail(toHost) /\ m = toHost[1] /\ m \in Message
  BY TailSeq DEF Handle, TypeOK
<1>2. 1 \in DOMAIN toHost
  BY <1>1, TailSeq DEF TypeOK
<1>3. m.kind # "reset"
  BY <1>1, <1>2 DEF Calm, Owed
<1>4. ~ProcReset(m)
  BY <1>3 DEF ProcReset
<1> QED
  BY <1>1, <1>3, <1>4 DEF Handle

\* The outcomes of nfc_ncif_proc_credits then.
LEMMA CalmCredits ==
  ASSUME TypeOK, Calm, NEW m \in Message, ProcCredits(m)
  PROVE  /\ m.kind \in {"credits", "late"}
         /\ used' = [used EXCEPT !.late = IF m.kind = "late" THEN @ + 1 ELSE @]
         /\ Credited(m).num = IF conn[m.c].num + m.n <= conn[m.c].init
                              THEN conn[m.c].num + m.n ELSE conn[m.c].init
         /\ \/ /\ conn[m.c].id # "open" \/ conn[m.c].num = NoFC
               /\ UNCHANGED <<nfc, conn, nfcc, toNfcc, seen>>
            \/ /\ conn[m.c].id = "open" /\ conn[m.c].num # NoFC
               /\ m.c = RF /\ nfc.st # "OPEN"
               /\ conn' = [conn EXCEPT ![m.c] = Credited(m)]
               /\ nfcc' = nfcc /\ seen' = seen
               /\ \/ /\ AllCreditsBack(Credited(m))
                     /\ nfc' = [nfc EXCEPT !.deactivating = FALSE, !.timer = FALSE,
                                           !.reassembly = TRUE]
                     /\ toNfcc' = Append(toNfcc, DeactivateCmd(nfc.param))
                  \/ nfc' = nfc /\ toNfcc' = toNfcc
            \/ /\ conn[m.c].id = "open" /\ conn[m.c].num # NoFC
               /\ m.c = RF => nfc.st = "OPEN"
               /\ \E k \in SendCounts(Credited(m)) : Transmit(m.c, Credited(m), k)
               /\ nfc' = nfc /\ toNfcc' = toNfcc
<1>1. Credited(m).num = IF conn[m.c].num + m.n <= conn[m.c].init
                        THEN conn[m.c].num + m.n ELSE conn[m.c].init
  BY CreditedBlock DEF Calm
<1> QED
  BY <1>1, ProcCreditsCases, CalmBlocks

\* What a handled message does to the state of RF and to the connection ids.
LEMMA HandleEffect ==
  ASSUME TypeOK, Calm, Handle
  PROVE  LET m == Head(toHost) IN
         /\ toHost # <<>> /\ toHost' = Tail(toHost) /\ m = toHost[1] /\ m \in Message
         /\ m.kind # "reset" /\ nfc'.bump = nfc.bump /\ used'.reset = used.reset
         /\ nfc'.st = IF m.kind = "deactivated" THEN "IDLE"
                      ELSE IF m.kind = "activated" THEN "OPEN" ELSE nfc.st
         /\ \A d \in Conn :
              conn'[d].id = IF m.kind = "created" /\ m.c = d
                            THEN IF m.flag THEN "open" ELSE "illegal"
                            ELSE IF m.kind = "closed" /\ m.c = d THEN "illegal" ELSE conn[d].id
         /\ nfcc'.mode = nfcc.mode /\ nfcc'.sent = nfcc.sent /\ nfcc'.ends = nfcc.ends
         /\ nfcc'.open = nfcc.open
         /\ toNfcc' = toNfcc \/ \E l \in Nat : toNfcc' = Append(toNfcc, DeactivateCmd(l))
<1> DEFINE m == Head(toHost)
<1>1. /\ toHost # <<>> /\ toHost' = Tail(toHost) /\ m = toHost[1] /\ m \in Message
      /\ m.kind # "reset"
  BY CalmHandle
<1>2. m.c \in Conn /\ RF \in Conn
  BY <1>1 DEF Message, Conn
<1>3. \/ ProcDeactivate(m) \/ ProcActivate(m) \/ ProcCredits(m) \/ ProcData(m)
      \/ ProcConnCreateRsp(m) \/ ReportConnCloseEvt(m)
  BY CalmHandle
<1> HIDE DEF m
<1>4. CASE ProcDeactivate(m)
  <2>1. \A d \in Conn : conn'[d].id = conn[d].id
    BY <1>2, <1>4 DEF ProcDeactivate, TypeOK, Block
  <2>2. nfc'.st = "IDLE" /\ nfc'.bump = nfc.bump
    BY <1>4 DEF ProcDeactivate, TypeOK, NfcState
  <2> QED
    BY <1>1, <1>4, <2>1, <2>2 DEF ProcDeactivate, m
<1>5. CASE ProcActivate(m)
  <2>1. \A d \in Conn : conn'[d].id = conn[d].id
    BY <1>2, <1>5 DEF ProcActivate, TypeOK, Block
  <2>2. nfc'.st = "OPEN" /\ nfc'.bump = nfc.bump
    BY <1>5 DEF ProcActivate, TypeOK, NfcState
  <2>3. used'.reset = used.reset
    BY <1>5 DEF ProcActivate, TypeOK, Use
  <2> QED
    BY <1>1, <1>5, <2>1, <2>2, <2>3 DEF ProcActivate, m
<1>6. CASE ProcCredits(m)
  <2>1. m.kind \in {"credits", "late"} /\ used'.reset = used.reset
    BY <1>1, <1>6, CalmCredits DEF TypeOK, Use
  <2>2. CASE UNCHANGED <<nfc, conn, nfcc, toNfcc, seen>>
    BY <1>1, <2>1, <2>2 DEF m
  <2>3. CASE /\ conn' = [conn EXCEPT ![m.c] = Credited(m)]
             /\ nfcc' = nfcc /\ seen' = seen
             /\ \/ /\ nfc' = [nfc EXCEPT !.deactivating = FALSE, !.timer = FALSE,
                                         !.reassembly = TRUE]
                   /\ toNfcc' = Append(toNfcc, DeactivateCmd(nfc.param))
                \/ nfc' = nfc /\ toNfcc' = toNfcc
    <3>1. \A d \in Conn : conn'[d].id = conn[d].id
      BY <1>1, <1>2, <2>3, CreditedBlock DEF TypeOK
    <3>2. nfc'.st = nfc.st /\ nfc'.bump = nfc.bump /\ nfc.param \in Nat
      BY <2>3 DEF TypeOK, NfcState
    <3> QED
      BY <1>1, <2>1, <2>3, <3>1, <3>2 DEF m
  <2>4. CASE (\E k \in SendCounts(Credited(m)) : Transmit(m.c, Credited(m), k))
             /\ nfc' = nfc /\ toNfcc' = toNfcc
    <3>1. PICK k \in SendCounts(Credited(m)) : Transmit(m.c, Credited(m), k)
      BY <2>4
    <3>2. /\ \A d \in Conn : conn'[d].id = conn[d].id
          /\ nfcc'.mode = nfcc.mode /\ nfcc'.sent = nfcc.sent /\ nfcc'.ends = nfcc.ends
          /\ nfcc'.open = nfcc.open
      BY <1>1, <1>2, <3>1, CreditedBlock, TransmitEffect
    <3> QED
      BY <1>1, <2>1, <2>4, <3>2 DEF m
  <2> QED
    BY <1>1, <1>6, <2>2, <2>3, <2>4, CalmCredits
<1>7. CASE ProcData(m)
  <2>1. m.kind = "data"
    BY <1>7, ProcDataCases
  <2> QED
    BY <1>1, <1>7, <2>1, ProcDataEffect DEF m
<1>8. CASE ProcConnCreateRsp(m)
  <2>1. \A d \in Conn : conn'[d].id = IF m.c = d THEN IF m.flag THEN "open" ELSE "illegal"
                                      ELSE conn[d].id
    BY <1>2, <1>8, FreeType DEF ProcConnCreateRsp, TypeOK, Block
  <2> QED
    BY <1>1, <1>8, <2>1 DEF ProcConnCreateRsp, m
<1>9. CASE ReportConnCloseEvt(m)
  <2>1. \A d \in Conn : conn'[d].id = IF m.c = d THEN "illegal" ELSE conn[d].id
    BY <1>2, <1>9, FreeType DEF ReportConnCloseEvt, TypeOK, Block
  <2> QED
    BY <1>1, <1>9, <2>1 DEF ReportConnCloseEvt, m
<1> QED
  BY <1>3, <1>4, <1>5, <1>6, <1>7, <1>8, <1>9
-------------------------------------------------------------------------------
(* The link of RF.                                                           *)

Has(s, k) == \E i \in DOMAIN s : s[i].kind = k

\* Owed asks whether the mailbox has a message of a kind.
LEMMA OwedHas ==
  \A k : (Owed(k) <=> Has(toHost, k)) /\ (Owed(k)' <=> Has(toHost', k))
  BY DEF Owed, Has

\* A message added to a mailbox adds its kind.
LEMMA HasAppend ==
  ASSUME NEW s \in Seq(Message), NEW e \in Message, NEW k
  PROVE  Has(Append(s, e), k) <=> Has(s, k) \/ e.kind = k
<1>1. /\ Len(s) \in Nat /\ DOMAIN s = 1..Len(s)
      /\ DOMAIN Append(s, e) = 1..(Len(s) + 1)
      /\ \A i \in 1..Len(s) : Append(s, e)[i] = s[i]
      /\ Append(s, e)[Len(s) + 1] = e
  BY AppendSeq
<1> QED
  BY <1>1 DEF Has

\* A message taken from a mailbox leaves the kinds of the others.
LEMMA HasTail ==
  ASSUME NEW s \in Seq(Message), s # <<>>, NEW k
  PROVE  /\ Has(s, k) <=> s[1].kind = k \/ Has(Tail(s), k)
         /\ \A i \in 2..Len(s) : s[i].kind = k => Has(Tail(s), k)
<1>1. /\ Len(s) \in Nat \ {0} /\ DOMAIN s = 1..Len(s) /\ DOMAIN Tail(s) = 1..(Len(s) - 1)
      /\ \A i \in 1..(Len(s) - 1) : Tail(s)[i] = s[i + 1]
  BY TailSeq
<1>2. ASSUME NEW i \in 2..Len(s), s[i].kind = k
      PROVE  Has(Tail(s), k)
  <2>1. i - 1 \in DOMAIN Tail(s) /\ Tail(s)[i - 1] = s[i]
    BY <1>1
  <2> QED
    BY <1>2, <2>1 DEF Has
<1>3. Has(Tail(s), k) => Has(s, k)
  BY <1>1 DEF Has
<1>4. Has(s, k) => s[1].kind = k \/ Has(Tail(s), k)
  <2>1. \A i \in 1..Len(s) : i = 1 \/ i \in 2..Len(s)
    BY <1>1
  <2> QED
    BY <1>1, <1>2, <2>1 DEF Has
<1>5. s[1].kind = k => Has(s, k)
  BY <1>1 DEF Has
<1> QED
  BY <1>2, <1>3, <1>4, <1>5

\* Nothing that ends a link stands before the activation that is added.
LEMMA OrderedAppend ==
  ASSUME NEW s \in Seq(Message), NEW e \in Message, Ordered(s),
         e.kind # "activated" \/ (~Has(s, "activated") /\ ~Has(s, "deactivated"))
  PROVE  Ordered(Append(s, e))
<1>1. /\ Len(s) \in Nat /\ DOMAIN s = 1..Len(s)
      /\ DOMAIN Append(s, e) = 1..(Len(s) + 1)
      /\ \A i \in 1..Len(s) : Append(s, e)[i] = s[i]
      /\ Append(s, e)[Len(s) + 1] = e
  BY AppendSeq
<1> SUFFICES ASSUME NEW i \in 1..(Len(s) + 1), NEW j \in 1..(Len(s) + 1), i < j,
                    Append(s, e)[i].kind \in {"activated", "deactivated"}
             PROVE  Append(s, e)[j].kind # "activated"
  BY <1>1 DEF Ordered
<1>2. i \in 1..Len(s)
  BY <1>1
<1> QED
  BY <1>1, <1>2 DEF Ordered, Has

\* A mailbox stays in order when its first message is taken.
LEMMA OrderedTail ==
  ASSUME NEW s \in Seq(Message), s # <<>>, Ordered(s)
  PROVE  /\ Ordered(Tail(s))
         /\ s[1].kind \in {"activated", "deactivated"} => ~Has(Tail(s), "activated")
<1>1. /\ Len(s) \in Nat \ {0} /\ DOMAIN s = 1..Len(s) /\ DOMAIN Tail(s) = 1..(Len(s) - 1)
      /\ \A i \in 1..(Len(s) - 1) : Tail(s)[i] = s[i + 1]
  BY TailSeq
<1>2. \A i \in DOMAIN Tail(s) : i + 1 \in DOMAIN s /\ 1 < i + 1 /\ Tail(s)[i] = s[i + 1]
  BY <1>1
<1>3. s[1].kind \in {"activated", "deactivated"} => ~Has(Tail(s), "activated")
  BY <1>1, <1>2 DEF Ordered, Has
<1>4. Ordered(Tail(s))
  <2> SUFFICES ASSUME NEW i \in DOMAIN Tail(s), NEW j \in DOMAIN Tail(s), i < j,
                      Tail(s)[i].kind \in {"activated", "deactivated"}
               PROVE  Tail(s)[j].kind # "activated"
    BY DEF Ordered
  <2>1. i + 1 < j + 1
    BY <1>1
  <2> QED
    BY <1>2, <2>1 DEF Ordered
<1> QED
  BY <1>3, <1>4

\* NFC_Deactivate only closes an open link.
LEMMA DeactivateEffect ==
  ASSUME TypeOK, NFC_Deactivate
  PROVE  /\ nfc'.st = IF nfc.st = "OPEN" THEN "CLOSING" ELSE nfc.st
         /\ nfc'.bump = nfc.bump /\ used'.reset = used.reset
         /\ UNCHANGED <<conn, nfcc, toHost, seen>>
         /\ \/ toNfcc' = toNfcc
            \/ \E l \in Nat : toNfcc' = Append(toNfcc, DeactivateCmd(l))
<1> DEFINE waits == nfc.st = "OPEN" /\ conn[RF].dep /\ conn[RF].init # conn[RF].num
           st == IF nfc.st = "OPEN" THEN "CLOSING" ELSE nfc.st
           ras == IF waits THEN nfc.reassembly ELSE TRUE
           par == IF waits THEN nfc.link ELSE nfc.param
           de == nfc.deactivating \/ waits
           ti == nfc.timer \/ waits
<1>1. /\ nfc' = [nfc EXCEPT !.st = st, !.deactivating = de, !.timer = ti, !.param = par,
                            !.reassembly = ras]
      /\ toNfcc' = IF waits THEN toNfcc ELSE Append(toNfcc, DeactivateCmd(nfc.link))
      /\ UNCHANGED <<conn, nfcc, toHost, seen>>
  BY DEF NFC_Deactivate
<1>2. nfc.link \in Nat /\ nfc \in NfcState
  BY DEF TypeOK, NfcState
<1> HIDE DEF waits, st, ras, par, de, ti
<1>3. nfc'.st = st /\ nfc'.bump = nfc.bump
  BY <1>1, <1>2 DEF NfcState
<1>4. used'.reset = used.reset
  BY DEF NFC_Deactivate, TypeOK, Use
<1> QED
  BY <1>1, <1>2, <1>3, <1>4 DEF st

\* Calls and the timer leave the mailbox and the NFCC's side of the link alone.
LEMMA QuietEffect ==
  ASSUME TypeOK, Calm, ApiNext \/ WaitToDeactivateTimeout \/ UNCHANGED vars
  PROVE  /\ toHost' = toHost /\ nfcc'.mode = nfcc.mode
         /\ nfcc'.sent = nfcc.sent /\ nfcc'.ends = nfcc.ends /\ nfcc'.open = nfcc.open
         /\ nfc'.st = nfc.st \/ (nfc.st = "OPEN" /\ nfc'.st = "CLOSING")
         /\ nfc'.bump = nfc.bump /\ used'.reset = used.reset
<1> DEFINE Quiet == /\ toHost' = toHost /\ nfcc'.mode = nfcc.mode
                    /\ nfcc'.sent = nfcc.sent /\ nfcc'.ends = nfcc.ends
                    /\ nfcc'.open = nfcc.open
                    /\ nfc'.st = nfc.st \/ (nfc.st = "OPEN" /\ nfc'.st = "CLOSING")
                    /\ nfc'.bump = nfc.bump /\ used'.reset = used.reset
<1>1. ASSUME NEW c \in Conn, NEW n \in 1..lim.frag, NFC_SendData(c, n)
      PROVE  Quiet
  <2>1. PICK k \in SendCounts(Queued(c, n)) : Transmit(c, Queued(c, n), k)
    BY <1>1, SendDataEffect
  <2>2. nfc' = nfc /\ used'.reset = used.reset
    BY <1>1, SendDataEffect, CalmBlocks DEF TypeOK, Use
  <2> QED
    BY <1>1, <2>1, <2>2, SendDataEffect, TransmitEffect
<1>2. ASSUME NEW c \in Conn, NFC_FlushData(c)
      PROVE  Quiet
  BY <1>2 DEF NFC_FlushData
<1>3. ASSUME NEW set \in BOOLEAN, NFC_SetStaticRfCback(set)
      PROVE  Quiet
  <2>1. RF \in Conn /\ [conn[RF] EXCEPT !.cb = set] \in Block
    BY DEF Conn, TypeOK, Block
  <2> QED
    BY <1>3, <2>1, DataEventEffect DEF NFC_SetStaticRfCback
<1>4. ASSUME NEW set \in BOOLEAN, NFC_SetReassemblyFlag(set)
      PROVE  Quiet
  BY <1>4 DEF NFC_SetReassemblyFlag, TypeOK, NfcState
<1>5. ASSUME NEW c \in Dyn, NFC_ConnCreate(c) \/ NFC_ConnClose(c)
      PROVE  Quiet
  <2>1. used'.reset = used.reset
    BY <1>5 DEF NFC_ConnCreate, NFC_ConnClose, TypeOK, Use
  <2> QED
    BY <1>5, <2>1 DEF NFC_ConnCreate, NFC_ConnClose
<1>6. ASSUME NFC_Deactivate
      PROVE  Quiet
  BY <1>6, DeactivateEffect
<1>7. ASSUME WaitToDeactivateTimeout
      PROVE  Quiet
  BY <1>7 DEF WaitToDeactivateTimeout, TypeOK, NfcState
<1>8. CASE UNCHANGED vars
  BY <1>8 DEF vars
<1> QED
  BY <1>1, <1>2, <1>3, <1>4, <1>5, <1>6, <1>7, <1>8 DEF ApiNext

\* The NFCC sends one message or two, and only a reset of its own makes one of a reset.
LEMMA NfccReset0 ==
  ASSUME TypeOK, used'.reset = 0
  PROVE  ~NfccReset
<1> SUFFICES ASSUME NfccReset
             PROVE  FALSE
  OBVIOUS
<1>1. used' = [used EXCEPT !.reset = used.reset + 1] /\ used \in Use
  BY DEF NfccReset, TypeOK
<1>2. used'.reset = used.reset + 1 /\ used.reset \in Nat
  BY <1>1 DEF Use
<1> QED
  BY <1>2

\* NFC_TASK resets nothing.
LEMMA HandleResets ==
  ASSUME TypeOK, Handle
  PROVE  used'.reset = used.reset
<1> DEFINE Kept == used'.reset = used.reset
<1>1. \A m : ProcCredits(m) => Kept
  BY ProcCreditsCases DEF TypeOK, Use
<1>2. \A m : ProcActivate(m) => Kept
  BY DEF ProcActivate, TypeOK, Use
<1>3. \A m : ProcDeactivate(m) \/ ProcData(m) \/ ProcConnCreateRsp(m)
              \/ ReportConnCloseEvt(m) \/ ProcReset(m) => Kept
  BY ProcDataCases DEF ProcDeactivate, ProcConnCreateRsp, ReportConnCloseEvt, ProcReset
<1> QED
  BY <1>1, <1>2, <1>3 DEF Handle

\* The NFCC leaves NFC_TASK's state alone.
LEMMA NfccLeaves ==
  ASSUME TypeOK, NfccNext, ~NfccReset
  PROVE  nfc' = nfc /\ conn' = conn /\ used'.reset = used.reset
<1> DEFINE Kept == nfc' = nfc /\ conn' = conn /\ used'.reset = used.reset
<1>1. \A c \in Conn : ReturnCredit(c) => Kept
  BY Zenon DEF ReturnCredit
<1>2. \A c \in Conn, more \in BOOLEAN : SendToHost(c, more) => Kept
  BY Zenon DEF SendToHost
<1>3. \A dep \in BOOLEAN : Activate(dep) => Kept
  <2> SUFFICES ASSUME NEW dep \in BOOLEAN, Activate(dep)
               PROVE  Kept
    OBVIOUS
  <2>1. used' = [used EXCEPT !.act = used.act + 1] /\ nfc' = nfc /\ conn' = conn
    BY DEF Activate
  <2> QED
    BY <2>1 DEF TypeOK, Use
<1>4. ReturnLate \/ LinkLost \/ Answer => Kept
  BY DEF ReturnLate, LinkLost, Answer
<1> QED
  BY <1>1, <1>2, <1>3, <1>4 DEF NfccNext

\* Resets are counted.
LEMMA ResetsGrow ==
  ASSUME TypeOK, [Next]_vars
  PROVE  used'.reset \in {used.reset, used.reset + 1} /\ used.reset \in Nat
<1>0. used \in Use /\ used.reset \in Nat
  BY DEF TypeOK, Use
<1> DEFINE Kept == used'.reset = used.reset
<1>1. CASE used' = used
  BY <1>0, <1>1
<1>2. ASSUME NEW c, NEW n, NFC_SendData(c, n)
      PROVE  Kept
  BY <1>0, <1>2 DEF NFC_SendData, Use
<1>3. ASSUME NEW c, NFC_ConnCreate(c)
      PROVE  Kept
  BY <1>0, <1>3 DEF NFC_ConnCreate, Use
<1>4. ASSUME NFC_Deactivate
      PROVE  Kept
  BY <1>4, DeactivateEffect
<1>5. ASSUME Handle
      PROVE  Kept
  BY <1>5, HandleResets
<1>6. ASSUME NEW dep, Activate(dep)
      PROVE  Kept
  BY <1>0, <1>6 DEF Activate, Use
<1>7. CASE NfccReset
  BY <1>0, <1>7 DEF NfccReset, Use
<1>8. CASE WaitToDeactivateTimeout \/ ReturnLate \/ LinkLost \/ Answer \/ UNCHANGED vars
  BY <1>1, <1>8 DEF WaitToDeactivateTimeout, ReturnLate, LinkLost, Answer, vars
<1>9. ASSUME NEW c, NFC_FlushData(c) \/ NFC_ConnClose(c) \/ ReturnCredit(c)
      PROVE  Kept
  BY <1>0, <1>9 DEF NFC_FlushData, NFC_ConnClose, ReturnCredit
<1>10. ASSUME NEW c, NEW more, SendToHost(c, more)
       PROVE  Kept
  BY <1>0, <1>10 DEF SendToHost
<1>11. ASSUME NEW set, NFC_SetStaticRfCback(set) \/ NFC_SetReassemblyFlag(set)
       PROVE  Kept
  BY <1>0, <1>11 DEF NFC_SetStaticRfCback, NFC_SetReassemblyFlag
<1> QED
  BY <1>0, <1>2, <1>3, <1>4, <1>5, <1>6, <1>7, <1>8, <1>9, <1>10, <1>11
     DEF Next, ApiNext, NfccNext

\* What the NFCC sends in one step.
LEMMA NfccSends ==
  ASSUME TypeOK, NfccNext, ~NfccReset
  PROVE  \/ \E e \in Message : e.kind # "reset" /\ toHost' = Append(toHost, e)
         \/ toHost' = Append(Append(toHost, Rsp), Ntf)
<1>0. /\ toHost \in Seq(Message) /\ toNfcc \in Seq(Cmd) /\ RF \in Conn /\ nfcc \in NfccState
      /\ Credits \in Nat /\ NoFC \in Nat
  BY CreditAssumption DEF TypeOK, Conn
<1> DEFINE New(e) == e \in Message /\ e.kind # "reset" /\ toHost' = Append(toHost, e)
<1>1. ASSUME NEW c \in Conn, ReturnCredit(c)
      PROVE  New(Msg("credits", c, 1, FALSE))
  BY <1>1, MsgType DEF ReturnCredit, ToHost
<1>2. ASSUME NEW c \in Conn, NEW more \in BOOLEAN, SendToHost(c, more)
      PROVE  New(Msg("data", c, nfcc.sent[c] + 1, more))
  <2>1. nfcc.sent[c] + 1 \in Nat
    BY <1>0 DEF NfccState
  <2> QED
    BY <1>2, <2>1, MsgType DEF SendToHost, ToHost
<1>3. ASSUME NEW dep \in BOOLEAN, Activate(dep)
      PROVE  New(Msg("activated", RF, Credits, dep))
  BY <1>0, <1>3, MsgType DEF Activate, ToHost
<1>4. ASSUME ReturnLate
      PROVE  New(Msg("late", RF, 1, FALSE))
  BY <1>0, <1>4, MsgType DEF ReturnLate, ToHost
<1>5. ASSUME LinkLost
      PROVE  New(Ntf)
  BY <1>5, Messages DEF LinkLost, ToHost, Ntf
<1>6. CASE Answer
  <2> DEFINE m == Head(toNfcc)
  <2>1. AnswerOutcome(m) /\ m \in Cmd
    BY <1>0, <1>6, AnswerCases
  <2>2. m.c \in Conn
    BY <2>1 DEF Cmd
  <2> HIDE DEF m
  <2>3. \A k \in {"created", "closed"}, n \in Nat, f \in BOOLEAN :
          Msg(k, m.c, n, f) \in Message /\ Msg(k, m.c, n, f).kind # "reset"
    BY <2>2, MsgType
  <2> QED
    BY <1>0, <2>1, <2>3, Messages DEF AnswerOutcome
<1> QED
  BY <1>1, <1>2, <1>3, <1>4, <1>5, <1>6 DEF NfccNext

\* As long as the NFCC has not reset itself nothing is counted anew.
LEMMA CalmStep ==
  ASSUME TypeOK, Calm, [Next]_vars, used'.reset = 0
  PROVE  Calm'
<1>0. toHost \in Seq(Message) /\ RF \in Conn
  BY DEF TypeOK, Conn
<1>1. CASE ApiNext \/ WaitToDeactivateTimeout \/ UNCHANGED vars
  BY <1>1, QuietEffect DEF Calm, Owed
<1>2. CASE Handle
  <2>1. Owed("reset")' => Owed("reset")
    BY <1>0, <1>2, HandleEffect, HasTail, OwedHas
  <2> QED
    BY <1>2, <2>1, HandleEffect DEF Calm
<1>3. ASSUME NEW s \in Seq(Message), NEW e \in Message, ~Has(s, "reset"), e.kind # "reset"
      PROVE  Append(s, e) \in Seq(Message) /\ ~Has(Append(s, e), "reset")
  BY <1>3, AppendSeq, HasAppend
<1>4. CASE NfccNext
  <2>1. nfc' = nfc
    BY <1>4, NfccReset0, NfccLeaves
  <2>2. ~Has(toHost, "reset")
    BY OwedHas DEF Calm
  <2>3. ~Has(toHost', "reset")
    <3>1. CASE \E e \in Message : e.kind # "reset" /\ toHost' = Append(toHost, e)
      BY <1>0, <1>3, <2>2, <3>1
    <3>2. CASE toHost' = Append(Append(toHost, Rsp), Ntf)
      BY <1>0, <1>3, <2>2, <3>2, Messages
    <3> QED
      BY <1>4, <3>1, <3>2, NfccSends, NfccReset0
  <2> QED
    BY <2>1, <2>3, OwedHas DEF Calm
<1> QED
  BY <1>1, <1>2, <1>4 DEF Next

\* The link is up and down at the NFCC as the messages on their way say.
LEMMA LinkOrderStep ==
  ASSUME TypeOK, Calm, LinkOrder, [Next]_vars, used'.reset = 0
  PROVE  LinkOrder'
<1>0. toHost \in Seq(Message) /\ nfcc \in NfccState
  BY DEF TypeOK
<1>1. ASSUME ApiNext \/ WaitToDeactivateTimeout \/ UNCHANGED vars
      PROVE  LinkOrder'
  BY <1>1, QuietEffect DEF LinkOrder, Owed
<1>2. ASSUME Handle
      PROVE  LinkOrder'
  <2> DEFINE m == Head(toHost)
  <2>1. /\ toHost # <<>> /\ toHost' = Tail(toHost) /\ m = toHost[1]
        /\ nfcc'.mode = nfcc.mode
        /\ nfc'.st = IF m.kind = "deactivated" THEN "IDLE"
                     ELSE IF m.kind = "activated" THEN "OPEN" ELSE nfc.st
    BY <1>2, HandleEffect
  <2>2. /\ Owed("activated") <=> m.kind = "activated" \/ Owed("activated")'
        /\ Owed("deactivated") <=> m.kind = "deactivated" \/ Owed("deactivated")'
    BY <1>0, <2>1, HasTail, OwedHas
  <2>3. /\ Ordered(toHost')
        /\ m.kind \in {"activated", "deactivated"} => ~Owed("activated")'
    BY <1>0, <2>1, OrderedTail DEF LinkOrder, Owed, Has
  <2> HIDE DEF m
  <2> QED
    BY <2>1, <2>2, <2>3 DEF LinkOrder
<1>3. ASSUME NEW e \in Message, toHost' = Append(toHost, e),
             nfc'.st = nfc.st,
             \/ e.kind \notin {"activated", "deactivated"} /\ nfcc'.mode = nfcc.mode
             \/ e.kind = "deactivated" /\ nfcc'.mode = "idle"
             \/ /\ e.kind = "activated" /\ nfcc'.mode = "active"
                /\ nfcc.mode # "active" /\ ~Owed("deactivated")
      PROVE  LinkOrder'
  <2>1. /\ Owed("activated")' <=> Owed("activated") \/ e.kind = "activated"
        /\ Owed("deactivated")' <=> Owed("deactivated") \/ e.kind = "deactivated"
    BY <1>0, <1>3, HasAppend DEF Owed, Has
  <2>2. Ordered(toHost')
    BY <1>0, <1>3, OrderedAppend DEF LinkOrder, Owed, Has
  <2> QED
    BY <1>3, <2>1, <2>2 DEF LinkOrder
<1>4. ASSUME NEW c \in Conn, ReturnCredit(c)
      PROVE  LinkOrder'
  <2>1. nfcc'.mode = nfcc.mode /\ nfc' = nfc
    BY <1>0, <1>4 DEF ReturnCredit, NfccState
  <2>2. toHost' = Append(toHost, Msg("credits", c, 1, FALSE))
    BY <1>4 DEF ReturnCredit, ToHost
  <2> QED
    BY <1>3, <2>1, <2>2, Messages, MsgType
<1>5. ASSUME NEW c \in Conn, NEW more \in BOOLEAN, SendToHost(c, more)
      PROVE  LinkOrder'
  <2> DEFINE n == nfcc.sent[c] + 1
  <2>1. nfcc'.mode = nfcc.mode /\ nfc' = nfc
    BY <1>0, <1>5 DEF SendToHost, NfccState
  <2>2. toHost' = Append(toHost, Msg("data", c, n, more)) /\ n \in Nat
    BY <1>0, <1>5 DEF SendToHost, ToHost, NfccState
  <2> HIDE DEF n
  <2> QED
    BY <1>3, <2>1, <2>2, MsgType
<1>6. ASSUME NEW dep \in BOOLEAN, Activate(dep)
      PROVE  LinkOrder'
  <2>1. /\ nfcc'.mode = "active" /\ nfc' = nfc
        /\ nfcc.mode # "active" /\ ~Owed("deactivated")
    BY <1>0, <1>6 DEF Activate, NfccState
  <2>2. toHost' = Append(toHost, Msg("activated", RF, Credits, dep))
    BY <1>6 DEF Activate, ToHost
  <2>3. RF \in Conn /\ Credits \in Nat
    BY CreditAssumption DEF Conn
  <2> QED
    BY <1>3, <2>1, <2>2, <2>3, MsgType
<1>7. ASSUME LinkLost
      PROVE  LinkOrder'
  <2>1. nfcc'.mode = "idle" /\ nfc' = nfc
    BY <1>0, <1>7 DEF LinkLost, NfccState
  <2>2. toHost' = Append(toHost, Ntf)
    BY <1>7 DEF LinkLost, ToHost, Ntf
  <2> QED
    BY <1>3, <2>1, <2>2, Messages
<1>8. ASSUME Answer
      PROVE  LinkOrder'
  <2> DEFINE m == Head(toNfcc)
  <2>0. toNfcc \in Seq(Cmd)
    BY DEF TypeOK
  <2>1. nfc' = nfc /\ AnswerOutcome(m) /\ m.c \in Conn
    <3>1. toNfcc # <<>> /\ nfc' = nfc /\ AnswerOutcome(m)
      BY <1>0, <1>8, AnswerCases
    <3>2. m \in Cmd
      BY <2>0, <3>1
    <3> QED
      BY <3>1, <3>2 DEF Cmd
  <2>2. CASE m.kind = "deactivate" /\ nfcc.mode = "active"
    <3>1. nfcc'.mode = "idle" /\ toHost' = Append(Append(toHost, Rsp), Ntf)
      BY <1>0, <2>1, <2>2 DEF AnswerOutcome, NfccState
    <3> DEFINE s == Append(toHost, Rsp)
    <3>2. s \in Seq(Message)
      BY <1>0, Messages, AppendSeq
    <3>3. Ordered(s)
      BY <1>0, Messages, OrderedAppend DEF LinkOrder
    <3> HIDE DEF s
    <3>4. Ordered(toHost') /\ Owed("deactivated")'
      BY <3>1, <3>2, <3>3, Messages, OrderedAppend, HasAppend, OwedHas DEF s
    <3>5. Owed("activated")' => Owed("activated")
      BY <1>0, <3>1, <3>2, Messages, HasAppend, OwedHas DEF s
    <3> QED
      BY <2>1, <3>1, <3>4, <3>5 DEF LinkOrder
  <2>3. CASE m.kind = "deactivate" /\ nfcc.mode # "active"
    <3>1. nfcc'.mode = "idle" /\ toHost' = Append(toHost, Rsp)
      BY <1>0, <2>1, <2>3 DEF AnswerOutcome, NfccState
    <3> QED
      BY <1>3, <2>1, <3>1, Messages
  <2>4. CASE m.kind = "create"
    <3>1. nfcc'.mode = nfcc.mode
      BY <1>0, <2>1, <2>4 DEF AnswerOutcome, NfccState
    <3>2. \E e \in Message : e.kind = "created" /\ toHost' = Append(toHost, e)
      <4>1. \/ toHost' = Append(toHost, Msg("created", m.c, 0, FALSE))
            \/ \E n \in {Credits, NoFC} : toHost' = Append(toHost, Msg("created", m.c, n, TRUE))
        BY <2>1, <2>4 DEF AnswerOutcome
      <4> DEFINE c == m.c
      <4>2. ASSUME NEW n \in Nat, NEW f \in BOOLEAN
            PROVE  Msg("created", c, n, f) \in Message /\ Msg("created", c, n, f).kind = "created"
        <5>1. c \in Conn
          BY <2>1
        <5> HIDE DEF c
        <5> QED
          BY <5>1, MsgType
      <4>3. 0 \in Nat /\ Credits \in Nat /\ NoFC \in Nat
        BY CreditAssumption
      <4> QED
        BY <4>1, <4>2, <4>3
    <3> QED
      BY <1>3, <2>1, <3>1, <3>2
  <2>5. CASE m.kind = "close"
    <3>1. nfcc'.mode = nfcc.mode /\ toHost' = Append(toHost, Msg("closed", m.c, 0, FALSE))
      BY <1>0, <2>1, <2>5 DEF AnswerOutcome, NfccState
    <3>2. /\ Msg("closed", m.c, 0, FALSE) \in Message
          /\ Msg("closed", m.c, 0, FALSE).kind = "closed"
      BY <2>1, Messages DEF Msg
    <3> QED
      BY <1>3, <2>1, <3>1, <3>2
  <2> QED
    BY <2>1, <2>2, <2>3, <2>4, <2>5 DEF AnswerOutcome
<1>9. ASSUME ReturnLate
      PROVE  LinkOrder'
  <2>1. nfcc'.mode = nfcc.mode /\ nfc' = nfc
    BY <1>0, <1>9 DEF ReturnLate, NfccState
  <2>2. toHost' = Append(toHost, Msg("late", RF, 1, FALSE)) /\ RF \in Conn
    BY <1>9 DEF ReturnLate, ToHost, Conn
  <2> QED
    BY <1>3, <2>1, <2>2, MsgType
<1> QED
  BY <1>1, <1>2, <1>4, <1>5, <1>6, <1>7, <1>8, <1>9, NfccReset0 DEF Next, NfccNext
-------------------------------------------------------------------------------
(* Connections are created and closed by one command and one answer.         *)

\* A message added to a mailbox is for its connection.
LEMMA ForAppend ==
  ASSUME NEW S, NEW s \in Seq(S), NEW e \in S, NEW k, NEW c
  PROVE  For(Append(s, e), k, c) <=> For(s, k, c) \/ (e.kind = k /\ e.c = c)
<1>1. /\ Len(s) \in Nat /\ DOMAIN s = 1..Len(s)
      /\ DOMAIN Append(s, e) = 1..(Len(s) + 1)
      /\ \A i \in 1..Len(s) : Append(s, e)[i] = s[i]
      /\ Append(s, e)[Len(s) + 1] = e
  BY AppendSeq
<1> QED
  BY <1>1 DEF For

\* What the first message of a mailbox leaves behind.
LEMMA ForTail ==
  ASSUME NEW S, NEW s \in Seq(S), s # <<>>, NEW k, NEW c
  PROVE  For(s, k, c) <=> (s[1].kind = k /\ s[1].c = c) \/ For(Tail(s), k, c)
<1>1. /\ Len(s) \in Nat \ {0} /\ DOMAIN s = 1..Len(s) /\ DOMAIN Tail(s) = 1..(Len(s) - 1)
      /\ \A i \in 1..(Len(s) - 1) : Tail(s)[i] = s[i + 1]
  BY TailSeq
<1>2. For(Tail(s), k, c) => For(s, k, c)
  BY <1>1 DEF For
<1>3. For(s, k, c) => (s[1].kind = k /\ s[1].c = c) \/ For(Tail(s), k, c)
  <2> SUFFICES ASSUME NEW i \in DOMAIN s, s[i].kind = k, s[i].c = c, i # 1
               PROVE  For(Tail(s), k, c)
    BY DEF For
  <2>1. i - 1 \in DOMAIN Tail(s) /\ Tail(s)[i - 1] = s[i]
    BY <1>1
  <2> QED
    BY <2>1 DEF For
<1>4. s[1].kind = k /\ s[1].c = c => For(s, k, c)
  BY <1>1 DEF For
<1> QED
  BY <1>2, <1>3, <1>4

\* A message for a connection that none of its kind is for keeps them single.
LEMMA SingleAppend ==
  ASSUME NEW S, NEW s \in Seq(S), NEW e \in S, NEW K, Single(s, K),
         e.kind \in K => ~For(s, e.kind, e.c)
  PROVE  Single(Append(s, e), K)
<1>1. /\ Len(s) \in Nat /\ DOMAIN s = 1..Len(s)
      /\ DOMAIN Append(s, e) = 1..(Len(s) + 1)
      /\ \A i \in 1..Len(s) : Append(s, e)[i] = s[i]
      /\ Append(s, e)[Len(s) + 1] = e
  BY AppendSeq
<1>2. \A i \in 1..(Len(s) + 1) : i = Len(s) + 1 \/ i \in 1..Len(s)
  BY <1>1
<1>3. e.kind \in K => \A i \in 1..Len(s) : ~(s[i].kind = e.kind /\ s[i].c = e.c)
  BY <1>1 DEF For
<1> SUFFICES ASSUME NEW i \in 1..(Len(s) + 1), NEW j \in 1..(Len(s) + 1), i # j,
                    Append(s, e)[i].kind \in K,
                    Append(s, e)[i].kind = Append(s, e)[j].kind
             PROVE  Append(s, e)[i].c # Append(s, e)[j].c
  BY <1>1 DEF Single
<1>4. CASE i \in 1..Len(s) /\ j \in 1..Len(s)
  BY <1>1, <1>4 DEF Single
<1>5. CASE i = Len(s) + 1 /\ j \in 1..Len(s)
  BY <1>1, <1>3, <1>5
<1>6. CASE i \in 1..Len(s) /\ j = Len(s) + 1
  BY <1>1, <1>3, <1>6
<1> QED
  BY <1>2, <1>4, <1>5, <1>6

\* Messages stay single when one is taken, and none is left like it.
LEMMA SingleTail ==
  ASSUME NEW S, NEW s \in Seq(S), s # <<>>, NEW K, Single(s, K)
  PROVE  /\ Single(Tail(s), K)
         /\ s[1].kind \in K => ~For(Tail(s), s[1].kind, s[1].c)
<1>1. /\ Len(s) \in Nat \ {0} /\ DOMAIN s = 1..Len(s) /\ DOMAIN Tail(s) = 1..(Len(s) - 1)
      /\ \A i \in 1..(Len(s) - 1) : Tail(s)[i] = s[i + 1]
  BY TailSeq
<1>2. \A i \in DOMAIN Tail(s) : i + 1 \in DOMAIN s /\ i + 1 # 1 /\ Tail(s)[i] = s[i + 1]
  BY <1>1
<1>3. \A i, j \in DOMAIN Tail(s) : i # j => i + 1 # j + 1
  BY <1>1
<1>4. Single(Tail(s), K)
  BY <1>2, <1>3 DEF Single
<1>5. ASSUME s[1].kind \in K, NEW i \in DOMAIN Tail(s), Tail(s)[i].kind = s[1].kind,
             Tail(s)[i].c = s[1].c
      PROVE  FALSE
  BY <1>1, <1>2, <1>5 DEF Single
<1> QED
  BY <1>4, <1>5 DEF For

\* A property of every message stays true of the tail, and of one more message that has it.
LEMMA AllTail ==
  ASSUME NEW S, NEW s \in Seq(S), s # <<>>
  PROVE  \A i \in DOMAIN Tail(s) : i + 1 \in DOMAIN s /\ Tail(s)[i] = s[i + 1]
  BY TailSeq

\* The entries of a mailbox with one added.
LEMMA AllAppend ==
  ASSUME NEW S, NEW s \in Seq(S), NEW e \in S
  PROVE  \A i \in DOMAIN Append(s, e) :
           \/ i \in DOMAIN s /\ Append(s, e)[i] = s[i]
           \/ Append(s, e)[i] = e
<1>1. /\ Len(s) \in Nat /\ DOMAIN s = 1..Len(s)
      /\ DOMAIN Append(s, e) = 1..(Len(s) + 1)
      /\ \A i \in 1..Len(s) : Append(s, e)[i] = s[i]
      /\ Append(s, e)[Len(s) + 1] = e
  BY AppendSeq
<1> QED
  BY <1>1

\* A deactivation creates and closes nothing.
LEMMA DeactivateCmdFacts ==
  ASSUME NEW l \in Nat
  PROVE  DeactivateCmd(l) \in Cmd /\ DeactivateCmd(l).kind = "deactivate"
  BY DeactivateCmdType DEF DeactivateCmd

\* A step that keeps the ids, and at most asks to deactivate, keeps the handshake.
LEMMA HandshakeQuiet ==
  ASSUME TypeOK, Handshake, toHost' = toHost,
         \/ toNfcc' = toNfcc
         \/ \E l \in Nat : toNfcc' = Append(toNfcc, DeactivateCmd(l)),
         \A d \in Conn : conn'[d].id = conn[d].id
  PROVE  Handshake'
<1>0. toNfcc \in Seq(Cmd) /\ Dyn \subseteq Conn
  BY DEF TypeOK, Conn
<1>1. CASE toNfcc' = toNfcc
  BY <1>0, <1>1 DEF Handshake
<1>2. CASE \E l \in Nat : toNfcc' = Append(toNfcc, DeactivateCmd(l))
  <2>1. PICK l \in Nat : toNfcc' = Append(toNfcc, DeactivateCmd(l))
    BY <1>2
  <2> DEFINE e == DeactivateCmd(l)
  <2>2. e \in Cmd /\ e.kind = "deactivate"
    BY DeactivateCmdFacts
  <2> HIDE DEF e
  <2>3. toNfcc' = Append(toNfcc, e)
    BY <2>1 DEF e
  <2>4. \A c \in Dyn : /\ For(toNfcc', "create", c) <=> For(toNfcc, "create", c)
                       /\ For(toNfcc', "close", c) <=> For(toNfcc, "close", c)
    BY <1>0, <2>2, <2>3, ForAppend
  <2>5. Single(toNfcc', {"create", "close"})
    BY <1>0, <2>2, <2>3, SingleAppend DEF Handshake
  <2>6. \A i \in DOMAIN toNfcc' : CommandOK(toNfcc'[i])
    BY <1>0, <2>2, <2>3, AllAppend DEF Handshake, CommandOK
  <2> QED
    BY <1>0, <2>4, <2>5, <2>6 DEF Handshake
<1> QED
  BY <1>1, <1>2

\* So does a message about something else.
LEMMA HandshakeNews ==
  ASSUME TypeOK, Handshake, NEW e \in Message, toHost' = Append(toHost, e), MessageOK(e),
         e.kind \notin {"created", "closed"}, toNfcc' = toNfcc, conn' = conn
  PROVE  Handshake'
<1>0. toHost \in Seq(Message)
  BY DEF TypeOK
<1>1. \A c \in Dyn : /\ For(toHost', "created", c) <=> For(toHost, "created", c)
                     /\ For(toHost', "closed", c) <=> For(toHost, "closed", c)
  BY <1>0, ForAppend
<1>2. Single(toHost', {"created", "closed"})
  BY <1>0, SingleAppend DEF Handshake
<1>3. \A i \in DOMAIN toHost' : MessageOK(toHost'[i])
  BY <1>0, AllAppend DEF Handshake
<1> QED
  BY <1>1, <1>2, <1>3 DEF Handshake

\* NFC_ConnCreate asks for a connection that nothing is on its way for.
LEMMA HandshakeConnCreate ==
  ASSUME TypeOK, Handshake, NEW c \in Dyn, NFC_ConnCreate(c)
  PROVE  Handshake'
<1> DEFINE e == Command("create", c)
<1>0. toNfcc \in Seq(Cmd) /\ c \in Conn /\ Dyn \subseteq Conn
  BY DEF TypeOK, Conn
<1>1. e \in Cmd /\ e.kind = "create" /\ e.c = c /\ e.link = 0
  BY <1>0, CommandType DEF Command
<1> HIDE DEF e
<1>2. toHost' = toHost /\ toNfcc' = Append(toNfcc, e) /\ conn[c].id = "illegal"
  BY DEF NFC_ConnCreate, e
<1>3. \A d \in Conn : conn'[d].id = IF d = c THEN "pending" ELSE conn[d].id
  BY <1>0, FreeType DEF NFC_ConnCreate, TypeOK, Block
<1>4. /\ ~For(toNfcc, "create", c) /\ ~For(toHost, "created", c)
      /\ ~For(toNfcc, "close", c) /\ ~For(toHost, "closed", c)
  BY <1>2 DEF Handshake
<1>5. \A d \in Dyn : /\ For(toNfcc', "create", d) <=> For(toNfcc, "create", d) \/ d = c
                     /\ For(toNfcc', "close", d) <=> For(toNfcc, "close", d)
  BY <1>0, <1>1, <1>2, ForAppend
<1>6. Single(toNfcc', {"create", "close"})
  BY <1>0, <1>1, <1>2, <1>4, SingleAppend DEF Handshake
<1>7. \A i \in DOMAIN toNfcc' : CommandOK(toNfcc'[i])
  BY <1>0, <1>1, <1>2, AllAppend DEF Handshake, CommandOK
<1> QED
  BY <1>0, <1>2, <1>3, <1>4, <1>5, <1>6, <1>7 DEF Handshake

\* NFC_ConnClose asks once.
LEMMA HandshakeConnClose ==
  ASSUME TypeOK, Handshake, NEW c \in Dyn, NFC_ConnClose(c)
  PROVE  Handshake'
<1> DEFINE e == Command("close", c)
<1>0. toNfcc \in Seq(Cmd) /\ c \in Conn /\ Dyn \subseteq Conn
  BY DEF TypeOK, Conn
<1>1. e \in Cmd /\ e.kind = "close" /\ e.c = c /\ e.link = 0
  BY <1>0, CommandType DEF Command
<1>2. /\ toHost' = toHost /\ toNfcc' = Append(toNfcc, e) /\ conn' = conn
      /\ conn[c].id = "open" /\ e \notin ToSet(toNfcc)
      /\ \A i \in DOMAIN toHost : toHost[i].kind # "closed"
  BY DEF NFC_ConnClose
<1>3. ~For(toNfcc, "close", c)
  <2> SUFFICES ASSUME NEW i \in DOMAIN toNfcc, toNfcc[i].kind = "close", toNfcc[i].c = c
               PROVE  FALSE
    BY DEF For
  <2>1. toNfcc[i] \in Cmd /\ toNfcc[i].link = 0
    BY <1>0 DEF Handshake, CommandOK
  <2>2. toNfcc[i] = e
    BY <2>1 DEF Cmd, Command
  <2> QED
    BY <1>2, <2>2 DEF ToSet
<1> HIDE DEF e
<1>4. ~For(toHost, "closed", c)
  BY <1>2 DEF For
<1>5. \A d \in Dyn : /\ For(toNfcc', "create", d) <=> For(toNfcc, "create", d)
                     /\ For(toNfcc', "close", d) <=> For(toNfcc, "close", d) \/ d = c
  BY <1>0, <1>1, <1>2, ForAppend
<1>6. Single(toNfcc', {"create", "close"})
  BY <1>0, <1>1, <1>2, <1>3, SingleAppend DEF Handshake
<1>7. \A i \in DOMAIN toNfcc' : CommandOK(toNfcc'[i])
  BY <1>0, <1>1, <1>2, AllAppend DEF Handshake, CommandOK
<1> QED
  BY <1>0, <1>2, <1>3, <1>4, <1>5, <1>6, <1>7 DEF Handshake

\* The answer to a command ends its handshake.
LEMMA HandshakeHandle ==
  ASSUME TypeOK, Calm, Handshake, Handle
  PROVE  Handshake'
<1> DEFINE m == Head(toHost)
<1>0. toHost \in Seq(Message) /\ toNfcc \in Seq(Cmd) /\ Dyn \subseteq Conn
  BY DEF TypeOK, Conn
<1>1. /\ toHost # <<>> /\ toHost' = Tail(toHost) /\ m = toHost[1] /\ m \in Message
      /\ \A d \in Conn :
              conn'[d].id = IF m.kind = "created" /\ m.c = d
                            THEN IF m.flag THEN "open" ELSE "illegal"
                            ELSE IF m.kind = "closed" /\ m.c = d THEN "illegal" ELSE conn[d].id
      /\ toNfcc' = toNfcc \/ \E l \in Nat : toNfcc' = Append(toNfcc, DeactivateCmd(l))
  BY HandleEffect
<1> HIDE DEF m
<1>2. \A d \in Dyn, k \in {"created", "closed"} :
        For(toHost, k, d) <=> (m.kind = k /\ m.c = d) \/ For(toHost', k, d)
  BY <1>0, <1>1, ForTail
<1>3. /\ Single(toHost', {"created", "closed"})
      /\ m.kind \in {"created", "closed"} => ~For(toHost', m.kind, m.c)
  BY <1>0, <1>1, SingleTail DEF Handshake
<1>4. \A i \in DOMAIN toHost' : MessageOK(toHost'[i])
  BY <1>0, <1>1, AllTail DEF Handshake
<1>5. /\ Single(toNfcc', {"create", "close"})
      /\ \A i \in DOMAIN toNfcc' : CommandOK(toNfcc'[i])
      /\ \A d \in Dyn : /\ For(toNfcc', "create", d) <=> For(toNfcc, "create", d)
                        /\ For(toNfcc', "close", d) <=> For(toNfcc, "close", d)
  <2>1. CASE toNfcc' = toNfcc
    BY <2>1 DEF Handshake
  <2>2. CASE \E l \in Nat : toNfcc' = Append(toNfcc, DeactivateCmd(l))
    <3>1. PICK e \in Cmd : e.kind = "deactivate" /\ toNfcc' = Append(toNfcc, e)
      BY <2>2, DeactivateCmdFacts
    <3>2. \A d \in Dyn : /\ For(toNfcc', "create", d) <=> For(toNfcc, "create", d)
                         /\ For(toNfcc', "close", d) <=> For(toNfcc, "close", d)
      BY <1>0, <3>1, ForAppend
    <3>3. Single(toNfcc', {"create", "close"})
      BY <1>0, <3>1, SingleAppend DEF Handshake
    <3>4. \A i \in DOMAIN toNfcc' : CommandOK(toNfcc'[i])
      BY <1>0, <3>1, AllAppend DEF Handshake, CommandOK
    <3> QED
      BY <3>2, <3>3, <3>4
  <2> QED
    BY <1>1, <2>1, <2>2
<1>6. ASSUME NEW d \in Dyn
      PROVE  /\ For(toNfcc', "create", d) \/ For(toHost', "created", d)
                  => conn'[d].id = "pending"
             /\ For(toNfcc', "close", d) \/ For(toHost', "closed", d) => conn'[d].id = "open"
             /\ ~(For(toNfcc', "create", d) /\ For(toHost', "created", d))
             /\ ~(For(toNfcc', "close", d) /\ For(toHost', "closed", d))
  <2>1. /\ For(toNfcc, "create", d) \/ For(toHost, "created", d) => conn[d].id = "pending"
        /\ For(toNfcc, "close", d) \/ For(toHost, "closed", d) => conn[d].id = "open"
        /\ ~(For(toNfcc, "create", d) /\ For(toHost, "created", d))
        /\ ~(For(toNfcc, "close", d) /\ For(toHost, "closed", d))
    BY DEF Handshake
  <2>2. /\ For(toHost, "created", d) <=> (m.kind = "created" /\ m.c = d)
                                          \/ For(toHost', "created", d)
        /\ For(toHost, "closed", d) <=> (m.kind = "closed" /\ m.c = d)
                                          \/ For(toHost', "closed", d)
    BY <1>2
  <2>3. conn'[d].id = IF m.kind = "created" /\ m.c = d
                      THEN IF m.flag THEN "open" ELSE "illegal"
                      ELSE IF m.kind = "closed" /\ m.c = d THEN "illegal" ELSE conn[d].id
    BY <1>0, <1>1
  <2>4. CASE m.kind = "created" /\ m.c = d
    BY <1>3, <1>5, <2>1, <2>2, <2>4
  <2>5. CASE m.kind = "closed" /\ m.c = d
    BY <1>3, <1>5, <2>1, <2>2, <2>5
  <2>6. CASE ~(m.kind = "created" /\ m.c = d) /\ ~(m.kind = "closed" /\ m.c = d)
    BY <1>5, <2>1, <2>2, <2>3, <2>6
  <2> QED
    BY <2>4, <2>5, <2>6
<1> QED
  BY <1>3, <1>4, <1>5, <1>6 DEF Handshake

\* A command is answered once.
LEMMA HandshakeAnswer ==
  ASSUME TypeOK, Handshake, Answer
  PROVE  Handshake'
<1> DEFINE m == Head(toNfcc)
<1>0. toHost \in Seq(Message) /\ toNfcc \in Seq(Cmd) /\ Dyn \subseteq Conn
  BY DEF TypeOK, Conn
<1>1. /\ toNfcc # <<>> /\ toNfcc' = Tail(toNfcc) /\ conn' = conn /\ AnswerOutcome(m)
  BY <1>0, AnswerCases
<1>2. m = toNfcc[1] /\ m \in Cmd /\ m.c \in Conn /\ CommandOK(m)
  <2>1. 1 \in DOMAIN toNfcc /\ m = toNfcc[1] /\ m \in Cmd
    BY <1>0, <1>1, TailSeq
  <2> QED
    BY <2>1 DEF Handshake, Cmd
<1> HIDE DEF m
<1>3. \A d \in Dyn, k \in {"create", "close"} :
        For(toNfcc, k, d) <=> (m.kind = k /\ m.c = d) \/ For(toNfcc', k, d)
  BY <1>0, <1>1, <1>2, ForTail
<1>4. /\ Single(toNfcc', {"create", "close"})
      /\ m.kind \in {"create", "close"} => ~For(toNfcc', m.kind, m.c)
  BY <1>0, <1>1, <1>2, SingleTail DEF Handshake
<1>5. \A i \in DOMAIN toNfcc' : CommandOK(toNfcc'[i])
  BY <1>0, <1>1, AllTail DEF Handshake
<1>6. ASSUME NEW s \in Seq(Message), NEW e \in Message, MessageOK(e), Single(s, {"created", "closed"}),
             \A i \in DOMAIN s : MessageOK(s[i]),
             e.kind \in {"created", "closed"} => ~For(s, e.kind, e.c)
      PROVE  /\ Append(s, e) \in Seq(Message) /\ Single(Append(s, e), {"created", "closed"})
             /\ \A i \in DOMAIN Append(s, e) : MessageOK(Append(s, e)[i])
             /\ \A d \in Dyn, k \in {"created", "closed"} :
                  For(Append(s, e), k, d) <=> For(s, k, d) \/ (e.kind = k /\ e.c = d)
  <2>1. Append(s, e) \in Seq(Message)
    BY AppendSeq
  <2>2. Single(Append(s, e), {"created", "closed"})
    BY <1>6, SingleAppend
  <2>3. \A i \in DOMAIN Append(s, e) : MessageOK(Append(s, e)[i])
    BY <1>6, AllAppend
  <2> QED
    BY <2>1, <2>2, <2>3, ForAppend
<1>7. Single(toHost, {"created", "closed"}) /\ \A i \in DOMAIN toHost : MessageOK(toHost[i])
  BY DEF Handshake
<1>8. MessageOK(Rsp) /\ MessageOK(Ntf)
  BY Messages DEF MessageOK
<1>9. CASE m.kind = "deactivate"
  <2>1. /\ Append(toHost, Rsp) \in Seq(Message)
        /\ Single(Append(toHost, Rsp), {"created", "closed"})
        /\ \A i \in DOMAIN Append(toHost, Rsp) : MessageOK(Append(toHost, Rsp)[i])
        /\ \A d \in Dyn, k \in {"created", "closed"} :
             For(Append(toHost, Rsp), k, d) <=> For(toHost, k, d)
    BY <1>0, <1>6, <1>7, <1>8, Messages
  <2> DEFINE s == Append(toHost, Rsp)
  <2>2. /\ s \in Seq(Message) /\ Single(s, {"created", "closed"})
        /\ \A i \in DOMAIN s : MessageOK(s[i])
    BY <2>1
  <2> HIDE DEF s
  <2>3. /\ Single(Append(s, Ntf), {"created", "closed"})
        /\ \A i \in DOMAIN Append(s, Ntf) : MessageOK(Append(s, Ntf)[i])
        /\ \A d \in Dyn, k \in {"created", "closed"} :
             For(Append(s, Ntf), k, d) <=> For(s, k, d)
    BY <1>6, <1>8, <2>2, Messages
  <2>4. toHost' = s \/ toHost' = Append(s, Ntf)
    BY <1>1, <1>9 DEF AnswerOutcome, s
  <2>5. /\ Single(toHost', {"created", "closed"})
        /\ \A i \in DOMAIN toHost' : MessageOK(toHost'[i])
        /\ \A d \in Dyn, k \in {"created", "closed"} : For(toHost', k, d) <=> For(toHost, k, d)
    BY <2>1, <2>3, <2>4 DEF s
  <2> QED
    BY <1>1, <1>3, <1>4, <1>5, <1>9, <2>5 DEF Handshake
<1>10. CASE m.kind = "create"
  <2>1. m.c \in Dyn /\ For(toNfcc, "create", m.c) /\ ~For(toHost, "created", m.c)
    BY <1>2, <1>3, <1>10 DEF CommandOK, Handshake
  <2>2. PICK n \in Nat, f \in BOOLEAN :
           /\ toHost' = Append(toHost, Msg("created", m.c, n, f))
           /\ f => n \in {Credits, NoFC}
    <3>1. \/ toHost' = Append(toHost, Msg("created", m.c, 0, FALSE))
          \/ \E n \in {Credits, NoFC} : toHost' = Append(toHost, Msg("created", m.c, n, TRUE))
      BY <1>1, <1>10 DEF AnswerOutcome
    <3> QED
      BY <3>1, CreditAssumption
  <2> DEFINE e == Msg("created", m.c, n, f)
  <2>3. e \in Message /\ e.kind = "created" /\ e.c = m.c /\ MessageOK(e)
    BY <1>2, <2>1, <2>2, MsgType DEF MessageOK
  <2> HIDE DEF e
  <2>4. toHost' = Append(toHost, e)
    BY <2>2 DEF e
  <2>5. /\ Single(toHost', {"created", "closed"})
        /\ \A i \in DOMAIN toHost' : MessageOK(toHost'[i])
        /\ \A d \in Dyn, k \in {"created", "closed"} :
             For(toHost', k, d) <=> For(toHost, k, d) \/ (e.kind = k /\ e.c = d)
    BY <1>0, <1>6, <1>7, <2>1, <2>3, <2>4
  <2> QED
    BY <1>1, <1>3, <1>4, <1>5, <1>10, <2>1, <2>3, <2>5 DEF Handshake
<1>11. CASE m.kind = "close"
  <2>1. m.c \in Dyn /\ For(toNfcc, "close", m.c) /\ ~For(toHost, "closed", m.c)
    BY <1>2, <1>3, <1>11 DEF CommandOK, Handshake
  <2> DEFINE e == Msg("closed", m.c, 0, FALSE)
  <2>2. e \in Message /\ e.kind = "closed" /\ e.c = m.c /\ MessageOK(e)
    <3>1. e \in Message /\ e.kind = "closed" /\ e.c = m.c
      BY <1>2, Messages DEF Msg
    <3> HIDE DEF e
    <3> QED
      BY <2>1, <3>1 DEF MessageOK
  <2>3. toHost' = Append(toHost, e)
    BY <1>1, <1>11 DEF AnswerOutcome
  <2> HIDE DEF e
  <2>4. /\ Single(toHost', {"created", "closed"})
        /\ \A i \in DOMAIN toHost' : MessageOK(toHost'[i])
        /\ \A d \in Dyn, k \in {"created", "closed"} :
             For(toHost', k, d) <=> For(toHost, k, d) \/ (e.kind = k /\ e.c = d)
    BY <1>0, <1>6, <1>7, <2>1, <2>2, <2>3
  <2> QED
    BY <1>1, <1>3, <1>4, <1>5, <1>11, <2>1, <2>2, <2>4 DEF Handshake
<1> QED
  BY <1>1, <1>9, <1>10, <1>11 DEF AnswerOutcome

\* Every step keeps the handshake of a connection.
LEMMA HandshakeStep ==
  ASSUME TypeOK, Calm, Handshake, [Next]_vars, used'.reset = 0
  PROVE  Handshake'
<1>0. nfcc \in NfccState
  BY DEF TypeOK
<1>1. ASSUME NEW c \in Conn, NEW n \in 1..lim.frag, NFC_SendData(c, n)
      PROVE  Handshake'
  <2>1. PICK k \in SendCounts(Queued(c, n)) : Transmit(c, Queued(c, n), k)
    BY <1>1, SendDataEffect
  <2>2. \A d \in Conn : conn'[d].id = conn[d].id
    <3>1. Queued(c, n) \in Block /\ Queued(c, n).id = conn[c].id
      BY <1>1, SendDataEffect
    <3> QED
      BY <2>1, <3>1, TransmitEffect
  <2> QED
    BY <1>1, <2>2, SendDataEffect, HandshakeQuiet
<1>2. ASSUME NEW c \in Conn, NFC_FlushData(c)
      PROVE  Handshake'
  <2>1. \A d \in Conn : conn'[d].id = conn[d].id
    BY <1>2 DEF NFC_FlushData, TypeOK, Block
  <2> QED
    BY <1>2, <2>1, HandshakeQuiet DEF NFC_FlushData
<1>3. ASSUME NEW set \in BOOLEAN, NFC_SetStaticRfCback(set)
      PROVE  Handshake'
  <2> DEFINE cb == [conn[RF] EXCEPT !.cb = set]
  <2>1. RF \in Conn /\ cb \in Block /\ cb.id = conn[RF].id
    BY DEF Conn, TypeOK, Block
  <2>2. DataEvent(RF, cb, nfc.reassembly, <<>>) /\ toHost' = toHost /\ toNfcc' = toNfcc
    BY <1>3 DEF NFC_SetStaticRfCback
  <2> HIDE DEF cb
  <2>3. \A d \in Conn : conn'[d].id = conn[d].id
    BY <2>1, <2>2, DataEventEffect
  <2> QED
    BY <2>2, <2>3, HandshakeQuiet
<1>4. ASSUME \/ \E set \in BOOLEAN : NFC_SetReassemblyFlag(set)
             \/ UNCHANGED vars
      PROVE  Handshake'
  BY <1>4, HandshakeQuiet DEF NFC_SetReassemblyFlag, vars
<1>5. ASSUME NEW c \in Dyn, NFC_ConnCreate(c) \/ NFC_ConnClose(c)
      PROVE  Handshake'
  BY <1>5, HandshakeConnCreate, HandshakeConnClose
<1>6. ASSUME NFC_Deactivate
      PROVE  Handshake'
  BY <1>6, DeactivateEffect, HandshakeQuiet
<1>7. ASSUME WaitToDeactivateTimeout
      PROVE  Handshake'
  <2>1. nfc.param \in Nat
    BY DEF TypeOK, NfcState
  <2> QED
    BY <1>7, <2>1, HandshakeQuiet DEF WaitToDeactivateTimeout
<1>8. ASSUME NEW c \in Conn, ReturnCredit(c)
      PROVE  Handshake'
  <2> DEFINE e == Msg("credits", c, 1, FALSE)
  <2>1. e \in Message /\ e.kind = "credits" /\ e.n = 1
    BY Messages DEF Msg
  <2>2. toHost' = Append(toHost, e) /\ toNfcc' = toNfcc /\ conn' = conn
    BY <1>8 DEF ReturnCredit, ToHost
  <2> HIDE DEF e
  <2> QED
    BY <2>1, <2>2, HandshakeNews DEF MessageOK
<1>9. ASSUME NEW c \in Conn, NEW more \in BOOLEAN, SendToHost(c, more)
      PROVE  Handshake'
  <2> DEFINE n == nfcc.sent[c] + 1
             e == Msg("data", c, n, more)
  <2>1. toHost' = Append(toHost, e) /\ toNfcc' = toNfcc /\ conn' = conn /\ n \in Nat
    BY <1>0, <1>9 DEF SendToHost, ToHost, NfccState
  <2> HIDE DEF n
  <2>2. e \in Message /\ e.kind = "data"
    BY <2>1, MsgType
  <2> HIDE DEF e
  <2> QED
    BY <2>1, <2>2, HandshakeNews DEF MessageOK
<1>10. ASSUME NEW dep \in BOOLEAN, Activate(dep)
      PROVE  Handshake'
  <2> DEFINE e == Msg("activated", RF, Credits, dep)
  <2>1. toHost' = Append(toHost, e) /\ toNfcc' = toNfcc /\ conn' = conn
    BY <1>10 DEF Activate, ToHost
  <2>2. e \in Message /\ e.kind = "activated" /\ e.c = RF /\ e.n = Credits
    BY Messages DEF Msg
  <2> HIDE DEF e
  <2> QED
    BY <2>1, <2>2, HandshakeNews DEF MessageOK
<1>11. ASSUME LinkLost
      PROVE  Handshake'
  <2>1. toHost' = Append(toHost, Ntf) /\ toNfcc' = toNfcc /\ conn' = conn
    BY <1>11 DEF LinkLost, ToHost, Ntf
  <2> QED
    BY <2>1, Messages, HandshakeNews DEF MessageOK
<1>12. ASSUME ReturnLate
       PROVE  Handshake'
  <2> DEFINE e == Msg("late", RF, 1, FALSE)
  <2>1. toHost' = Append(toHost, e) /\ toNfcc' = toNfcc /\ conn' = conn
    BY <1>12 DEF ReturnLate, ToHost
  <2>2. e \in Message /\ e.kind = "late" /\ e.c = RF /\ e.n = 1
    BY Messages DEF Msg
  <2> HIDE DEF e
  <2> QED
    BY <2>1, <2>2, HandshakeNews DEF MessageOK
<1> QED
  BY <1>1, <1>2, <1>3, <1>4, <1>5, <1>6, <1>7, <1>8, <1>9, <1>10, <1>11, <1>12, HandshakeHandle,
     HandshakeAnswer, NfccReset0 DEF Next, ApiNext, NfccNext
-------------------------------------------------------------------------------
(* Credits.                                                                  *)

\* The credits on their way are counted by Count.
LEMMA DueCount ==
  ASSUME TypeOK, NEW c
  PROVE  CreditsDue(c) = Count(toHost, "credits", c, 0) /\ CreditsDue(c) \in Nat
<1>1. toHost \in Seq(Message) /\ DOMAIN toHost = 1..Len(toHost) /\ Len(toHost) \in Nat
  BY DEF TypeOK
<1>2. {i \in DOMAIN toHost : toHost[i].kind = "credits" /\ toHost[i].c = c}
        = At(toHost, "credits", c, 0)
  BY <1>1 DEF At
<1>3. CreditsDue(c) = Count(toHost, "credits", c, 0)
  BY <1>2 DEF CreditsDue, Count
<1>4. 0 \in Nat
  OBVIOUS
<1> QED
  BY <1>1, <1>3, <1>4, CountFinite

\* So they are after the step.
LEMMA DueCountNext ==
  ASSUME TypeOK', NEW c
  PROVE  CreditsDue(c)' = Count(toHost', "credits", c, 0)
<1>1. toHost' \in Seq(Message) /\ DOMAIN toHost' = 1..Len(toHost')
  BY DEF TypeOK
<1>2. {i \in DOMAIN toHost' : toHost'[i].kind = "credits" /\ toHost'[i].c = c}
        = At(toHost', "credits", c, 0)
  BY <1>1 DEF At
<1> QED
  BY <1>2 DEF CreditsDue, Count

\* A message of the NFCC adds its credit.
LEMMA DueAppend ==
  ASSUME TypeOK, TypeOK', NEW e \in Message, toHost' = Append(toHost, e), NEW c
  PROVE  CreditsDue(c)' = CreditsDue(c) + IF e.kind = "credits" /\ e.c = c THEN 1 ELSE 0
<1>1. toHost \in Seq(Message) /\ 0 \in 0..Len(toHost)
  BY DEF TypeOK
<1> QED
  BY <1>1, DueCount, DueCountNext, CountAppend

\* A handled message takes its credit away.
LEMMA DueTail ==
  ASSUME TypeOK, TypeOK', toHost # <<>>, toHost' = Tail(toHost), NEW c
  PROVE  CreditsDue(c) = CreditsDue(c)'
           + IF toHost[1].kind = "credits" /\ toHost[1].c = c THEN 1 ELSE 0
<1>1. toHost \in Seq(Message) /\ 0 \in Nat /\ 0 + 1 = 1
  BY DEF TypeOK
<1>2. Count(toHost', "credits", c, 0) = Count(toHost, "credits", c, 1)
  BY <1>1, CountTail
<1> QED
  BY <1>1, <1>2, DueCount, DueCountNext, CountFirst

\* No message, no credit.
LEMMA DueNone ==
  ASSUME TypeOK, NEW c, ~For(toHost, "credits", c)
  PROVE  CreditsDue(c) = 0
<1>1. {i \in DOMAIN toHost : toHost[i].kind = "credits" /\ toHost[i].c = c} = {}
  BY DEF For
<1> QED
  BY <1>1, FS_EmptySet DEF CreditsDue

\* The same after the step.
LEMMA DueNoneNext ==
  ASSUME NEW c, ~For(toHost', "credits", c)
  PROVE  CreditsDue(c)' = 0
<1>1. {i \in DOMAIN toHost' : toHost'[i].kind = "credits" /\ toHost'[i].c = c} = {}
  BY DEF For
<1> QED
  BY <1>1, FS_EmptySet DEF CreditsDue

\* The answer that opens a connection finds it pending.
LEMMA CreatedPending ==
  ASSUME TypeOK, Handshake, NEW c, Created(c)
  PROVE  c \in Dyn /\ conn[c].id = "pending" /\ For(toHost, "created", c)
<1>1. PICK i \in DOMAIN toHost :
        toHost[i].kind = "created" /\ toHost[i].c = c /\ toHost[i].flag
  BY DEF Created
<1>2. c \in Dyn
  BY <1>1 DEF Handshake, MessageOK
<1>3. For(toHost, "created", c)
  BY <1>1 DEF For
<1> QED
  BY <1>2, <1>3 DEF Handshake

\* Only the answer that opens a connection announces it.
LEMMA CreatedAppend ==
  ASSUME TypeOK, NEW e \in Message, toHost' = Append(toHost, e), NEW c
  PROVE  Created(c)' <=> Created(c) \/ (e.kind = "created" /\ e.c = c /\ e.flag)
<1>0. toHost \in Seq(Message)
  BY DEF TypeOK
<1>1. /\ Len(toHost) \in Nat /\ DOMAIN toHost = 1..Len(toHost)
      /\ DOMAIN toHost' = 1..(Len(toHost) + 1)
      /\ \A i \in 1..Len(toHost) : toHost'[i] = toHost[i]
      /\ toHost'[Len(toHost) + 1] = e
  BY <1>0, AppendSeq
<1> QED
  BY <1>1 DEF Created

\* A connection announced behind the first message was announced before.
LEMMA CreatedTail ==
  ASSUME TypeOK, toHost # <<>>, toHost' = Tail(toHost), NEW c, Created(c)'
  PROVE  Created(c)
<1>0. toHost \in Seq(Message)
  BY DEF TypeOK
<1> QED
  BY <1>0, AllTail DEF Created

\* Taking a message puts no credit behind the answer that opens a connection, and when it
\* was that answer there is none left.
LEMMA NoCreditsTail ==
  ASSUME NEW s \in Seq(Message), s # <<>>, NoCreditsBehind(s)
  PROVE  /\ NoCreditsBehind(Tail(s))
         /\ Opens(s[1]) => ~For(Tail(s), "credits", s[1].c)
<1>1. /\ Len(s) \in Nat \ {0} /\ DOMAIN s = 1..Len(s) /\ DOMAIN Tail(s) = 1..(Len(s) - 1)
      /\ \A i \in 1..(Len(s) - 1) : Tail(s)[i] = s[i + 1]
  BY TailSeq
<1>2. \A i \in DOMAIN Tail(s) : i + 1 \in DOMAIN s /\ 1 < i + 1 /\ Tail(s)[i] = s[i + 1]
  BY <1>1
<1>3. \A i, j \in DOMAIN Tail(s) : i < j => i + 1 < j + 1
  BY <1>1
<1>4. NoCreditsBehind(Tail(s))
  BY <1>2, <1>3 DEF NoCreditsBehind
<1>5. Opens(s[1]) => ~For(Tail(s), "credits", s[1].c)
  BY <1>1, <1>2 DEF NoCreditsBehind, For
<1> QED
  BY <1>4, <1>5

\* Nor does a message added, unless a credit comes for a connection not yet opened.
LEMMA NoCreditsAppend ==
  ASSUME TypeOK, NEW e \in Message, NoCreditsBehind(toHost),
         e.kind = "credits" => \A i \in DOMAIN toHost : Opens(toHost[i]) => toHost[i].c # e.c
  PROVE  NoCreditsBehind(Append(toHost, e))
<1>0. toHost \in Seq(Message)
  BY DEF TypeOK
<1> DEFINE s == Append(toHost, e)
<1>1. /\ Len(toHost) \in Nat /\ DOMAIN toHost = 1..Len(toHost)
      /\ DOMAIN s = 1..(Len(toHost) + 1)
      /\ \A i \in 1..Len(toHost) : s[i] = toHost[i]
      /\ s[Len(toHost) + 1] = e
  BY <1>0, AppendSeq
<1> HIDE DEF s
<1> SUFFICES ASSUME NEW i \in DOMAIN s, NEW j \in DOMAIN s, i < j,
                    Opens(s[i]), s[j].kind = "credits"
             PROVE  s[i].c # s[j].c
  BY DEF NoCreditsBehind, s
<1>2. i \in 1..Len(toHost) /\ s[i] = toHost[i]
  BY <1>1
<1>3. CASE j \in 1..Len(toHost)
  BY <1>1, <1>2, <1>3 DEF NoCreditsBehind
<1>4. CASE j = Len(toHost) + 1
  BY <1>1, <1>2, <1>4
<1> QED
  BY <1>1, <1>3, <1>4

\* A step that touches neither the mailbox nor the credits keeps the ledger.
LEMMA LedgerQuiet ==
  ASSUME Ledger, toHost' = toHost, nfcc'.held = nfcc.held, used'.late = used.late,
         \A d \in Conn : /\ conn'[d].id = conn[d].id /\ conn'[d].init = conn[d].init
                         /\ conn'[d].num = conn[d].num
  PROVE  Ledger'
<1>1. RF \in Conn
  BY DEF Conn
<1>2. \A d \in Conn : Balance(d) => Balance(d)'
  BY DEF Balance, CreditsDue, LateOn
<1> QED
  BY <1>1, <1>2 DEF Ledger, Account, Owed, Created, CreditsDue

\* An account that a step leaves alone stays right.
LEMMA AccountSame ==
  ASSUME NEW d \in Conn, Account(d), conn'[d].id = conn[d].id, conn'[d].init = conn[d].init,
         conn'[d].num = conn[d].num, nfcc'.held[d] = nfcc.held[d], LateOn(d)' = LateOn(d),
         conn[d].id = "open" => CreditsDue(d)' = CreditsDue(d),
         Created(d)' => Created(d),
         d = RF /\ Owed("activated") => Owed("activated")'
  PROVE  Account(d)'
<1>1. conn[d].id = "open" => (Balance(d) <=> Balance(d)')
  BY DEF Balance
<1> QED
  BY <1>1 DEF Account

\* A step about the credits of one open connection keeps the ledger when it keeps the
\* balance of that connection.
LEMMA LedgerMove ==
  ASSUME TypeOK, Ledger, NEW c \in Conn,
         conn[c].id = "open" /\ conn'[c].id = "open" /\ conn'[c].init = conn[c].init,
         conn[c].init = NoFC => conn'[c].num = NoFC,
         conn[c].init # NoFC => conn'[c].num <= conn[c].init,
         conn[c].init # NoFC /\ (c = RF => ~Owed("activated")) => Balance(c)',
         ~Created(c)', Owed("activated")' <=> Owed("activated"),
         c = RF /\ Owed("activated") => nfcc'.held[c] = 0,
         NoCreditsBehind(toHost'),
         \A d \in Conn \ {c} :
           /\ conn'[d].id = conn[d].id /\ conn'[d].init = conn[d].init
           /\ conn'[d].num = conn[d].num /\ nfcc'.held[d] = nfcc.held[d]
           /\ CreditsDue(d)' = CreditsDue(d) /\ (Created(d)' => Created(d))
           /\ LateOn(d)' = LateOn(d)
  PROVE  Ledger'
<1>1. RF \in Conn
  BY DEF Conn
<1>2. \A d \in Conn \ {c} : Account(d)'
  BY AccountSame DEF Ledger
<1>3. Account(c)'
  BY DEF Ledger, Account
<1>4. conn'[RF].id = "open" /\ conn'[RF].init # NoFC
  BY <1>1 DEF Ledger
<1>5. Owed("activated")' => nfcc'.held[RF] = 0
  BY <1>1 DEF Ledger
<1> QED
  BY <1>2, <1>3, <1>4, <1>5 DEF Ledger

\* An open connection is not waiting for the answer that opens it.
LEMMA OpenNotCreated ==
  ASSUME TypeOK, Handshake, NEW c, conn[c].id = "open"
  PROVE  ~Created(c)
  BY CreatedPending

\* NFC_SendData moves credits from the block to the NFCC.
LEMMA LedgerSendData ==
  ASSUME TypeOK, Calm, TypeOK', Handshake, LinkOrder, Ledger, NEW c \in Conn,
         NEW n \in 1..lim.frag, NFC_SendData(c, n)
  PROVE  Ledger'
<1> DEFINE cb == Queued(c, n)
<1>1. /\ conn[c].id = "open" /\ (c = RF => nfc.st = "OPEN") /\ toHost' = toHost
      /\ cb \in Block /\ cb.id = conn[c].id /\ cb.init = conn[c].init /\ cb.num = conn[c].num
      /\ \E k \in SendCounts(cb) : Transmit(c, cb, k)
  BY SendDataEffect, CalmBlocks DEF TypeOK
<1>2. PICK k \in SendCounts(cb) : Transmit(c, cb, k)
  BY <1>1
<1> HIDE DEF cb
<1>3. k \in Nat /\ k <= cb.num /\ cb.num \in Nat /\ cb.init \in Nat
  BY <1>1, SendCountsRange DEF Block
<1>4. /\ \A d \in Conn \ {c} : conn'[d] = conn[d] /\ nfcc'.held[d] = nfcc.held[d]
      /\ conn'[c].id = cb.id /\ conn'[c].init = cb.init
      /\ conn'[c].num = IF cb.num = NoFC THEN NoFC ELSE cb.num - k
      /\ nfcc'.held[c] = IF cb.num = NoFC THEN nfcc.held[c] ELSE nfcc.held[c] + k
  BY <1>1, <1>2, TransmitEffect
<1>5. /\ \A d \in Conn : CreditsDue(d)' = CreditsDue(d) /\ (Created(d)' <=> Created(d))
      /\ Owed("activated")' <=> Owed("activated")
  BY <1>1 DEF CreditsDue, Created, Owed
<1>6. ~Created(c) /\ (c = RF => ~Owed("activated"))
  BY <1>1, OpenNotCreated DEF LinkOrder
<1>7. CreditsDue(c) \in Nat /\ nfcc.held[c] \in Nat
  BY DueCount DEF TypeOK, NfccState
<1>11. used'.late = used.late /\ \A d \in Conn : LateOn(d)' = LateOn(d) /\ LateOn(d) \in Nat
  BY SendDataEffect DEF TypeOK, Use, LateOn
<1>8. conn[c].init # NoFC => Balance(c)' /\ conn'[c].num <= conn[c].init
  BY <1>1, <1>3, <1>4, <1>5, <1>6, <1>7, <1>11, CreditAssumption DEF Ledger, Account, Balance
<1>9. conn[c].init = NoFC => conn'[c].num = NoFC
  BY <1>1, <1>4 DEF Ledger, Account
<1>10. NoCreditsBehind(toHost')
  BY <1>1 DEF Ledger
<1> QED
  BY <1>1, <1>4, <1>5, <1>6, <1>8, <1>9, <1>10, <1>11, LedgerMove

\* The NFCC puts a credit on its way.
LEMMA LedgerReturnCredit ==
  ASSUME TypeOK, TypeOK', Handshake, LinkOrder, Ledger, NEW c \in Conn, ReturnCredit(c)
  PROVE  Ledger'
<1> DEFINE e == Msg("credits", c, 1, FALSE)
<1>1. e \in Message /\ e.kind = "credits" /\ e.c = c
  BY MsgType DEF Msg
<1> HIDE DEF e
<1>2. toHost' = Append(toHost, e) /\ conn' = conn /\ nfcc.held[c] > 0
  BY DEF ReturnCredit, ToHost, e
<1>3. /\ \A d \in Conn \ {c} : nfcc'.held[d] = nfcc.held[d]
      /\ nfcc'.held[c] = nfcc.held[c] - 1
  BY DEF ReturnCredit, TypeOK, NfccState
<1>4. \A d \in Conn : CreditsDue(d)' = CreditsDue(d) + IF d = c THEN 1 ELSE 0
  BY <1>1, <1>2, DueAppend
<1>5. \A d \in Conn : Created(d)' <=> Created(d)
  BY <1>1, <1>2, CreatedAppend
<1>6. ~Created(c)
  BY <1>2 DEF Ledger, Account
<1>7. Owed("activated")' <=> Owed("activated")
  BY <1>1, <1>2, HasAppend, OwedHas DEF TypeOK
<1>8. c = RF => ~Owed("activated")
  BY <1>2 DEF Ledger
<1>14. used' = used /\ \A d \in Conn : LateOn(d)' = LateOn(d) /\ LateOn(d) \in Nat
  BY DEF ReturnCredit, LateOn, TypeOK, Use
<1>15. \A i \in DOMAIN toHost : Opens(toHost[i]) => toHost[i].c # c
  BY <1>6, <1>8 DEF Opens, Created, Owed, Handshake, MessageOK
<1>9. NoCreditsBehind(toHost')
  BY <1>1, <1>2, <1>15, NoCreditsAppend DEF Ledger
<1>10. /\ CreditsDue(c) \in Nat /\ nfcc.held[c] \in Nat
       /\ \A d \in Conn : CreditsDue(d) \in Nat /\ conn[d] \in Block
  BY DueCount DEF TypeOK, NfccState
<1>11. \A d \in Conn \ {c} : CreditsDue(d)' = CreditsDue(d)
  BY <1>4, <1>10
<1>12. CASE conn[c].id = "open"
  <2>1. conn[c].num \in Nat /\ conn[c].init \in Nat
    BY <1>10 DEF Block
  <2>2. Account(c)
    BY DEF Ledger
  <2>3. conn[c].init # NoFC => Balance(c) /\ conn[c].num <= conn[c].init
    BY <1>8, <1>12, <2>2 DEF Account
  <2>4. CreditsDue(c)' = CreditsDue(c) + 1 /\ nfcc.held[c] \in Nat /\ CreditsDue(c) \in Nat
    BY <1>4, <1>10
  <2>5. conn'[c] = conn[c] /\ nfcc'.held[c] = nfcc.held[c] - 1
    BY <1>2, <1>3
  <2>6. conn[c].init # NoFC => Balance(c)' /\ conn'[c].num <= conn[c].init
    BY <1>14, <2>1, <2>3, <2>4, <2>5 DEF Balance
  <2>7. conn[c].init = NoFC => conn'[c].num = NoFC
    BY <1>2, <2>2 DEF Account
  <2> QED
    BY <1>2, <1>3, <1>5, <1>6, <1>7, <1>8, <1>9, <1>11, <1>12, <1>14, <2>6, <2>7, LedgerMove
<1>13. CASE conn[c].id # "open"
  <2>1. \A d \in Conn \ {c} : Account(d)'
    BY <1>2, <1>3, <1>5, <1>7, <1>11, <1>14, AccountSame DEF Ledger
  <2>2. Account(c)'
    BY <1>2, <1>5, <1>6, <1>13 DEF Ledger, Account
  <2>3. c # RF
    BY <1>13 DEF Ledger
  <2>4. Owed("activated")' => nfcc'.held[RF] = 0
    BY <1>3, <1>7, <1>11, <2>3 DEF Ledger, Conn
  <2> QED
    BY <1>2, <1>9, <2>1, <2>2, <2>4 DEF Ledger
<1> QED
  BY <1>12, <1>13

\* What NFC_TASK takes out of the mailbox changes no account but that of the connection.
LEMMA HandleBasics ==
  ASSUME TypeOK, Calm, TypeOK', Handshake, LinkOrder, Ledger, Handle
  PROVE  LET m == Head(toHost) IN
         /\ m \in Message /\ m.c \in Conn /\ MessageOK(m) /\ toHost # <<>>
         /\ toHost' = Tail(toHost) /\ m = toHost[1]
         /\ NoCreditsBehind(toHost')
         /\ \A d \in Conn : Created(d)' => Created(d)
         /\ \A d \in Conn :
              CreditsDue(d) = CreditsDue(d)' + IF m.kind = "credits" /\ m.c = d THEN 1 ELSE 0
         /\ \A d \in Conn : CreditsDue(d) \in Nat /\ CreditsDue(d)' \in Nat
                            /\ nfcc.held[d] \in Nat
                            /\ conn[d] \in Block /\ conn[d].num \in Nat /\ conn[d].init \in Nat
         /\ Owed("activated") <=> m.kind = "activated" \/ Owed("activated")'
         /\ m.kind \in {"activated", "deactivated"} => ~Owed("activated")'
         /\ m.kind \notin {"late", "activated"} => used'.late = used.late
         /\ used.late \in Nat
<1> DEFINE m == Head(toHost)
<1>0. toHost \in Seq(Message)
  BY DEF TypeOK
<1>1. toHost # <<>> /\ toHost' = Tail(toHost) /\ m = toHost[1] /\ m \in Message
  BY HandleEffect
<1>2. m.c \in Conn
  BY <1>1 DEF Message
<1>3. MessageOK(m)
  BY <1>0, <1>1, TailSeq DEF Handshake
<1>4. NoCreditsBehind(toHost')
  BY <1>0, <1>1, NoCreditsTail DEF Ledger
<1>5. \A d \in Conn : Created(d)' => Created(d)
  BY <1>1, CreatedTail
<1>6. \A d \in Conn :
        CreditsDue(d) = CreditsDue(d)' + IF m.kind = "credits" /\ m.c = d THEN 1 ELSE 0
  BY <1>1, DueTail
<1>7. \A d \in Conn : CreditsDue(d) \in Nat
  BY DueCount
<1>8. \A d \in Conn : CreditsDue(d)' \in Nat
  <2>1. TypeOK' => \A d \in Conn : CreditsDue(d)' \in Nat
    <3>1. toHost' \in Seq(Message) /\ 0 \in Nat
      BY DEF TypeOK
    <3>2. \A d \in Conn : CreditsDue(d)' = Count(toHost', "credits", d, 0)
      BY DueCountNext
    <3> QED
      BY <3>1, <3>2, CountFinite
  <2> QED
    BY <2>1
<1>9. \A d \in Conn : /\ nfcc.held[d] \in Nat
                      /\ conn[d] \in Block /\ conn[d].num \in Nat /\ conn[d].init \in Nat
  BY DEF TypeOK, NfccState, Block
<1>10. Owed("activated") <=> m.kind = "activated" \/ Owed("activated")'
  BY <1>0, <1>1, HasTail, OwedHas
<1>11. m.kind \in {"activated", "deactivated"} => ~Owed("activated")'
  BY <1>0, <1>1, OrderedTail, OwedHas DEF LinkOrder
<1>12. m.kind \notin {"late", "activated"} => used'.late = used.late
  <2> HIDE DEF m
  <2>1. /\ \/ ProcDeactivate(m) \/ ProcActivate(m) \/ ProcCredits(m) \/ ProcData(m)
           \/ ProcConnCreateRsp(m) \/ ReportConnCloseEvt(m)
    BY CalmHandle DEF m
  <2>2. CASE ProcCredits(m)
    BY <1>1, <2>2, CalmCredits DEF TypeOK, Use
  <2>3. CASE ProcData(m)
    BY <2>3, ProcDataCases
  <2> QED
    BY <2>1, <2>2, <2>3 DEF ProcDeactivate, ProcActivate, ProcConnCreateRsp, ReportConnCloseEvt
<1>13. used.late \in Nat
  BY DEF TypeOK, Use
<1> QED
  BY <1>1, <1>2, <1>3, <1>4, <1>5, <1>6, <1>7, <1>8, <1>9, <1>10, <1>11, <1>12, <1>13

\* The credits of a handled message go into the account of its connection.
LEMMA LedgerProcCredits ==
  ASSUME TypeOK, Calm, TypeOK', Handshake, LinkOrder, Ledger, Handle,
         NEW m \in Message, m = Head(toHost), ProcCredits(m)
  PROVE  Ledger'
<1> DEFINE c == m.c
           own == IF m.kind = "credits" THEN 1 ELSE 0
           late == IF m.kind = "late" THEN 1 ELSE 0
<1>1. m.kind \in {"credits", "late"}
  BY CalmCredits
<1>2. /\ m \in Message /\ c \in Conn /\ m.n = 1 /\ (m.kind = "late" => c = RF)
      /\ NoCreditsBehind(toHost')
      /\ \A d \in Conn : Created(d)' => Created(d)
      /\ \A d \in Conn : CreditsDue(d) = CreditsDue(d)' + IF d = c THEN own ELSE 0
      /\ \A d \in Conn : CreditsDue(d) \in Nat /\ CreditsDue(d)' \in Nat
                         /\ nfcc.held[d] \in Nat
                         /\ conn[d] \in Block /\ conn[d].num \in Nat /\ conn[d].init \in Nat
      /\ Owed("activated")' <=> Owed("activated")
  BY <1>1, HandleBasics DEF MessageOK
<1>3. CreditsDue(c) = CreditsDue(c)' + own /\ CreditsDue(c)' \in Nat
  BY <1>2
<1>4. \A d \in Conn \ {c} : CreditsDue(d)' = CreditsDue(d)
  BY <1>2
<1>5. /\ own \in {0, 1} /\ late \in {0, 1} /\ own + late = 1
      /\ LateOn(c)' = LateOn(c) + late /\ LateOn(c) \in Nat
      /\ \A d \in Conn \ {c} : LateOn(d)' = LateOn(d)
  <2>1. used'.late = used.late + late /\ used.late \in Nat
    BY CalmCredits DEF TypeOK, Use
  <2>2. c # RF => late = 0
    BY <1>2
  <2> QED
    BY <1>1, <2>1, <2>2 DEF LateOn
<1> DEFINE cb == Credited(m)
<1>6. /\ cb \in Block /\ cb.id = conn[c].id /\ cb.init = conn[c].init
      /\ cb.num = IF conn[c].num + 1 <= conn[c].init THEN conn[c].num + 1 ELSE conn[c].init
  BY <1>2, CreditedBlock, CalmCredits
<1>7. Account(c)
  BY <1>2 DEF Ledger
<1>8. \/ /\ conn[c].id # "open" \/ conn[c].num = NoFC
         /\ UNCHANGED <<nfc, conn, nfcc, toNfcc, seen>>
      \/ /\ conn[c].id = "open" /\ conn[c].num # NoFC
         /\ conn' = [conn EXCEPT ![c] = cb] /\ nfcc' = nfcc
      \/ /\ conn[c].id = "open" /\ conn[c].num # NoFC /\ (c = RF => nfc.st = "OPEN")
         /\ \E k \in SendCounts(cb) : Transmit(c, cb, k)
  BY CalmCredits
<1> HIDE DEF c, cb, own, late
<1>9. CASE /\ conn[c].id # "open" \/ conn[c].num = NoFC
           /\ UNCHANGED <<nfc, conn, nfcc, toNfcc, seen>>
  <2>1. conn[c].id # "open" \/ conn[c].init = NoFC
    BY <1>2, <1>7, <1>9, CreditAssumption DEF Account
  <2>2. Account(c)'
    BY <1>2, <1>7, <1>9, <2>1 DEF Account
  <2>3. \A d \in Conn \ {c} : Account(d)'
    BY <1>2, <1>4, <1>5, <1>9, AccountSame DEF Ledger
  <2>5. Owed("activated")' => nfcc'.held[RF] = 0
    BY <1>2, <1>9 DEF Ledger
  <2> QED
    BY <1>2, <1>9, <2>2, <2>3, <2>5 DEF Ledger
<1>10. ASSUME conn[c].id = "open", conn[c].num # NoFC, NEW k \in Nat, k <= cb.num,
              c = RF /\ Owed("activated") => k = 0,
              \A d \in Conn \ {c} : conn'[d] = conn[d] /\ nfcc'.held[d] = nfcc.held[d],
              conn'[c].id = cb.id, conn'[c].init = cb.init, conn'[c].num = cb.num - k,
              nfcc'.held[c] = nfcc.held[c] + k
       PROVE  Ledger'
  <2>1. /\ conn[c].init # NoFC /\ conn[c].num <= conn[c].init
        /\ (c = RF => ~Owed("activated")) => Balance(c)
    BY <1>7, <1>10 DEF Account
  <2>2. /\ cb.num \in Nat /\ cb.num <= conn[c].init
        /\ \/ cb.num = conn[c].num + 1
           \/ cb.num = conn[c].num /\ conn[c].num = conn[c].init
    BY <1>2, <1>6, <2>1
  <2>3. conn'[c].num <= conn[c].init
    BY <1>2, <1>10, <2>2
  <2>4. ~Created(c)'
    BY <1>2, <1>10, OpenNotCreated
  <2>5. (c = RF => ~Owed("activated")) => Balance(c)'
    <3> SUFFICES ASSUME Balance(c)
                 PROVE  Balance(c)'
      BY <2>1
    <3> DEFINE init == conn[c].init
               sum == cb.num + nfcc.held[c] + CreditsDue(c)'
    <3>1. conn[c].num + nfcc.held[c] + CreditsDue(c)' + own \in init..(init + LateOn(c))
      BY <1>2, <1>3, <1>5 DEF Balance
    <3>2. sum \in init..(init + LateOn(c) + late)
      <4>1. /\ conn[c].num \in Nat /\ init \in Nat /\ nfcc.held[c] \in Nat
            /\ CreditsDue(c)' \in Nat /\ LateOn(c) \in Nat
        BY <1>2, <1>5
      <4> HIDE DEF init
      <4>2. CASE cb.num = conn[c].num + 1
        BY <1>5, <3>1, <4>1, <4>2
      <4>3. CASE cb.num = conn[c].num /\ conn[c].num = init
        BY <1>5, <3>1, <4>1, <4>3
      <4> QED
        BY <2>2, <4>2, <4>3 DEF init
    <3>3. conn'[c].num + nfcc'.held[c] + CreditsDue(c)' = sum
      BY <1>2, <1>10, <2>2
    <3>4. init + LateOn(c) + late = init + LateOn(c)' /\ conn'[c].init = init
      BY <1>2, <1>5, <1>6, <1>10
    <3> HIDE DEF init, sum
    <3> QED
      BY <3>2, <3>3, <3>4 DEF Balance
  <2>6. c = RF /\ Owed("activated") => nfcc'.held[c] = 0
    BY <1>2, <1>10 DEF Ledger
  <2> QED
    BY <1>2, <1>4, <1>5, <1>6, <1>10, <2>1, <2>3, <2>4, <2>5, <2>6, LedgerMove
<1>11. CASE /\ conn[c].id = "open" /\ conn[c].num # NoFC
            /\ conn' = [conn EXCEPT ![c] = cb] /\ nfcc' = nfcc
  <2>1. \A d \in Conn \ {c} : conn'[d] = conn[d]
    BY <1>2, <1>11 DEF TypeOK
  <2>2. conn'[c] = cb
    BY <1>2, <1>11 DEF TypeOK
  <2>3. /\ 0 \in Nat /\ 0 <= cb.num /\ cb.num - 0 = cb.num
        /\ nfcc.held[c] + 0 = nfcc.held[c]
    BY <1>2, <1>6 DEF Block
  <2> QED
    BY <1>10, <1>11, <2>1, <2>2, <2>3
<1>12. CASE /\ conn[c].id = "open" /\ conn[c].num # NoFC /\ (c = RF => nfc.st = "OPEN")
            /\ \E k \in SendCounts(cb) : Transmit(c, cb, k)
  <2>1. PICK k \in SendCounts(cb) : Transmit(c, cb, k)
    BY <1>12
  <2>2. k \in Nat /\ k <= cb.num
    BY <1>6, <2>1, SendCountsRange
  <2>3. cb.num # NoFC
    BY <1>2, <1>6, <1>7, <1>12, CreditAssumption DEF Account
  <2>4. /\ \A d \in Conn \ {c} : conn'[d] = conn[d] /\ nfcc'.held[d] = nfcc.held[d]
        /\ conn'[c].id = cb.id /\ conn'[c].init = cb.init
        /\ conn'[c].num = cb.num - k /\ nfcc'.held[c] = nfcc.held[c] + k
    BY <1>2, <1>6, <2>1, <2>3, TransmitEffect
  <2>5. c = RF => ~Owed("activated")
    BY <1>12 DEF LinkOrder
  <2> QED
    BY <1>10, <1>12, <2>2, <2>4, <2>5
<1> QED
  BY <1>8, <1>9, <1>11, <1>12

\* A handled message that brings no credits and opens or ends nothing keeps the ledger.
LEMMA LedgerOther ==
  ASSUME TypeOK, Calm, TypeOK', Handshake, LinkOrder, Ledger, Handle, NEW m \in Message,
         m = Head(toHost), m.kind \notin {"credits", "late", "activated"}, nfcc' = nfcc,
         \A d \in Conn : /\ conn'[d].id = conn[d].id /\ conn'[d].init = conn[d].init
                         /\ conn'[d].num = conn[d].num
  PROVE  Ledger'
<1>1. /\ NoCreditsBehind(toHost')
      /\ \A d \in Conn : Created(d)' => Created(d)
      /\ \A d \in Conn : CreditsDue(d) = CreditsDue(d)' + 0 /\ CreditsDue(d)' \in Nat
      /\ Owed("activated") <=> Owed("activated")'
      /\ \A d \in Conn : LateOn(d)' = LateOn(d)
  BY HandleBasics DEF LateOn
<1>2. \A d \in Conn : CreditsDue(d)' = CreditsDue(d)
  BY <1>1
<1>3. \A d \in Conn : Account(d)'
  BY <1>1, <1>2, AccountSame DEF Ledger
<1>4. RF \in Conn
  BY DEF Conn
<1>5. Owed("activated")' => nfcc'.held[RF] = 0
  BY <1>1, <1>2, <1>4 DEF Ledger
<1> QED
  BY <1>1, <1>3, <1>4, <1>5 DEF Ledger

\* The accounts of a connection that a handled message opens or frees.
LEMMA LedgerOpened ==
  ASSUME TypeOK, Calm, TypeOK', Handshake, LinkOrder, Ledger, Handle, NEW m \in Message,
         m = Head(toHost), m.kind \in {"created", "closed"}, nfcc' = nfcc,
         \A d \in Conn \ {m.c} : conn'[d] = conn[d],
         \/ /\ m.kind = "created" /\ m.flag /\ conn'[m.c].id = "open"
            /\ conn'[m.c].num = m.n /\ conn'[m.c].init = m.n
         \/ conn'[m.c] = Free
  PROVE  Ledger'
<1> DEFINE c == m.c
<1>1. /\ toHost \in Seq(Message) /\ c \in Dyn /\ c \in Conn /\ c # RF
      /\ m.kind = "created" /\ m.flag => m.n \in {Credits, NoFC}
  BY HandleBasics, ConnAssumption DEF MessageOK, Message, TypeOK
<1>2. /\ NoCreditsBehind(toHost') /\ m = toHost[1] /\ toHost # <<>> /\ toHost' = Tail(toHost)
      /\ \A d \in Conn : Created(d)' => Created(d)
      /\ \A d \in Conn : CreditsDue(d) = CreditsDue(d)' + 0 /\ CreditsDue(d)' \in Nat
      /\ Owed("activated") <=> Owed("activated")'
      /\ nfcc.held[c] \in Nat
      /\ \A d \in Conn : LateOn(d)' = LateOn(d) /\ LateOn(d) \in Nat
  BY <1>1, HandleBasics DEF LateOn
<1>3. \A d \in Conn : CreditsDue(d)' = CreditsDue(d)
  BY <1>2
<1>4. RF \in Conn
  BY DEF Conn
<1>5. \A d \in Conn \ {c} : Account(d)'
  BY <1>2, <1>3, AccountSame DEF Ledger
<1>6. Created(c)' => nfcc'.held[c] = 0
  BY <1>1, <1>2 DEF Ledger, Account
<1>7. Owed("activated")' => nfcc'.held[RF] = 0
  BY <1>2, <1>3, <1>4 DEF Ledger
<1>8. conn'[RF].id = "open" /\ conn'[RF].init # NoFC
  BY <1>1, <1>4 DEF Ledger
<1>9. CASE conn'[c] = Free
  <2>1. Account(c)'
    BY <1>6, <1>9, FreeType, CreditAssumption DEF Account
  <2> QED
    BY <1>2, <1>5, <1>7, <1>8, <2>1 DEF Ledger
<1>10. CASE m.kind = "created" /\ m.flag /\ conn'[c].id = "open"
            /\ conn'[c].num = m.n /\ conn'[c].init = m.n
  <2>1. Created(c)
    <3>1. 1 \in DOMAIN toHost
      BY <1>1, <1>2, TailSeq
    <3> QED
      BY <1>2, <1>10, <3>1 DEF Created
  <2>2. nfcc.held[c] = 0
    BY <1>1, <2>1 DEF Ledger, Account
  <2>3. ~For(toHost', "credits", c)
    BY <1>1, <1>2, <1>10, NoCreditsTail DEF Ledger, Opens
  <2>4. CreditsDue(c)' = 0
    BY <2>3, DueNoneNext
  <2>5. m.n \in Nat /\ m.n \in {0, Credits, NoFC}
    BY <1>1, <1>10, CreditAssumption
  <2>6. Balance(c)'
    <3>1. m.n + 0 + 0 \in m.n..(m.n + LateOn(c)) /\ LateOn(c)' = LateOn(c)
      BY <1>1, <1>2, <2>5
    <3>2. /\ conn'[c].num = m.n /\ conn'[c].init = m.n /\ nfcc'.held[c] = 0
          /\ CreditsDue(c)' = 0
      BY <1>10, <2>2, <2>4
    <3> QED
      BY <3>1, <3>2 DEF Balance
  <2>7. Account(c)'
    BY <1>6, <1>10, <2>5, <2>6 DEF Account
  <2> QED
    BY <1>2, <1>5, <1>7, <1>8, <2>7 DEF Ledger
<1> QED
  BY <1>9, <1>10

\* An activation starts the account of RF anew.
LEMMA LedgerActivated ==
  ASSUME TypeOK, Calm, TypeOK', Handshake, LinkOrder, Ledger, Handle, NEW m \in Message,
         m = Head(toHost), ProcActivate(m)
  PROVE  Ledger'
<1>1. m.kind = "activated"
  BY DEF ProcActivate
<1>2. /\ NoCreditsBehind(toHost') /\ m.n = Credits /\ m.c = RF /\ toHost # <<>>
      /\ toHost' = Tail(toHost) /\ m = toHost[1]
      /\ \A d \in Conn : Created(d)' => Created(d)
      /\ \A d \in Conn : CreditsDue(d) = CreditsDue(d)' + 0 /\ CreditsDue(d)' \in Nat
      /\ Owed("activated") /\ ~Owed("activated")'
  BY <1>1, HandleBasics DEF MessageOK
<1>3. \A d \in Conn : CreditsDue(d)' = CreditsDue(d)
  BY <1>2
<1>4. RF \in Conn /\ RF \notin Dyn
  BY ConnAssumption DEF Conn
<1>5. /\ \A d \in Conn \ {RF} : conn'[d] = conn[d]
      /\ conn'[RF].id = conn[RF].id /\ conn'[RF].num = Credits /\ conn'[RF].init = Credits
      /\ nfcc' = nfcc
  <2> DEFINE f == m.flag
             n == m.n
  <2>1. /\ conn' = [conn EXCEPT ![RF] = [conn[RF] EXCEPT !.num = n, !.init = n, !.dep = f]]
        /\ nfcc' = nfcc
    BY DEF ProcActivate
  <2> HIDE DEF f, n
  <2> QED
    BY <1>2, <1>4, <2>1 DEF TypeOK, Block, n
<1>11. used'.late = 0 /\ \A d \in Conn \ {RF} : LateOn(d)' = LateOn(d)
  BY DEF ProcActivate, TypeOK, Use, LateOn
<1>6. \A d \in Conn \ {RF} : Account(d)'
  BY <1>2, <1>3, <1>5, <1>11, AccountSame DEF Ledger
<1>12. ~For(toHost', "credits", RF)
  BY <1>1, <1>2, NoCreditsTail DEF Ledger, Opens, TypeOK
<1>7. nfcc'.held[RF] = 0 /\ CreditsDue(RF)' = 0 /\ ~Created(RF)'
  BY <1>2, <1>4, <1>5, <1>12, CreatedPending, DueNoneNext DEF Ledger
<1>8. Balance(RF)'
  BY <1>5, <1>7, <1>11, CreditAssumption DEF Balance, LateOn
<1>9. Account(RF)'
  BY <1>5, <1>7, <1>8, CreditAssumption DEF Account
<1>10. conn'[RF].id = "open" /\ conn'[RF].init # NoFC
  BY <1>5, CreditAssumption DEF Ledger
<1> QED
  BY <1>2, <1>6, <1>9, <1>10 DEF Ledger

\* NFC_TASK keeps the ledger, whatever message it takes.
LEMMA LedgerHandle ==
  ASSUME TypeOK, Calm, TypeOK', Handshake, LinkOrder, Ledger, Handle
  PROVE  Ledger'
<1>1. PICK m \in Message : m = Head(toHost)
  BY CalmHandle
<1>2. \/ ProcDeactivate(m) \/ ProcActivate(m) \/ ProcCredits(m) \/ ProcData(m)
      \/ ProcConnCreateRsp(m) \/ ReportConnCloseEvt(m)
  BY <1>1, CalmHandle
<1>3. m.c \in Conn /\ RF \in Conn
  BY <1>1 DEF Message, Conn
<1>4. CASE ProcDeactivate(m)
  <2>1. \A d \in Conn : /\ conn'[d].id = conn[d].id /\ conn'[d].init = conn[d].init
                        /\ conn'[d].num = conn[d].num
    BY <1>3, <1>4 DEF ProcDeactivate, TypeOK, Block
  <2> QED
    BY <1>1, <1>4, <2>1, LedgerOther DEF ProcDeactivate
<1>5. CASE ProcActivate(m)
  BY <1>1, <1>5, LedgerActivated
<1>6. CASE ProcCredits(m)
  BY <1>1, <1>6, LedgerProcCredits
<1>7. CASE ProcData(m)
  <2>1. m.kind = "data"
    BY <1>7, ProcDataCases
  <2> QED
    BY <1>1, <1>7, <2>1, ProcDataEffect, LedgerOther
<1>8. CASE ProcConnCreateRsp(m)
  <2>1. \A d \in Conn \ {m.c} : conn'[d] = conn[d]
    BY <1>3, <1>8 DEF ProcConnCreateRsp, TypeOK
  <2>2. conn'[m.c] = IF m.flag THEN [conn[m.c] EXCEPT !.id = "open", !.num = m.n, !.init = m.n]
                     ELSE Free
    BY <1>3, <1>8 DEF ProcConnCreateRsp, TypeOK
  <2>3. m.flag => conn'[m.c].id = "open" /\ conn'[m.c].num = m.n /\ conn'[m.c].init = m.n
    BY <1>3, <2>2 DEF TypeOK, Block
  <2> QED
    BY <1>1, <1>8, <2>1, <2>2, <2>3, LedgerOpened DEF ProcConnCreateRsp
<1>9. CASE ReportConnCloseEvt(m)
  <2>1. (\A d \in Conn \ {m.c} : conn'[d] = conn[d]) /\ conn'[m.c] = Free
    BY <1>3, <1>9 DEF ReportConnCloseEvt, TypeOK
  <2> QED
    BY <1>1, <1>9, <2>1, LedgerOpened DEF ReportConnCloseEvt
<1> QED
  BY <1>2, <1>4, <1>5, <1>6, <1>7, <1>8, <1>9

\* A message of the NFCC that is no credit and opens nothing keeps the ledger.
LEMMA LedgerNews ==
  ASSUME TypeOK, TypeOK', Ledger, NEW e \in Message, toHost' = Append(toHost, e),
         e.kind \notin {"credits", "activated"}, ~(e.kind = "created" /\ e.flag),
         conn' = conn, nfcc'.held = nfcc.held, used'.late = used.late
  PROVE  Ledger'
<1>0. toHost \in Seq(Message) /\ RF \in Conn
  BY DEF TypeOK, Conn
<1>1. \A d \in Conn : CreditsDue(d)' = CreditsDue(d)
  <2>1. \A d \in Conn : CreditsDue(d)' = CreditsDue(d) + 0 /\ CreditsDue(d) \in Nat
    BY DueAppend, DueCount
  <2> QED
    BY <2>1
<1>2. \A d \in Conn : Created(d)' <=> Created(d)
  BY CreatedAppend
<1>3. Owed("activated")' <=> Owed("activated")
  BY <1>0, HasAppend, OwedHas
<1>4. NoCreditsBehind(toHost')
  BY NoCreditsAppend DEF Ledger
<1>5. \A d \in Conn : Account(d)'
  BY <1>1, <1>2, <1>3, AccountSame DEF Ledger, LateOn
<1> QED
  BY <1>0, <1>1, <1>3, <1>4, <1>5 DEF Ledger

\* A new link starts with no credits on their way and none at the NFCC.
LEMMA LedgerActivate ==
  ASSUME TypeOK, TypeOK', Handshake, LinkOrder, Ledger, NEW dep \in BOOLEAN, Activate(dep)
  PROVE  Ledger'
<1> DEFINE e == Msg("activated", RF, Credits, dep)
<1>0. toHost \in Seq(Message) /\ RF \in Conn /\ RF \notin Dyn
  BY ConnAssumption DEF TypeOK, Conn
<1>1. e \in Message /\ e.kind = "activated"
  BY Messages DEF Msg
<1> HIDE DEF e
<1>2. toHost' = Append(toHost, e) /\ conn' = conn
  BY DEF Activate, ToHost, e
<1>3. nfcc'.held[RF] = 0 /\ \A d \in Conn \ {RF} : nfcc'.held[d] = nfcc.held[d]
  BY DEF Activate, TypeOK, NfccState, Conn
<1>4. \A d \in Conn : CreditsDue(d)' = CreditsDue(d)
  <2>1. \A d \in Conn : CreditsDue(d)' = CreditsDue(d) + 0 /\ CreditsDue(d) \in Nat
    BY <1>1, <1>2, DueAppend, DueCount
  <2> QED
    BY <2>1
<1>5. \A d \in Conn : LateOn(d)' = LateOn(d)
  BY DEF Activate, TypeOK, Use, LateOn
<1>6. \A d \in Conn : Created(d)' <=> Created(d)
  BY <1>1, <1>2, CreatedAppend
<1>7. Owed("activated")'
  BY <1>0, <1>1, <1>2, HasAppend, OwedHas
<1>8. NoCreditsBehind(toHost')
  BY <1>1, <1>2, NoCreditsAppend DEF Ledger
<1>9. \A d \in Conn \ {RF} : Account(d)'
  BY <1>2, <1>3, <1>4, <1>5, <1>6, AccountSame DEF Ledger
<1>10. Account(RF)'
  BY <1>0, <1>2, <1>3, <1>7 DEF Ledger, Account
<1> QED
  BY <1>0, <1>2, <1>3, <1>8, <1>9, <1>10 DEF Ledger

\* The answers keep the ledger: a connection is opened with nothing at the NFCC.
LEMMA LedgerAnswer ==
  ASSUME TypeOK, TypeOK', Handshake, LinkOrder, Ledger, Answer
  PROVE  Ledger'
<1>0. toHost \in Seq(Message) /\ toNfcc \in Seq(Cmd) /\ nfcc \in NfccState /\ RF \in Conn
  BY DEF TypeOK, Conn
<1>1. PICK m \in Cmd : toNfcc # <<>> /\ m = Head(toNfcc) /\ AnswerOutcome(m) /\ conn' = conn /\ used' = used
                       /\ m.c \in Conn /\ CommandOK(m)
  <2>1. toNfcc # <<>> /\ AnswerOutcome(Head(toNfcc)) /\ conn' = conn /\ used' = used
    BY <1>0, AnswerCases
  <2>2. Head(toNfcc) \in Cmd /\ Head(toNfcc) = toNfcc[1] /\ 1 \in DOMAIN toNfcc
    BY <1>0, <2>1, TailSeq
  <2> QED
    BY <2>1, <2>2 DEF Cmd, Handshake
<1>2. CASE m.kind = "deactivate"
  <2>1. /\ nfcc'.held = nfcc.held
        /\ toHost' = IF nfcc.mode = "active" THEN Append(Append(toHost, Rsp), Ntf)
                     ELSE Append(toHost, Rsp)
    BY <1>0, <1>1, <1>2 DEF AnswerOutcome, NfccState
  <2>2. CASE nfcc.mode # "active"
    BY <1>1, <2>1, <2>2, Messages, LedgerNews
  <2>3. CASE nfcc.mode = "active"
    <3> DEFINE s == Append(toHost, Rsp)
    <3>1. s \in Seq(Message) /\ toHost' = Append(s, Ntf)
      BY <1>0, <2>1, <2>3, Messages, AppendSeq
    <3>2. \A d \in Conn : CreditsDue(d)' = CreditsDue(d)
      <4>1. /\ 0 \in 0..Len(toHost) /\ 0 \in 0..Len(s)
            /\ \A d \in Conn : CreditsDue(d) \in Nat
        BY <1>0, <3>1, DueCount
      <4>2. \A d \in Conn : Count(s, "credits", d, 0) = Count(toHost, "credits", d, 0) + 0
        BY <1>0, <4>1, Messages, CountAppend
      <4> HIDE DEF s
      <4>3. \A d \in Conn : Count(toHost', "credits", d, 0) = Count(s, "credits", d, 0) + 0
        BY <3>1, <4>1, Messages, CountAppend
      <4> QED
        BY <4>1, <4>2, <4>3, DueCount, DueCountNext
    <3>3. \A i \in DOMAIN toHost' :
            \/ i \in DOMAIN toHost /\ toHost'[i] = toHost[i]
            \/ toHost'[i].kind = "deactivated"
      <4> HIDE DEF s
      <4>1. \A i \in DOMAIN toHost' : (i \in DOMAIN s /\ toHost'[i] = s[i]) \/ toHost'[i] = Ntf
        BY <3>1, Messages, AllAppend
      <4>2. \A i \in DOMAIN s : (i \in DOMAIN toHost /\ s[i] = toHost[i]) \/ s[i] = Rsp
        BY <1>0, Messages, AllAppend DEF s
      <4> QED
        BY <4>1, <4>2, Messages
    <3>4. \A d \in Conn : Created(d)' => Created(d)
      BY <3>3 DEF Created
    <3>5. Owed("activated")' <=> Owed("activated")
      BY <1>0, <3>1, Messages, HasAppend, OwedHas
    <3>6. NoCreditsBehind(toHost')
      BY <3>3 DEF Ledger, NoCreditsBehind, Opens
    <3>7. \A d \in Conn : Account(d)'
      BY <1>1, <2>1, <3>2, <3>4, <3>5, AccountSame DEF Ledger, LateOn
    <3> QED
      BY <1>0, <1>1, <2>1, <3>2, <3>5, <3>6, <3>7 DEF Ledger
  <2> QED
    BY <2>2, <2>3
<1>3. CASE m.kind = "create"
  <2>1. m.c \in Dyn /\ m.c # RF /\ For(toNfcc, "create", m.c)
    <3>1. m = toNfcc[1] /\ 1 \in DOMAIN toNfcc
      BY <1>0, <1>1, TailSeq
    <3> QED
      BY <1>1, <1>3, <3>1, ConnAssumption DEF CommandOK, For
  <2>2. conn[m.c].id = "pending" /\ ~For(toHost, "created", m.c)
    BY <2>1 DEF Handshake
  <2>3. CASE nfcc' = nfcc /\ toHost' = Append(toHost, Msg("created", m.c, 0, FALSE))
    <3> DEFINE e == Msg("created", m.c, 0, FALSE)
    <3>1. e \in Message /\ e.kind = "created" /\ ~e.flag
      BY <1>1, Messages DEF Msg
    <3> HIDE DEF e
    <3>2. toHost' = Append(toHost, e)
      BY <2>3 DEF e
    <3> QED
      BY <1>1, <2>3, <3>1, <3>2, LedgerNews
  <2>4. CASE /\ nfcc' = [nfcc EXCEPT !.open = @ \cup {m.c}, !.held[m.c] = 0,
                                     !.sent[m.c] = 0, !.ends[m.c] = {}]
             /\ \E n \in {Credits, NoFC} : toHost' = Append(toHost, Msg("created", m.c, n, TRUE))
    <3>1. PICK e \in Message : e.kind = "created" /\ e.c = m.c /\ toHost' = Append(toHost, e)
      BY <1>1, <2>4, Messages DEF Msg
    <3>2. /\ nfcc'.held[m.c] = 0
          /\ \A d \in Conn \ {m.c} : nfcc'.held[d] = nfcc.held[d]
      BY <1>0, <1>1, <2>4 DEF NfccState
    <3>3. \A d \in Conn : CreditsDue(d)' = CreditsDue(d)
      <4>1. \A d \in Conn : CreditsDue(d)' = CreditsDue(d) + 0 /\ CreditsDue(d) \in Nat
        BY <3>1, DueAppend, DueCount
      <4> QED
        BY <4>1
    <3>4. \A d \in Conn \ {m.c} : Created(d)' <=> Created(d)
      BY <3>1, CreatedAppend
    <3>5. Owed("activated")' <=> Owed("activated")
      BY <1>0, <3>1, HasAppend, OwedHas
    <3>6. NoCreditsBehind(toHost')
      BY <3>1, NoCreditsAppend DEF Ledger
    <3>7. \A d \in Conn \ {m.c} : Account(d)'
      BY <1>1, <3>2, <3>3, <3>4, <3>5, AccountSame DEF Ledger, LateOn
    <3>8. Account(m.c)'
      BY <1>1, <2>2, <3>2 DEF Ledger, Account
    <3> QED
      BY <1>0, <1>1, <2>1, <3>2, <3>3, <3>5, <3>6, <3>7, <3>8 DEF Ledger
  <2> QED
    BY <1>1, <1>3, <2>3, <2>4 DEF AnswerOutcome
<1>4. CASE m.kind = "close"
  <2> DEFINE e == Msg("closed", m.c, 0, FALSE)
  <2>1. e \in Message /\ e.kind = "closed"
    BY <1>1, Messages DEF Msg
  <2> HIDE DEF e
  <2>2. toHost' = Append(toHost, e) /\ nfcc'.held = nfcc.held
    BY <1>0, <1>1, <1>4 DEF AnswerOutcome, NfccState, e
  <2> QED
    BY <1>1, <2>1, <2>2, LedgerNews
<1> QED
  BY <1>1, <1>2, <1>3, <1>4 DEF Cmd

\* The steps of the NFCC keep the ledger.
LEMMA LedgerNfcc ==
  ASSUME TypeOK, Calm, TypeOK', Handshake, LinkOrder, Ledger, NfccNext, ~NfccReset
  PROVE  Ledger'
<1>0. nfcc \in NfccState /\ RF \in Conn
  BY DEF TypeOK, Conn
<1>1. ASSUME NEW c \in Conn, ReturnCredit(c)
      PROVE  Ledger'
  BY <1>1, LedgerReturnCredit
<1>2. ASSUME NEW c \in Conn, NEW more \in BOOLEAN, SendToHost(c, more)
      PROVE  Ledger'
  <2> DEFINE e == Msg("data", c, nfcc.sent[c] + 1, more)
  <2>1. nfcc.sent[c] + 1 \in Nat
    BY <1>0 DEF NfccState
  <2>2. e \in Message /\ e.kind = "data"
    BY <2>1, MsgType DEF Msg
  <2>3. toHost' = Append(toHost, e) /\ conn' = conn /\ nfcc'.held = nfcc.held /\ used' = used
    BY <1>0, <1>2 DEF SendToHost, ToHost, NfccState
  <2> HIDE DEF e
  <2> QED
    BY <2>2, <2>3, LedgerNews
<1>3. ASSUME NEW dep \in BOOLEAN, Activate(dep)
      PROVE  Ledger'
  BY <1>3, LedgerActivate
<1>4. ASSUME LinkLost
      PROVE  Ledger'
  <2>1. toHost' = Append(toHost, Ntf) /\ conn' = conn /\ nfcc'.held = nfcc.held /\ used' = used
    BY <1>0, <1>4 DEF LinkLost, ToHost, NfccState, Ntf
  <2> QED
    BY <2>1, Messages, LedgerNews
<1>5. ASSUME Answer
      PROVE  Ledger'
  BY <1>5, LedgerAnswer
<1>6. ASSUME ReturnLate
      PROVE  Ledger'
  <2> DEFINE e == Msg("late", RF, 1, FALSE)
  <2>1. e \in Message /\ e.kind = "late"
    BY Messages DEF Msg
  <2>2. toHost' = Append(toHost, e) /\ conn' = conn /\ nfcc'.held = nfcc.held /\ used' = used
    BY <1>0, <1>6 DEF ReturnLate, ToHost, NfccState
  <2> HIDE DEF e
  <2> QED
    BY <2>1, <2>2, LedgerNews
<1> QED
  BY <1>1, <1>2, <1>3, <1>4, <1>5, <1>6 DEF NfccNext

\* The calls keep the ledger.
LEMMA LedgerApi ==
  ASSUME TypeOK, Calm, TypeOK', Handshake, LinkOrder, Ledger, ApiNext
  PROVE  Ledger'
<1>0. conn \in [Conn -> Block] /\ RF \in Conn /\ Dyn \subseteq Conn
  BY DEF TypeOK, Conn
<1>1. ASSUME NEW c \in Conn, NEW n \in 1..lim.frag, NFC_SendData(c, n)
      PROVE  Ledger'
  BY <1>1, LedgerSendData
<1>2. ASSUME NEW c \in Conn, NFC_FlushData(c)
      PROVE  Ledger'
  <2>1. \A d \in Conn : /\ conn'[d].id = conn[d].id /\ conn'[d].init = conn[d].init
                        /\ conn'[d].num = conn[d].num
    BY <1>0, <1>2 DEF NFC_FlushData, Block
  <2> QED
    BY <1>2, <2>1, LedgerQuiet DEF NFC_FlushData
<1>3. ASSUME NEW set \in BOOLEAN, NFC_SetStaticRfCback(set)
      PROVE  Ledger'
  <2> DEFINE cb == [conn[RF] EXCEPT !.cb = set]
  <2>1. /\ cb \in Block /\ cb.id = conn[RF].id /\ cb.init = conn[RF].init
        /\ cb.num = conn[RF].num
    BY <1>0 DEF Block
  <2> HIDE DEF cb
  <2>2. DataEvent(RF, cb, nfc.reassembly, <<>>) /\ nfcc' = nfcc /\ toHost' = toHost
        /\ used' = used
    BY <1>3 DEF NFC_SetStaticRfCback, cb
  <2>3. \A d \in Conn : /\ conn'[d].id = conn[d].id /\ conn'[d].init = conn[d].init
                        /\ conn'[d].num = conn[d].num
    BY <1>0, <2>1, <2>2, DataEventEffect
  <2> QED
    BY <2>2, <2>3, LedgerQuiet
<1>4. ASSUME NEW set, NFC_SetReassemblyFlag(set)
      PROVE  Ledger'
  BY <1>4, LedgerQuiet DEF NFC_SetReassemblyFlag
<1>5. ASSUME NEW c \in Dyn, NFC_ConnCreate(c)
      PROVE  Ledger'
  <2> DEFINE cb == [Free EXCEPT !.id = "pending", !.cb = TRUE]
  <2>1. cb \in Block /\ cb.id = "pending" /\ cb.init = 0 /\ cb.num = 0
    BY FreeType DEF Free, Block
  <2>2. conn' = [conn EXCEPT ![c] = cb] /\ nfcc' = nfcc /\ toHost' = toHost
    BY <1>5 DEF NFC_ConnCreate
  <2> HIDE DEF cb
  <2>3. /\ conn'[c] = cb /\ c \in Conn /\ c # RF
        /\ \A d \in Conn \ {c} : conn'[d] = conn[d]
    BY <1>0, <2>2, ConnAssumption
  <2>4. /\ \A d \in Conn : CreditsDue(d)' = CreditsDue(d) /\ (Created(d)' <=> Created(d))
        /\ Owed("activated")' <=> Owed("activated")
    BY <2>2 DEF CreditsDue, Created, Owed
  <2>7. \A d \in Conn : LateOn(d)' = LateOn(d)
    BY <1>5 DEF NFC_ConnCreate, TypeOK, Use, LateOn
  <2>5. \A d \in Conn \ {c} : Account(d)'
    BY <2>2, <2>3, <2>4, <2>7, AccountSame DEF Ledger
  <2>6. Account(c)'
    BY <2>1, <2>2, <2>3, <2>4, CreditAssumption DEF Ledger, Account
  <2> QED
    BY <1>0, <2>2, <2>3, <2>4, <2>5, <2>6 DEF Ledger
<1>6. ASSUME NEW c \in Dyn, NFC_ConnClose(c)
      PROVE  Ledger'
  BY <1>6, LedgerQuiet DEF NFC_ConnClose
<1>7. ASSUME NFC_Deactivate
      PROVE  Ledger'
  <2>1. used'.late = used.late
    BY <1>7 DEF NFC_Deactivate, TypeOK, Use
  <2> QED
    BY <1>7, <2>1, LedgerQuiet DEF NFC_Deactivate
<1> QED
  BY <1>1, <1>2, <1>3, <1>4, <1>5, <1>6, <1>7 DEF ApiNext

\* Every step keeps the ledger.
LEMMA LedgerStep ==
  ASSUME TypeOK, Calm, Handshake, LinkOrder, Ledger, [Next]_vars, used'.reset = 0
  PROVE  Ledger'
<1>1. TypeOK'
  BY StepType
<1>2. CASE ApiNext
  BY <1>1, <1>2, LedgerApi
<1>3. CASE Handle
  BY <1>1, <1>3, LedgerHandle
<1>4. CASE WaitToDeactivateTimeout
  BY <1>4, LedgerQuiet DEF WaitToDeactivateTimeout
<1>5. CASE NfccNext
  BY <1>1, <1>5, LedgerNfcc, NfccReset0
<1>6. CASE UNCHANGED vars
  BY <1>6, LedgerQuiet DEF vars
<1> QED
  BY <1>2, <1>3, <1>4, <1>5, <1>6 DEF Next

\* A reset taken from the mailbox was the only one.
LEMMA OneResetTail ==
  ASSUME NEW s \in Seq(Message), s # <<>>, OneReset(s)
  PROVE  OneReset(Tail(s)) /\ (s[1].kind = "reset" => ~Has(Tail(s), "reset"))
<1>1. /\ Len(s) \in Nat \ {0} /\ DOMAIN s = 1..Len(s) /\ DOMAIN Tail(s) = 1..(Len(s) - 1)
      /\ \A i \in 1..(Len(s) - 1) : Tail(s)[i] = s[i + 1]
  BY TailSeq
<1>2. \A i \in DOMAIN Tail(s) : i + 1 \in DOMAIN s /\ i + 1 # 1 /\ Tail(s)[i] = s[i + 1]
  BY <1>1
<1>3. \A i, j \in DOMAIN Tail(s) : i + 1 = j + 1 => i = j
  BY <1>1
<1>4. OneReset(Tail(s))
  BY <1>2, <1>3 DEF OneReset
<1>5. s[1].kind = "reset" => ~Has(Tail(s), "reset")
  BY <1>1, <1>2 DEF OneReset, Has
<1> QED
  BY <1>4, <1>5

\* A message added leaves at most one reset in the mailbox.
LEMMA OneResetAppend ==
  ASSUME NEW s \in Seq(Message), NEW e \in Message, OneReset(s),
         e.kind # "reset" \/ ~Has(s, "reset")
  PROVE  OneReset(Append(s, e))
<1>1. /\ Len(s) \in Nat /\ DOMAIN s = 1..Len(s)
      /\ DOMAIN Append(s, e) = 1..(Len(s) + 1)
      /\ \A i \in 1..Len(s) : Append(s, e)[i] = s[i]
      /\ Append(s, e)[Len(s) + 1] = e
  BY AppendSeq
<1>2. \A i \in DOMAIN Append(s, e) : i \in DOMAIN s \/ i = Len(s) + 1
  BY <1>1
<1> QED
  BY <1>1, <1>2 DEF OneReset, Has

\* What is counted anew comes out of what a reset may give.
LEMMA SurplusKept ==
  ASSUME TypeOK, TypeOK', Surplus, used'.reset = used.reset, OneReset(toHost'),
         Pending' <= Pending,
         \A d \in Conn :
           \/ /\ conn'[d].init = conn[d].init
              /\ conn'[d].num + Pending' <= conn[d].num + Pending
           \/ conn'[d].num + Pending' <= conn'[d].init + Pending
  PROVE  Surplus'
<1>1. Pending \in Nat /\ Pending' \in Nat /\ used.reset \in Nat
  BY DEF Pending, TypeOK, Use
<1>2. Pending' <= used'.reset
  BY <1>1 DEF Surplus
<1>3. ASSUME NEW d \in Conn, conn'[d].init # NoFC
      PROVE  conn'[d].num + Pending' <= conn'[d].init + used'.reset
  <2>1. /\ conn[d].num \in Nat /\ conn[d].init \in Nat
        /\ conn'[d].num \in Nat /\ conn'[d].init \in Nat
    BY DEF TypeOK, Block
  <2>2. conn[d].init # NoFC => conn[d].num + Pending <= conn[d].init + used.reset
    BY DEF Surplus
  <2>3. Pending <= used.reset
    BY DEF Surplus
  <2>4. CASE /\ conn'[d].init = conn[d].init
             /\ conn'[d].num + Pending' <= conn[d].num + Pending
    BY <1>1, <1>3, <2>1, <2>2, <2>4
  <2>5. CASE conn'[d].num + Pending' <= conn'[d].init + Pending
    BY <1>1, <2>1, <2>3, <2>5
  <2> QED
    BY <2>4, <2>5
<1> QED
  BY <1>2, <1>3 DEF Surplus

\* A step that touches neither credits nor resets keeps the surplus.
LEMMA SurplusQuiet ==
  ASSUME TypeOK, TypeOK', Surplus, used'.reset = used.reset, OneReset(toHost'),
         nfc'.bump = nfc.bump, Owed("reset")' => Owed("reset"),
         \A d \in Conn :
           \/ conn'[d].num = conn[d].num /\ conn'[d].init = conn[d].init
           \/ conn'[d].num = conn'[d].init
  PROVE  Surplus'
<1>1. Pending' <= Pending /\ Pending \in Nat /\ Pending' \in Nat
  BY DEF Pending
<1>2. \A d \in Conn : conn[d].num \in Nat /\ conn'[d].num \in Nat
  BY DEF TypeOK, Block
<1> QED
  BY <1>1, <1>2, SurplusKept

\* NFC_TASK counts anew once for each reset.
LEMMA SurplusHandle ==
  ASSUME TypeOK, TypeOK', Surplus, Handle, used'.reset = used.reset
  PROVE  Surplus'
<1> DEFINE m == Head(toHost)
<1>0. toHost \in Seq(Message) /\ RF \in Conn
  BY DEF TypeOK, Conn
<1>1. toHost # <<>> /\ toHost' = Tail(toHost) /\ m = toHost[1] /\ m \in Message
  BY TailSeq DEF Handle, TypeOK
<1>2. m.c \in Conn
  BY <1>1 DEF Message
<1>3. /\ OneReset(toHost') /\ (m.kind = "reset" => ~Owed("reset")')
      /\ (Owed("reset") <=> m.kind = "reset" \/ Owed("reset")')
  BY <1>0, <1>1, OneResetTail, HasTail, OwedHas DEF Surplus
<1>4. \/ ProcDeactivate(m) \/ ProcActivate(m) \/ ProcCredits(m) \/ ProcData(m)
      \/ ProcConnCreateRsp(m) \/ ReportConnCloseEvt(m) \/ ProcReset(m)
  BY DEF Handle
<1> HIDE DEF m
<1>5. CASE ProcDeactivate(m)
  <2>1. \A d \in Conn : conn'[d].num = conn[d].num /\ conn'[d].init = conn[d].init
    BY <1>0, <1>5 DEF ProcDeactivate, TypeOK, Block
  <2>2. nfc'.bump = nfc.bump
    BY <1>5 DEF ProcDeactivate, TypeOK, NfcState
  <2> QED
    BY <1>3, <2>1, <2>2, SurplusQuiet
<1>6. CASE ProcActivate(m)
  <2> DEFINE f == m.flag
             n == m.n
  <2>1. conn' = [conn EXCEPT ![RF] = [conn[RF] EXCEPT !.num = n, !.init = n, !.dep = f]]
    BY <1>6 DEF ProcActivate
  <2> HIDE DEF f, n
  <2>2. /\ \A d \in Conn \ {RF} : conn'[d] = conn[d]
        /\ conn'[RF].num = conn'[RF].init
    BY <1>0, <2>1 DEF TypeOK, Block
  <2>3. nfc'.bump = nfc.bump
    BY <1>6 DEF ProcActivate, TypeOK, NfcState
  <2> QED
    BY <1>3, <2>2, <2>3, SurplusQuiet
<1>7. CASE ProcCredits(m)
  <2> DEFINE c == m.c
             cb == Credited(m)
  <2>1. /\ cb \in Block /\ cb.init = conn[c].init
        /\ cb.num <= conn[c].init + IF nfc.bump THEN 1 ELSE 0
        /\ cb.num \in Nat /\ conn[c].init \in Nat
    BY <1>1, CreditedBlock DEF Block
  <2>2. \/ UNCHANGED <<nfc, conn, nfcc, toNfcc, seen>>
        \/ /\ conn' = [conn EXCEPT ![c] = cb]
           /\ \/ nfc' = [NfcRecounted EXCEPT !.deactivating = FALSE, !.timer = FALSE,
                                              !.reassembly = TRUE]
              \/ nfc' = NfcRecounted
        \/ (\E k \in SendCounts(cb) : Transmit(c, cb, k)) /\ nfc' = NfcRecounted
    BY <1>7, ProcCreditsCases
  <2>3. NfcRecounted \in NfcState /\ ~NfcRecounted.bump
    BY NfcRecountedType DEF TypeOK
  <2> HIDE DEF c, cb
  <2>4. ~Owed("reset") => ~Owed("reset")'
    BY <1>3
  <2>5. ASSUME ~nfc'.bump, conn'[c].init = cb.init, conn'[c].num <= cb.num,
               \A d \in Conn \ {c} : conn'[d] = conn[d]
        PROVE  Surplus'
    <3>1. /\ Pending' + (IF nfc.bump THEN 1 ELSE 0) <= Pending
          /\ Pending' \in Nat /\ Pending \in Nat /\ Pending' <= Pending
      BY <2>4, <2>5 DEF Pending
    <3>2. conn'[c].num \in Nat /\ \A d \in Conn : conn[d].num \in Nat
      <4>1. c \in Conn
        BY <1>2 DEF c
      <4>2. \A d \in Conn : conn[d].num \in Nat
        BY DEF TypeOK, Block
      <4>3. \A d \in Conn : conn'[d].num \in Nat
        BY DEF TypeOK, Block
      <4> HIDE DEF TypeOK
      <4>4. conn'[c].num \in Nat
        BY <4>1, <4>3, Zenon
      <4> QED
        BY <4>2, <4>4
    <3>3. conn'[c].num + Pending' <= conn'[c].init + Pending
      <4> DEFINE x == conn'[c].num
                 y == cb.num
                 z == conn[c].init
                 b == IF nfc.bump THEN 1 ELSE 0
                 p == Pending
                 q == Pending'
      <4>1. /\ x \in Nat /\ y \in Nat /\ z \in Nat /\ b \in Nat
            /\ p \in Nat /\ q \in Nat
        BY <2>1, <3>1, <3>2
      <4>2. x <= y /\ y <= z + b /\ q + b <= p /\ conn'[c].init = z
        BY <2>1, <2>5, <3>1
      <4> HIDE DEF x, y, z, b, p, q
      <4>3. x + q <= z + p
        BY <4>1, <4>2
      <4> QED
        BY <4>2, <4>3 DEF x, p, q
    <3>4. \A d \in Conn \ {c} : /\ conn'[d].init = conn[d].init
                                 /\ conn'[d].num + Pending' <= conn[d].num + Pending
      BY <2>5, <3>1, <3>2
    <3> QED
      BY <1>3, <3>1, <3>3, <3>4, SurplusKept
  <2>6. CASE UNCHANGED <<nfc, conn, nfcc, toNfcc, seen>>
    BY <1>3, <2>4, <2>6, SurplusQuiet
  <2>7. CASE /\ conn' = [conn EXCEPT ![c] = cb]
             /\ \/ nfc' = [NfcRecounted EXCEPT !.deactivating = FALSE, !.timer = FALSE,
                                                !.reassembly = TRUE]
                \/ nfc' = NfcRecounted
    <3>1. ~nfc'.bump
      BY <2>3, <2>7 DEF NfcState
    <3>2. conn'[c] = cb /\ \A d \in Conn \ {c} : conn'[d] = conn[d]
      BY <1>2, <2>7 DEF TypeOK, c
    <3> QED
      BY <2>1, <2>5, <3>1, <3>2
  <2>8. CASE (\E k \in SendCounts(cb) : Transmit(c, cb, k)) /\ nfc' = NfcRecounted
    <3>1. PICK k \in SendCounts(cb) : Transmit(c, cb, k)
      BY <2>8
    <3>2. /\ conn'[c].init = cb.init /\ \A d \in Conn \ {c} : conn'[d] = conn[d]
          /\ conn'[c].num = IF cb.num = NoFC THEN NoFC ELSE cb.num - k
      BY <1>2, <2>1, <3>1, TransmitEffect DEF c
    <3>3. conn'[c].num <= cb.num
      BY <2>1, <3>1, <3>2, SendCountsRange
    <3> QED
      BY <2>3, <2>5, <2>8, <3>2, <3>3
  <2> QED
    BY <2>2, <2>6, <2>7, <2>8
<1>8. CASE ProcData(m)
  <2>1. (\A d \in Conn : conn'[d].num = conn[d].num /\ conn'[d].init = conn[d].init)
        /\ nfc'.bump = nfc.bump
    BY <1>1, <1>8, ProcDataEffect
  <2> QED
    BY <1>3, <2>1, SurplusQuiet
<1>9. CASE ProcConnCreateRsp(m)
  <2>1. (\A d \in Conn \ {m.c} : conn'[d] = conn[d]) /\ nfc' = nfc
    BY <1>2, <1>9 DEF ProcConnCreateRsp, TypeOK
  <2>2. conn'[m.c] = IF m.flag THEN [conn[m.c] EXCEPT !.id = "open", !.num = m.n, !.init = m.n]
                     ELSE Free
    BY <1>2, <1>9 DEF ProcConnCreateRsp, TypeOK
  <2>3. conn'[m.c].num = conn'[m.c].init
    BY <1>2, <2>2, FreeType DEF TypeOK, Block
  <2> QED
    BY <1>3, <2>1, <2>3, SurplusQuiet
<1>10. CASE ReportConnCloseEvt(m)
  <2>1. (\A d \in Conn \ {m.c} : conn'[d] = conn[d]) /\ conn'[m.c] = Free /\ nfc' = nfc
    BY <1>2, <1>10 DEF ReportConnCloseEvt, TypeOK
  <2>2. conn'[m.c].num = conn'[m.c].init
    BY <2>1, FreeType
  <2> QED
    BY <1>3, <2>1, <2>2, SurplusQuiet
<1>11. CASE ProcReset(m)
  <2>1. \A d \in Conn : conn'[d].num = conn[d].num /\ conn'[d].init = conn[d].init
    BY <1>11 DEF ProcReset, TypeOK, Block
  <2>2. m.kind = "reset" /\ nfc'.bump
    BY <1>11 DEF ProcReset, TypeOK, NfcState
  <2>3. Pending' <= Pending /\ Pending' \in Nat /\ Pending \in Nat
    BY <1>3, <2>2 DEF Pending
  <2>4. \A d \in Conn : conn[d].num \in Nat
    BY DEF TypeOK, Block
  <2>5. \A d \in Conn : conn'[d].num + Pending' <= conn[d].num + Pending
    BY <2>1, <2>3, <2>4
  <2> QED
    BY <1>3, <2>1, <2>3, <2>5, SurplusKept
<1> QED
  BY <1>4, <1>5, <1>6, <1>7, <1>8, <1>9, <1>10, <1>11

\* NFC_SendData takes the credit that a reset gives.
LEMMA SurplusSendData ==
  ASSUME TypeOK, TypeOK', Surplus, NEW c \in Conn, NEW n \in 1..lim.frag, NFC_SendData(c, n)
  PROVE  Surplus'
<1> DEFINE cb == Queued(c, n)
<1>1. /\ nfc' = NfcRecounted /\ toHost' = toHost /\ cb \in Block
      /\ cb.init = conn[c].init /\ cb.num = Recounted(conn[c]).num
      /\ \E k \in SendCounts(cb) : Transmit(c, cb, k)
  BY SendDataEffect
<1>2. PICK k \in SendCounts(cb) : Transmit(c, cb, k)
  BY <1>1
<1>3. conn[c] \in Block /\ cb.num <= conn[c].num + IF nfc.bump THEN 1 ELSE 0
  BY <1>1, RecountedBlock DEF TypeOK
<1>4. ~nfc'.bump /\ used'.reset = used.reset
  BY <1>1, NfcRecountedType, SendDataEffect DEF TypeOK, Use
<1> HIDE DEF cb
<1>5. /\ \A d \in Conn \ {c} : conn'[d] = conn[d]
      /\ conn'[c].init = cb.init
      /\ conn'[c].num = IF cb.num = NoFC THEN NoFC ELSE cb.num - k
  BY <1>1, <1>2, TransmitEffect
<1>6. /\ conn'[c].num <= cb.num /\ cb.num \in Nat /\ conn'[c].num \in Nat
      /\ \A d \in Conn : conn[d].num \in Nat
  BY <1>1, <1>2, <1>5, SendCountsRange DEF Block, TypeOK
<1>7. /\ Pending' + (IF nfc.bump THEN 1 ELSE 0) <= Pending
      /\ Pending' \in Nat /\ Pending \in Nat /\ Pending' <= Pending
  BY <1>1, <1>4 DEF Pending, Owed
<1>8. conn'[c].num + Pending' <= conn[c].num + Pending
  BY <1>3, <1>6, <1>7
<1>9. \A d \in Conn \ {c} : conn'[d].num + Pending' <= conn[d].num + Pending
  BY <1>5, <1>6, <1>7
<1>10. OneReset(toHost')
  BY <1>1 DEF Surplus
<1> QED
  BY <1>1, <1>4, <1>5, <1>7, <1>8, <1>9, <1>10, SurplusKept

\* A reset of the NFCC is one more that a connection may be counted anew for.
LEMMA SurplusReset ==
  ASSUME TypeOK, TypeOK', Surplus, NfccReset
  PROVE  Surplus'
<1> DEFINE e == Msg("reset", RF, 0, FALSE)
<1>0. toHost \in Seq(Message)
  BY DEF TypeOK
<1>1. e \in Message /\ e.kind = "reset"
  BY Messages DEF Msg
<1> HIDE DEF e
<1>2. /\ toHost' = Append(toHost, e) /\ ~Owed("reset") /\ nfc' = nfc /\ conn' = conn
  BY DEF NfccReset, ToHost, e
<1>3. used'.reset = used.reset + 1 /\ used.reset \in Nat
  BY DEF NfccReset, TypeOK, Use
<1>4. OneReset(toHost')
  BY <1>0, <1>1, <1>2, OneResetAppend, OwedHas DEF Surplus
<1>5. Pending' <= Pending + 1 /\ Pending' \in Nat /\ Pending \in Nat
  BY <1>2 DEF Pending
<1>6. \A d \in Conn : conn[d].num \in Nat /\ conn[d].init \in Nat
  BY DEF TypeOK, Block
<1>7. Pending <= used.reset /\ Pending' <= used'.reset
  BY <1>3, <1>5 DEF Surplus
<1>8. ASSUME NEW d \in Conn, conn[d].init # NoFC
      PROVE  conn[d].num + Pending' <= conn[d].init + used'.reset
  <2>1. conn[d].num + Pending <= conn[d].init + used.reset
    BY <1>8 DEF Surplus
  <2> QED
    BY <1>3, <1>5, <1>6, <2>1
<1> QED
  BY <1>2, <1>4, <1>7, <1>8 DEF Surplus

\* Every step keeps the surplus.
LEMMA SurplusStep ==
  ASSUME TypeOK, TypeOK', Surplus, [Next]_vars
  PROVE  Surplus'
<1>0. toHost \in Seq(Message) /\ RF \in Conn /\ conn \in [Conn -> Block] /\ OneReset(toHost)
  BY DEF TypeOK, Conn, Surplus
<1>1. ASSUME NEW c \in Conn, NEW n \in 1..lim.frag, NFC_SendData(c, n)
      PROVE  Surplus'
  BY <1>1, SurplusSendData
<1>2. ASSUME NEW c \in Conn, NFC_FlushData(c)
      PROVE  Surplus'
  <2>1. \A d \in Conn : conn'[d].num = conn[d].num /\ conn'[d].init = conn[d].init
    BY <1>0, <1>2 DEF NFC_FlushData, Block
  <2> QED
    BY <1>0, <1>2, <2>1, SurplusQuiet DEF NFC_FlushData, Owed
<1>3. ASSUME NEW set \in BOOLEAN, NFC_SetStaticRfCback(set)
      PROVE  Surplus'
  <2> DEFINE cb == [conn[RF] EXCEPT !.cb = set]
  <2>1. cb \in Block /\ cb.init = conn[RF].init /\ cb.num = conn[RF].num
    BY <1>0 DEF Block
  <2> HIDE DEF cb
  <2>2. DataEvent(RF, cb, nfc.reassembly, <<>>) /\ used' = used /\ toHost' = toHost
    BY <1>3 DEF NFC_SetStaticRfCback, cb
  <2>3. (\A d \in Conn : conn'[d].num = conn[d].num /\ conn'[d].init = conn[d].init)
        /\ nfc'.bump = nfc.bump
    BY <1>0, <2>1, <2>2, DataEventEffect
  <2> QED
    BY <1>0, <2>2, <2>3, SurplusQuiet DEF Owed
<1>4. ASSUME NEW set, NFC_SetReassemblyFlag(set)
      PROVE  Surplus'
  <2>1. nfc'.bump = nfc.bump
    BY <1>4 DEF NFC_SetReassemblyFlag, TypeOK, NfcState
  <2> QED
    BY <1>0, <1>4, <2>1, SurplusQuiet DEF NFC_SetReassemblyFlag, Owed
<1>5. ASSUME NEW c \in Dyn, NFC_ConnCreate(c)
      PROVE  Surplus'
  <2>1. conn' = [conn EXCEPT ![c] = [Free EXCEPT !.id = "pending", !.cb = TRUE]]
    BY <1>5 DEF NFC_ConnCreate
  <2>2. \A d \in Conn : conn'[d] = conn[d] \/ conn'[d].num = conn'[d].init
    BY <1>0, <2>1, FreeType DEF Free
  <2>3. used'.reset = used.reset
    BY <1>5 DEF NFC_ConnCreate, TypeOK, Use
  <2> QED
    BY <1>0, <1>5, <2>2, <2>3, SurplusQuiet DEF NFC_ConnCreate, Owed
<1>6. ASSUME NEW c \in Dyn, NFC_ConnClose(c)
      PROVE  Surplus'
  BY <1>0, <1>6, SurplusQuiet DEF NFC_ConnClose, Owed
<1>7. CASE NFC_Deactivate
  BY <1>0, <1>7, DeactivateEffect, SurplusQuiet DEF Owed
<1>8. CASE WaitToDeactivateTimeout
  <2>1. nfc'.bump = nfc.bump
    BY <1>8 DEF WaitToDeactivateTimeout, TypeOK, NfcState
  <2> QED
    BY <1>0, <1>8, <2>1, SurplusQuiet DEF WaitToDeactivateTimeout, Owed
<1>9. CASE Handle
  <2>1. used'.reset = used.reset
    BY <1>9, HandleResets
  <2> QED
    BY <1>9, <2>1, SurplusHandle
<1>10. CASE NfccNext /\ ~NfccReset
  <2>1. OneReset(toHost') /\ (Owed("reset")' => Owed("reset"))
    <3>1. ASSUME NEW s \in Seq(Message), NEW e \in Message, OneReset(s), e.kind # "reset"
          PROVE  /\ Append(s, e) \in Seq(Message) /\ OneReset(Append(s, e))
                 /\ Has(Append(s, e), "reset") => Has(s, "reset")
      BY <3>1, AppendSeq, OneResetAppend, HasAppend
    <3>2. CASE \E e \in Message : e.kind # "reset" /\ toHost' = Append(toHost, e)
      BY <1>0, <3>1, <3>2, OwedHas
    <3>3. CASE toHost' = Append(Append(toHost, Rsp), Ntf)
      BY <1>0, <3>1, <3>3, Messages, OwedHas
    <3> QED
      BY <1>10, <3>2, <3>3, NfccSends
  <2>2. nfc' = nfc /\ conn' = conn /\ used'.reset = used.reset
    BY <1>10, NfccLeaves
  <2> QED
    BY <2>1, <2>2, SurplusQuiet
<1>11. CASE NfccReset
  BY <1>11, SurplusReset
<1>12. CASE UNCHANGED vars
  BY <1>0, <1>12, SurplusQuiet DEF vars, Owed
<1> QED
  BY <1>1, <1>2, <1>3, <1>4, <1>5, <1>6, <1>7, <1>8, <1>9, <1>10, <1>11, <1>12
     DEF Next, ApiNext

\* At the start nothing is queued, held or on its way.
LEMMA InitLedger ==
  ASSUME Init
  PROVE  IInvCredits
<1>1. TypeOK
  BY InitType
<1>2. /\ toHost = <<>> /\ toNfcc = <<>> /\ nfc.st = "IDLE" /\ DOMAIN toHost = {}
      /\ DOMAIN toNfcc = {} /\ nfcc.mode # "active" /\ ~nfc.bump /\ used.reset = 0
  BY DEF Init
<1>3. \A c \in Conn : /\ conn[c].init = 0 /\ conn[c].num = 0 /\ nfcc.held[c] = 0
                      /\ conn[c].id = IF c = RF THEN "open" ELSE "illegal"
  BY DEF Init, Free
<1>4. RF \in Conn /\ Dyn \subseteq Conn /\ RF \notin Dyn
  BY ConnAssumption DEF Conn
<1>5. Handshake
  BY <1>2, <1>3, <1>4 DEF Handshake, Single, For
<1>6. LinkOrder
  BY <1>2 DEF LinkOrder, Ordered, Owed
<1>7. \A c : CreditsDue(c) = 0
  BY <1>1, <1>2, DueNone DEF For
<1>8. \A c \in Conn : Account(c)
  <2>1. \A c \in Conn : LateOn(c) \in Nat
    BY <1>1 DEF LateOn, TypeOK, Use
  <2>3. \A c \in Conn : 0 + 0 + 0 \in 0..(0 + LateOn(c))
    BY <2>1
  <2>2. \A c \in Conn : Balance(c) /\ ~Created(c)
    BY <1>2, <1>3, <1>7, <2>3 DEF Balance, Created
  <2> QED
    BY <1>3, <2>2, CreditAssumption DEF Account
<1>9. Ledger
  BY <1>2, <1>3, <1>4, <1>8, CreditAssumption DEF Ledger, NoCreditsBehind, Owed
<1>10. Calm
  BY <1>2 DEF Calm, Owed
<1>11. Surplus
  <2>1. Pending = 0
    BY <1>10 DEF Pending, Calm
  <2> QED
    BY <1>2, <1>3, <2>1 DEF Surplus, OneReset
<1> QED
  BY <1>1, <1>5, <1>6, <1>9, <1>10, <1>11 DEF IInvCredits

\* The invariant of CreditLedger is inductive.
LEMMA CreditsStep ==
  ASSUME IInvCredits, [Next]_vars
  PROVE  IInvCredits'
<1>1. TypeOK /\ TypeOK'
  BY StepType DEF IInvCredits
<1>2. Surplus'
  BY <1>1, SurplusStep DEF IInvCredits
<1>3. used'.reset = 0 => used.reset = 0
  BY <1>1, ResetsGrow
<1>4. ASSUME used'.reset = 0
      PROVE  Calm' /\ Handshake' /\ LinkOrder' /\ Ledger'
  <2>1. TypeOK /\ Calm /\ Handshake /\ LinkOrder /\ Ledger
    BY <1>3, <1>4 DEF IInvCredits
  <2> QED
    BY <1>4, <2>1, CalmStep, HandshakeStep, LinkOrderStep, LedgerStep
<1> QED
  BY <1>1, <1>2, <1>4 DEF IInvCredits

\* CreditLedger holds of every behaviour, however many connections, credits, packets,
\* activations, late credits and resets there are.
THEOREM CreditsKept == Spec => []CreditLedger
<1>1. Init => IInvCredits
  BY InitLedger
<1>2. IInvCredits /\ [Next]_vars => IInvCredits'
  BY CreditsStep
<1>3. IInvCredits => CreditLedger
  <2> SUFFICES ASSUME IInvCredits, NEW c \in Conn, conn[c].id = "open", conn[c].init # NoFC,
                      c = RF => ~Owed("activated")
               PROVE  /\ conn[c].num <= conn[c].init + used.reset
                      /\ used.reset = 0 =>
                           conn[c].num + nfcc.held[c] + CreditsDue(c)
                             \in conn[c].init..(conn[c].init + LateOn(c))
    BY DEF CreditLedger
  <2>1. /\ conn[c].num \in Nat /\ conn[c].init \in Nat /\ used.reset \in Nat
        /\ Pending \in Nat
    BY DEF IInvCredits, TypeOK, Block, Use, Pending
  <2>2. conn[c].num <= conn[c].init + used.reset
    BY <2>1 DEF IInvCredits, Surplus
  <2>3. used.reset = 0 => Balance(c)
    BY DEF IInvCredits, Ledger, Account
  <2> QED
    BY <2>2, <2>3 DEF Balance
<1> QED
  BY <1>1, <1>2, <1>3, PTL DEF Spec
-------------------------------------------------------------------------------
(* The deactivation of an NFC-DEP link.                                      *)

Deactivated ==
  /\ nfc.st \in {"OPEN", "CLOSING"} /\ conn[RF].dep
  /\ Len(toNfcc') > Len(toNfcc) /\ Last(toNfcc').kind = "deactivate"

\* By its wait, or with the host's credits back.
Waited ==
  Deactivated =>
    \/ nfc.timer /\ nfcc.held = nfcc.held' /\ toHost = toHost'
    \/ /\ conn'[RF].num = conn'[RF].init
       /\ nfcc' = nfcc /\ nfc'.st # "IDLE" /\ used'.reset = used.reset

\* So that the NFCC has none.
WaitedForAll ==
  (/\ nfc.st \in {"OPEN", "CLOSING"} /\ conn[RF].dep
   /\ Len(toNfcc') > Len(toNfcc) /\ Last(toNfcc').kind = "deactivate")
  => \/ nfc.timer /\ nfcc.held = nfcc.held' /\ toHost = toHost'
     \/ /\ conn'[RF].num = conn'[RF].init
        /\ (used'.late = 0 /\ used.reset = 0) => nfcc.held[RF] = 0

\* The command that is appended is the last one.
LEMMA LastOfAppend ==
  ASSUME NEW S, NEW s \in Seq(S), NEW e \in S
  PROVE  Last(Append(s, e)) = e
<1>1. /\ Append(s, e) \in Seq(S) /\ Append(s, e) # <<>>
      /\ Len(Append(s, e)) = Len(s) + 1 /\ Append(s, e)[Len(s) + 1] = e
  BY AppendSeq
<1> QED
  BY <1>1, LastFront

\* Each step that sends a deactivation command has waited, or has nothing to wait for.
LEMMA WaitedStep ==
  ASSUME TypeOK, Next
  PROVE  Waited
<1>0. /\ toNfcc \in Seq(Cmd) /\ Len(toNfcc) \in Nat /\ RF \in Conn
      /\ Dyn \subseteq Conn
  BY DEF TypeOK, Conn
<1>1. ASSUME toNfcc' = toNfcc
      PROVE  Waited
  BY <1>0, <1>1 DEF Waited, Deactivated
<1>2. ASSUME NEW c \in Conn, NEW k \in {"create", "close"},
             toNfcc' = Append(toNfcc, Command(k, c))
      PROVE  Waited
  <2>1. Command(k, c) \in Cmd /\ Command(k, c).kind = k
    BY CommandType DEF Command
  <2>2. Last(toNfcc') = Command(k, c)
    BY <1>0, <1>2, <2>1, LastOfAppend
  <2> QED
    BY <2>1, <2>2 DEF Waited, Deactivated
<1>3. CASE ApiNext
  <2>1. ASSUME NEW c \in Conn, NEW n \in 1..lim.frag, NFC_SendData(c, n)
        PROVE  Waited
    BY <1>1, <2>1 DEF NFC_SendData
  <2>2. ASSUME NEW c \in Conn, NFC_FlushData(c)
        PROVE  Waited
    BY <1>1, <2>2 DEF NFC_FlushData
  <2>3. ASSUME NEW set, NFC_SetStaticRfCback(set) \/ NFC_SetReassemblyFlag(set)
        PROVE  Waited
    BY <1>1, <2>3 DEF NFC_SetStaticRfCback, NFC_SetReassemblyFlag
  <2>4. ASSUME NEW c \in Dyn, NFC_ConnCreate(c) \/ NFC_ConnClose(c)
        PROVE  Waited
    BY <1>0, <1>2, <2>4 DEF NFC_ConnCreate, NFC_ConnClose
  <2>5. CASE NFC_Deactivate
    <3>1. /\ nfc.st \in {"IDLE", "OPEN"} /\ conn' = conn /\ nfcc' = nfcc
          /\ toNfcc' = toNfcc \/ ~(/\ nfc.st = "OPEN" /\ conn[RF].dep
                                  /\ conn[RF].init # conn[RF].num)
      BY <2>5 DEF NFC_Deactivate
    <3>2. nfc.st = "OPEN" => nfc'.st = "CLOSING"
      BY <2>5, DeactivateEffect
    <3>3. used'.reset = used.reset
      BY <2>5, DeactivateEffect
    <3>4. CASE toNfcc' = toNfcc
      BY <1>1, <3>4
    <3> QED
      BY <3>1, <3>2, <3>3, <3>4 DEF Waited, Deactivated
  <2> QED
    BY <1>3, <2>1, <2>2, <2>3, <2>4, <2>5 DEF ApiNext
<1>4. CASE Handle
  <2>1. PICK m \in Message : m = Head(toHost)
    BY <1>4, TailSeq DEF Handle, TypeOK
  <2>2. m.c \in Conn
    BY <2>1 DEF Message
  <2>3. \/ ProcDeactivate(m) \/ ProcActivate(m) \/ ProcCredits(m) \/ ProcData(m)
        \/ ProcConnCreateRsp(m) \/ ReportConnCloseEvt(m) \/ ProcReset(m)
    BY <1>4, <2>1 DEF Handle
  <2>4. CASE ProcCredits(m)
    <3>1. CASE toNfcc' = toNfcc
      BY <1>1, <3>1
    <3>2. CASE /\ m.c = RF /\ conn' = [conn EXCEPT ![m.c] = Credited(m)] /\ nfcc' = nfcc
               /\ AllCreditsBack(Credited(m))
               /\ nfc' = [NfcRecounted EXCEPT !.deactivating = FALSE, !.timer = FALSE,
                                              !.reassembly = TRUE]
      <4>1. conn'[RF] = Credited(m)
        BY <1>0, <3>2 DEF TypeOK
      <4>2. nfc'.st = "CLOSING"
        BY <3>2, NfcRecountedType DEF AllCreditsBack, TypeOK, NfcState
      <4>3. used'.reset = used.reset
        BY <1>4, HandleResets
      <4>4. conn'[RF].num = conn'[RF].init
        BY <3>2, <4>1 DEF AllCreditsBack
      <4> QED
        BY <3>2, <4>2, <4>3, <4>4 DEF Waited
    <3> QED
      BY <2>4, <3>1, <3>2, ProcCreditsCases
  <2>5. CASE ProcData(m)
    BY <1>1, <2>5, ProcDataCases
  <2>6. CASE ProcDeactivate(m) \/ ProcActivate(m) \/ ProcConnCreateRsp(m)
             \/ ReportConnCloseEvt(m) \/ ProcReset(m)
    BY <1>1, <2>6 DEF ProcDeactivate, ProcActivate, ProcConnCreateRsp, ReportConnCloseEvt,
       ProcReset
  <2> QED
    BY <2>3, <2>4, <2>5, <2>6
<1>5. CASE WaitToDeactivateTimeout
  BY <1>5 DEF WaitToDeactivateTimeout, Waited, Deactivated
<1>6. CASE NfccNext
  <2>1. CASE toNfcc' = toNfcc
    BY <1>1, <2>1
  <2>2. CASE Answer
    <3>1. toNfcc # <<>> /\ toNfcc' = Tail(toNfcc)
      BY <2>2, AnswerCases DEF TypeOK
    <3>2. Len(toNfcc') = Len(toNfcc) - 1
      BY <1>0, <3>1, TailSeq
    <3> QED
      BY <1>0, <3>2 DEF Waited, Deactivated
  <2>3. /\ \A c \in Conn : ReturnCredit(c) => toNfcc' = toNfcc
        /\ \A c \in Conn, more \in BOOLEAN : SendToHost(c, more) => toNfcc' = toNfcc
        /\ \A dep \in BOOLEAN : Activate(dep) => toNfcc' = toNfcc
    BY Zenon DEF ReturnCredit, SendToHost, Activate
  <2>4. ReturnLate \/ LinkLost \/ NfccReset => toNfcc' = toNfcc
    BY DEF ReturnLate, LinkLost, NfccReset
  <2> QED
    BY <1>6, <2>1, <2>2, <2>3, <2>4 DEF NfccNext
<1> QED
  BY <1>3, <1>4, <1>5, <1>6 DEF Next

\* The ledger then leaves none to the NFCC.
LEMMA WaitedLedger ==
  ASSUME IInvCredits', Waited
  PROVE  WaitedForAll
<1> SUFFICES ASSUME conn'[RF].num = conn'[RF].init, nfcc' = nfcc, nfc'.st # "IDLE",
                    used'.reset = used.reset, used'.late = 0, used.reset = 0
             PROVE  nfcc.held[RF] = 0
  BY DEF Waited, WaitedForAll, Deactivated
<1>1. RF \in Conn
  BY DEF Conn
<1>2. TypeOK' /\ LinkOrder' /\ Ledger'
  BY DEF IInvCredits
<1>3. /\ conn'[RF].id = "open" /\ conn'[RF].init # NoFC /\ Account(RF)'
      /\ ~Owed("activated")'
  BY <1>1, <1>2 DEF Ledger, LinkOrder
<1>4. Balance(RF)'
  BY <1>3 DEF Account
<1>5. /\ conn'[RF].num \in Nat /\ nfcc'.held[RF] \in Nat /\ conn'[RF].init \in Nat
  BY <1>1, <1>2 DEF TypeOK, Block, NfccState
<1>6. CreditsDue(RF)' \in Nat
  <2>1. toHost' \in Seq(Message) /\ 0 \in Nat
    BY <1>2 DEF TypeOK
  <2>2. CreditsDue(RF)' = Count(toHost', "credits", RF, 0)
    BY <1>2, DueCountNext
  <2> QED
    BY <2>1, <2>2, CountFinite
<1>7. conn'[RF].num + nfcc'.held[RF] + CreditsDue(RF)' \in conn'[RF].init..conn'[RF].init
  <2>1. LateOn(RF)' = 0 /\ conn'[RF].init + 0 = conn'[RF].init
    BY <1>5 DEF LateOn
  <2> QED
    BY <1>4, <2>1 DEF Balance
<1> QED
  BY <1>5, <1>6, <1>7

\* DeactivateWaits holds of every behaviour: NFC_Deactivate sends the command of an open
\* NFC-DEP link at once only when no packet is out, and the two steps that end the wait
\* are the timer and the credit that completes them.
THEOREM DeactivationWaits == Spec => DeactivateWaits
<1>1. IInvCredits /\ IInvCredits' /\ [Next]_vars => [WaitedForAll]_vars
  <2> SUFFICES ASSUME IInvCredits, IInvCredits', Next
               PROVE  WaitedForAll
    OBVIOUS
  <2> QED
    BY WaitedStep, WaitedLedger DEF IInvCredits
<1>2. Init => IInvCredits
  BY InitLedger
<1>3. IInvCredits /\ [Next]_vars => IInvCredits'
  BY CreditsStep
<1>4. Spec => [][WaitedForAll]_vars
  BY <1>1, <1>2, <1>3, PTL DEF Spec
<1> QED
  BY <1>4, PTL DEF DeactivateWaits, WaitedForAll
-------------------------------------------------------------------------------
(* Whole packets.                                                            *)

\* A queue cut anywhere: what goes out is whole and in order, what stays is tidy, and the
\* packet that is cut goes on at the head of what stays.
LEMMA CutQueue ==
  ASSUME NEW tx \in Seq(Frag), Tidy(tx), NEW k \in 0..Len(tx), NEW part \in Nat
  PROVE  LET out == SubSeq(tx, 1, k)
             rest == SubSeq(tx, k + 1, Len(tx))
         IN  /\ Tidy(rest)
             /\ (part # 0 => tx # <<>> /\ tx[1].pkt = part)
                  => /\ ~Torn(part, out)
                     /\ PartAfter(part, out) # 0
                          => rest # <<>> /\ rest[1].pkt = PartAfter(part, out)
<1> DEFINE out == SubSeq(tx, 1, k)
           rest == SubSeq(tx, k + 1, Len(tx))
<1>1. /\ Len(tx) \in Nat /\ k \in Nat /\ k <= Len(tx)
      /\ \A i \in 1..Len(tx) : tx[i] \in Frag
  OBVIOUS
<1>2. /\ out \in Seq(Frag) /\ Len(out) = k /\ \A i \in 1..k : out[i] = tx[i]
  <2>1. 1 \in 1..(Len(tx) + 1) /\ k \in (1 - 1)..Len(tx) /\ k - 1 + 1 = k
    BY <1>1
  <2>2. /\ out \in Seq(Frag) /\ Len(out) = k - 1 + 1
        /\ \A i \in 1..(k - 1 + 1) : out[i] = tx[1 + i - 1]
    BY <2>1, SubSeqSeq
  <2> QED
    BY <1>1, <2>1, <2>2
<1>3. /\ rest \in Seq(Frag) /\ Len(rest) = Len(tx) - k
      /\ \A i \in 1..(Len(tx) - k) : rest[i] = tx[k + i]
  <2>1. k + 1 \in 1..(Len(tx) + 1) /\ Len(tx) \in ((k + 1) - 1)..Len(tx)
    BY <1>1
  <2>2. /\ rest \in Seq(Frag) /\ Len(rest) = Len(tx) - (k + 1) + 1
        /\ \A i \in 1..(Len(tx) - (k + 1) + 1) : rest[i] = tx[k + 1 + i - 1]
    BY <2>1, SubSeqSeq
  <2> QED
    BY <1>1, <2>2
<1> HIDE DEF out, rest
<1>4. Tidy(rest)
  <2>1. \A i \in 1..(Len(rest) - 1) :
          /\ k + i \in 1..(Len(tx) - 1) /\ rest[i] = tx[k + i] /\ rest[i + 1] = tx[k + i + 1]
    BY <1>1, <1>3
  <2>2. rest # <<>> => Len(rest) \in 1..(Len(tx) - k) /\ rest[Len(rest)] = tx[Len(tx)]
                       /\ tx # <<>>
    BY <1>1, <1>3
  <2> QED
    BY <2>1, <2>2 DEF Tidy
<1>5. ASSUME part # 0 => tx # <<>> /\ tx[1].pkt = part
      PROVE  ~Torn(part, out)
  <2>1. out # <<>> => out[1] = tx[1]
    BY <1>1, <1>2
  <2>2. \A i \in 1..(Len(out) - 1) :
          i \in 1..(Len(tx) - 1) /\ out[i] = tx[i] /\ out[i + 1] = tx[i + 1]
    BY <1>1, <1>2
  <2> QED
    BY <1>5, <2>1, <2>2 DEF Torn, Tidy
<1>6. ASSUME part # 0 => tx # <<>> /\ tx[1].pkt = part, PartAfter(part, out) # 0
      PROVE  rest # <<>> /\ rest[1].pkt = PartAfter(part, out)
  <2>1. CASE out = <<>>
    <3>1. k = 0 /\ PartAfter(part, out) = part
      BY <1>2, <2>1 DEF PartAfter
    <3> QED
      BY <1>1, <1>3, <1>6, <3>1
  <2>2. CASE out # <<>>
    <3>0. Last(out) = out[Len(out)] /\ Len(out) \in Nat \ {0}
      BY <1>2, <2>2, LastFront
    <3>1. Last(out) = out[k] /\ k \in 1..Len(tx) /\ k \in 1..k
      BY <1>1, <1>2, <3>0
    <3>2. PartAfter(part, out) = IF tx[k].last THEN 0 ELSE tx[k].pkt
      BY <1>2, <2>2, <3>1 DEF PartAfter
    <3>3. ~tx[k].last
      BY <1>6, <3>2
    <3>4. k # Len(tx)
      BY <3>1, <3>3 DEF Tidy
    <3>5. k \in 1..(Len(tx) - 1)
      BY <1>1, <3>1, <3>4
    <3>6. tx[k + 1].pkt = tx[k].pkt
      BY <3>3, <3>5 DEF Tidy
    <3>7. rest # <<>> /\ rest[1] = tx[k + 1]
      BY <1>1, <1>3, <3>5
    <3> QED
      BY <3>2, <3>3, <3>6, <3>7
  <2> QED
    BY <2>1, <2>2
<1> QED
  BY <1>4, <1>5, <1>6 DEF out, rest

\* A packet put behind a tidy queue.
LEMMA QueuePacket ==
  ASSUME NEW tx \in Seq(Frag), Tidy(tx), NEW p \in Nat \ {0}, NEW n \in Nat \ {0}
  PROVE  /\ Tidy(tx \o Cut(p, n))
         /\ tx # <<>> => (tx \o Cut(p, n))[1] = tx[1]
         /\ tx \o Cut(p, n) # <<>> /\ tx \o Cut(p, n) \in Seq(Frag)
<1> DEFINE t == Cut(p, n)
           s == tx \o t
<1>1. /\ t \in Seq(Frag) /\ Len(t) = n /\ \A i \in 1..n : t[i].pkt = p /\ (t[i].last <=> i = n)
  BY CutType DEF Cut
<1> HIDE DEF t
<1>2. /\ s \in Seq(Frag) /\ Len(s) = Len(tx) + n /\ Len(tx) \in Nat
      /\ \A i \in 1..Len(tx) : s[i] = tx[i]
      /\ \A i \in (Len(tx) + 1)..(Len(tx) + n) : s[i] = t[i - Len(tx)]
  BY <1>1
<1> HIDE DEF s
<1>3. ASSUME NEW i \in 1..(Len(s) - 1), ~s[i].last
      PROVE  s[i + 1].pkt = s[i].pkt
  <2>1. CASE i < Len(tx)
    BY <1>2, <1>3, <2>1 DEF Tidy
  <2>2. CASE i = Len(tx)
    <3>1. s[i] = tx[Len(tx)] /\ tx # <<>>
      BY <1>2, <2>2
    <3> QED
      BY <1>3, <3>1 DEF Tidy
  <2>3. CASE i > Len(tx)
    <3>1. /\ i - Len(tx) \in 1..n /\ (i + 1) - Len(tx) \in 1..n
          /\ s[i] = t[i - Len(tx)] /\ s[i + 1] = t[(i + 1) - Len(tx)]
      BY <1>2, <2>3
    <3> QED
      BY <1>1, <3>1
  <2> QED
    BY <1>2, <2>1, <2>2, <2>3
<1>4. s[Len(s)].last
  <2>1. s[Len(s)] = t[n] /\ n \in 1..n
    BY <1>2
  <2> QED
    BY <1>1, <2>1
<1>5. s # <<>>
  BY <1>2
<1>6. tx # <<>> => s[1] = tx[1]
  BY <1>2
<1> QED
  BY <1>2, <1>3, <1>4, <1>5, <1>6 DEF Tidy, s, t

\* What a step leaves alone stays whole.
LEMMA OutgoingSame ==
  ASSUME NEW d \in Conn, Outgoing(d), conn'[d].tx = conn[d].tx,
         seen'.part[d] = seen.part[d], d \in seen.flushed => d \in seen'.flushed,
         Live(d)' <=> Live(d), Created(d)' => Created(d)
  PROVE  Outgoing(d)'
  BY DEF Outgoing

\* nfc_ncif_send_data on a live connection keeps the packets whole.
LEMMA WholeTransmit ==
  ASSUME TypeOK, Calm, Handshake, LinkOrder, Whole, NEW c \in Conn, NEW cb \in Block,
         NEW k \in SendCounts(cb), Transmit(c, cb, k), Live(c), c = RF => nfc.st = "OPEN",
         nfc'.st = nfc.st, cb.id = conn[c].id, Tidy(cb.tx),
         conn[c].tx # <<>> => cb.tx # <<>> /\ cb.tx[1] = conn[c].tx[1],
         \A d \in Conn : Created(d)' => Created(d),
         Owed("activated")' => Owed("activated")
  PROVE  Whole'
<1> DEFINE out == SubSeq(cb.tx, 1, k)
           rest == SubSeq(cb.tx, k + 1, Len(cb.tx))
           part == seen.part[c]
           after == PartAfter(seen.part[c], out)
<1>1. k \in 0..Len(cb.tx) /\ cb.tx \in Seq(Frag) /\ part \in Nat
  BY SendCountsRange DEF Block, TypeOK, History
<1>2. /\ \A d \in Conn \ {c} : conn'[d] = conn[d] /\ seen'.part[d] = seen.part[d]
      /\ conn'[c].id = cb.id /\ conn'[c].tx = rest /\ seen'.part[c] = after
      /\ seen'.torn = (seen.torn \/ (c \notin seen.flushed /\ Torn(part, out)))
      /\ seen'.flushed = seen.flushed
  BY TransmitEffect
<1>3. /\ Tidy(rest)
      /\ (part # 0 => cb.tx # <<>> /\ cb.tx[1].pkt = part)
           => /\ ~Torn(part, out)
              /\ after # 0 => rest # <<>> /\ rest[1].pkt = after
  BY <1>1, CutQueue
<1> HIDE DEF out, rest, part, after
<1>4. c \notin seen.flushed => (part # 0 => cb.tx # <<>> /\ cb.tx[1].pkt = part)
  BY DEF Whole, Outgoing, part
<1>5. ~seen'.torn
  BY <1>2, <1>3, <1>4 DEF Whole
<1>6. \A d \in Conn : Live(d)' <=> Live(d)
  BY <1>2 DEF Live
<1>7. \A d \in Conn \ {c} : Outgoing(d)'
  BY <1>2, <1>6, OutgoingSame DEF Whole
<1>8. Outgoing(c)'
  <2>1. ~Created(c)
    BY OpenNotCreated DEF Live
  <2> QED
    BY <1>2, <1>3, <1>4, <1>6, <2>1 DEF Outgoing
<1>9. RF \in Conn /\ (c = RF => ~Owed("activated"))
  BY DEF Conn, LinkOrder
<1>10. Owed("activated")' => seen'.part[RF] = 0
  BY <1>2, <1>9 DEF Whole
<1> QED
  BY <1>5, <1>7, <1>8, <1>10 DEF Whole

\* A step that sends nothing keeps the packets whole.
LEMMA WholeQuiet ==
  ASSUME Whole, seen'.torn = seen.torn, seen'.part = seen.part, seen'.flushed = seen.flushed,
         \A d \in Conn : /\ conn'[d].tx = conn[d].tx
                         /\ Live(d)' <=> Live(d)
                         /\ Created(d)' => Created(d),
         Owed("activated")' => Owed("activated")
  PROVE  Whole'
  BY OutgoingSame DEF Whole

\* NFC_SendData puts a packet behind the others and sends from the front.
LEMMA WholeSendData ==
  ASSUME TypeOK, Calm, Handshake, LinkOrder, Whole, NEW c \in Conn,
         NEW n \in 1..lim.frag, NFC_SendData(c, n)
  PROVE  Whole'
<1> DEFINE cb == Queued(c, n)
           p == used.pkt + 1
<1>1. /\ conn[c].id = "open" /\ (c = RF => nfc.st = "OPEN") /\ toHost' = toHost /\ nfc' = nfc
      /\ cb \in Block /\ cb.id = conn[c].id /\ cb.tx = conn[c].tx \o Cut(p, n)
      /\ \E k \in SendCounts(cb) : Transmit(c, cb, k)
  BY SendDataEffect, CalmBlocks DEF Owed
<1>2. p \in Nat \ {0} /\ n \in Nat \ {0} /\ conn[c].tx \in Seq(Frag)
  <2>1. used.pkt \in Nat /\ lim.frag \in Nat /\ conn[c] \in Block
    BY BoundAssumption DEF TypeOK, lim, Use
  <2> QED
    BY <2>1 DEF Block
<1>3. Tidy(conn[c].tx)
  BY DEF Whole, Outgoing
<1> HIDE DEF cb, p
<1>4. Tidy(cb.tx) /\ (conn[c].tx # <<>> => cb.tx # <<>> /\ cb.tx[1] = conn[c].tx[1])
  BY <1>1, <1>2, <1>3, QueuePacket
<1>5. PICK k \in SendCounts(cb) : Transmit(c, cb, k)
  BY <1>1
<1>6. Live(c)
  BY <1>1 DEF Live
<1>7. /\ \A d \in Conn : Created(d)' => Created(d)
      /\ Owed("activated")' => Owed("activated")
  BY <1>1 DEF Created, Owed
<1> QED
  BY <1>1, <1>4, <1>5, <1>6, <1>7, WholeTransmit

\* The calls keep the packets whole.
LEMMA WholeApi ==
  ASSUME TypeOK, Calm, Handshake, LinkOrder, Whole, ApiNext
  PROVE  Whole'
<1>0. conn \in [Conn -> Block] /\ RF \in Conn /\ Dyn \subseteq Conn /\ RF \notin Dyn
  BY ConnAssumption DEF TypeOK, Conn
<1>1. /\ toHost' = toHost
      /\ \A d : (Created(d)' <=> Created(d))
      /\ Owed("activated")' <=> Owed("activated")
  BY QuietEffect DEF Created, Owed
<1>2. ASSUME NEW c \in Conn, NEW n \in 1..lim.frag, NFC_SendData(c, n)
      PROVE  Whole'
  BY <1>2, WholeSendData
<1>3. ASSUME NEW c \in Conn, NFC_FlushData(c)
      PROVE  Whole'
  <2>1. /\ \A d \in Conn \ {c} : conn'[d] = conn[d]
        /\ conn'[c].tx = <<>> /\ conn'[c].id = conn[c].id /\ nfc' = nfc
    BY <1>0, <1>3 DEF NFC_FlushData, Block
  <2>2. /\ seen'.flushed = seen.flushed \cup {c} /\ seen'.part = seen.part
        /\ seen'.torn = seen.torn
    BY <1>3 DEF NFC_FlushData, TypeOK, History
  <2>3. \A d \in Conn \ {c} : Outgoing(d)'
    BY <1>1, <2>1, <2>2, OutgoingSame DEF Whole, Live
  <2>4. Outgoing(c)'
    BY <1>1, <2>1, <2>2 DEF Whole, Outgoing, Tidy
  <2> QED
    BY <1>1, <2>2, <2>3, <2>4 DEF Whole
<1>4. ASSUME NEW set \in BOOLEAN, NFC_SetStaticRfCback(set)
      PROVE  Whole'
  <2> DEFINE cb == [conn[RF] EXCEPT !.cb = set]
  <2>1. cb \in Block /\ cb.id = conn[RF].id /\ cb.tx = conn[RF].tx
    BY <1>0 DEF Block
  <2> HIDE DEF cb
  <2>2. DataEvent(RF, cb, nfc.reassembly, <<>>)
    BY <1>4 DEF NFC_SetStaticRfCback, cb
  <2>3. /\ \A d \in Conn : conn'[d].id = conn[d].id /\ conn'[d].tx = conn[d].tx
        /\ nfc'.st = nfc.st /\ seen'.part = seen.part /\ seen'.torn = seen.torn
        /\ seen'.flushed = seen.flushed
    BY <1>0, <2>1, <2>2, DataEventEffect
  <2> QED
    BY <1>1, <2>3, WholeQuiet DEF Live
<1>5. ASSUME NEW set, NFC_SetReassemblyFlag(set)
      PROVE  Whole'
  <2>1. nfc'.st = nfc.st /\ conn' = conn /\ seen' = seen
    BY <1>5 DEF NFC_SetReassemblyFlag, TypeOK, NfcState
  <2> QED
    BY <1>1, <2>1, WholeQuiet DEF Live
<1>6. ASSUME NEW c \in Dyn, NFC_ConnCreate(c)
      PROVE  Whole'
  <2> DEFINE cb == [Free EXCEPT !.id = "pending", !.cb = TRUE]
  <2>1. cb.id = "pending" /\ cb.tx = <<>>
    BY DEF Free
  <2>2. conn' = [conn EXCEPT ![c] = cb] /\ seen' = seen /\ nfc' = nfc
    BY <1>6 DEF NFC_ConnCreate
  <2>3. conn[c].id = "illegal"
    BY <1>6 DEF NFC_ConnCreate
  <2> HIDE DEF cb
  <2>4. conn'[c] = cb /\ \A d \in Conn \ {c} : conn'[d] = conn[d]
    BY <1>0, <2>2
  <2>5. \A d \in Conn \ {c} : Outgoing(d)'
    BY <1>1, <2>2, <2>4, OutgoingSame DEF Whole, Live
  <2>6. Outgoing(c)'
    BY <1>0, <1>1, <2>1, <2>2, <2>4 DEF Whole, Outgoing, Live, Tidy
  <2> QED
    BY <1>1, <2>2, <2>5, <2>6 DEF Whole
<1>7. ASSUME NEW c \in Dyn, NFC_ConnClose(c)
      PROVE  Whole'
  <2>1. nfc' = nfc /\ conn' = conn /\ seen' = seen
    BY <1>7 DEF NFC_ConnClose
  <2> QED
    BY <1>1, <2>1, WholeQuiet DEF Live
<1>8. ASSUME NFC_Deactivate
      PROVE  Whole'
  <2>1. /\ nfc'.st = IF nfc.st = "OPEN" THEN "CLOSING" ELSE nfc.st
        /\ conn' = conn /\ seen' = seen
    BY <1>8, DeactivateEffect
  <2> QED
    BY <1>1, <2>1, WholeQuiet DEF Live
<1> QED
  BY <1>2, <1>3, <1>4, <1>5, <1>6, <1>7, <1>8 DEF ApiNext

\* So does NFC_TASK, whatever message it takes.
LEMMA WholeHandle ==
  ASSUME TypeOK, Calm, TypeOK', Handshake, LinkOrder, Whole, Handle
  PROVE  Whole'
<1>0. conn \in [Conn -> Block] /\ RF \in Conn /\ Dyn \subseteq Conn /\ RF \notin Dyn
      /\ toHost \in Seq(Message)
  BY ConnAssumption DEF TypeOK, Conn
<1>1. PICK m \in Message : /\ m = Head(toHost) /\ m = toHost[1] /\ toHost # <<>>
                           /\ toHost' = Tail(toHost)
  BY HandleEffect
<1>2. /\ \A d \in Conn : Created(d)' => Created(d)
      /\ Owed("activated") <=> m.kind = "activated" \/ Owed("activated")'
      /\ m.c \in Conn /\ MessageOK(m)
      /\ m.kind = "activated" => ~Owed("activated")'
  <2>1. \A d \in Conn : Created(d)' => Created(d)
    BY <1>1, CreatedTail
  <2>2. Owed("activated") <=> m.kind = "activated" \/ Owed("activated")'
    BY <1>0, <1>1, HasTail, OwedHas
  <2>3. MessageOK(m)
    BY <1>0, <1>1, TailSeq DEF Handshake
  <2>4. m.kind = "activated" => ~Owed("activated")'
    BY <1>0, <1>1, OrderedTail, OwedHas DEF LinkOrder
  <2> QED
    BY <2>1, <2>2, <2>3, <2>4 DEF Message
<1>3. \/ ProcDeactivate(m) \/ ProcActivate(m) \/ ProcCredits(m) \/ ProcData(m)
      \/ ProcConnCreateRsp(m) \/ ReportConnCloseEvt(m)
  BY <1>1, CalmHandle
<1>4. CASE ProcDeactivate(m)
  <2>1. /\ \A d \in Conn \ {RF} : conn'[d] = conn[d]
        /\ conn'[RF].tx = <<>> /\ conn'[RF].id = conn[RF].id
    BY <1>0, <1>4 DEF ProcDeactivate, Block
  <2>2. nfc'.st = "IDLE" /\ seen' = seen
    BY <1>4 DEF ProcDeactivate, TypeOK, NfcState
  <2>3. \A d \in Conn \ {RF} : Outgoing(d)'
    BY <1>2, <2>1, <2>2, OutgoingSame DEF Whole, Live
  <2>4. Outgoing(RF)'
    BY <1>0, <1>2, <2>1, <2>2 DEF Whole, Outgoing, Tidy, Live
  <2> QED
    BY <1>2, <2>2, <2>3, <2>4 DEF Whole
<1>5. CASE ProcActivate(m)
  <2> DEFINE f == m.flag
             n == m.n
  <2>1. /\ conn' = [conn EXCEPT ![RF] = [conn[RF] EXCEPT !.num = n, !.init = n, !.dep = f]]
        /\ seen' = seen /\ m.kind = "activated"
    BY <1>5 DEF ProcActivate
  <2> HIDE DEF f, n
  <2>2. /\ \A d \in Conn \ {RF} : conn'[d] = conn[d]
        /\ conn'[RF].tx = conn[RF].tx /\ conn'[RF].id = conn[RF].id
    BY <1>0, <2>1 DEF Block
  <2>3. nfc'.st = "OPEN"
    BY <1>5 DEF ProcActivate, TypeOK, NfcState
  <2>4. seen.part[RF] = 0 /\ nfc.st = "IDLE"
    BY <1>2, <2>1 DEF Whole, LinkOrder
  <2>5. \A d \in Conn \ {RF} : Outgoing(d)'
    BY <1>2, <2>1, <2>2, OutgoingSame DEF Whole, Live
  <2>6. conn[RF].tx = <<>>
    BY <1>0, <2>4 DEF Whole, Outgoing, Live
  <2>7. Outgoing(RF)'
    BY <2>1, <2>2, <2>4, <2>6 DEF Outgoing, Tidy
  <2> QED
    BY <1>2, <2>1, <2>4, <2>5, <2>7 DEF Whole
<1>6. CASE ProcCredits(m)
  <2>1. m.kind \in {"credits", "late"}
    BY <1>6, CalmCredits
  <2>2. nfc'.st = nfc.st /\ \A d \in Conn : conn'[d].id = conn[d].id
    BY <1>1, <2>1, HandleEffect
  <2>3. \A d \in Conn : Live(d)' <=> Live(d)
    BY <2>2 DEF Live
  <2>4. CASE UNCHANGED <<nfc, conn, nfcc, toNfcc, seen>>
    BY <1>2, <2>3, <2>4, WholeQuiet
  <2>5. CASE conn' = [conn EXCEPT ![m.c] = Credited(m)] /\ seen' = seen
    <3>1. \A d \in Conn : conn'[d].tx = conn[d].tx
      BY <1>0, <1>2, <2>5, CreditedBlock
    <3> QED
      BY <1>2, <2>3, <2>5, <3>1, WholeQuiet
  <2>6. CASE /\ conn[m.c].id = "open" /\ (m.c = RF => nfc.st = "OPEN")
             /\ \E k \in SendCounts(Credited(m)) : Transmit(m.c, Credited(m), k)
    <3>1. /\ Credited(m) \in Block /\ Credited(m).id = conn[m.c].id
          /\ Credited(m).tx = conn[m.c].tx
      BY CreditedBlock
    <3>2. Live(m.c)
      BY <2>6 DEF Live
    <3>3. PICK k \in SendCounts(Credited(m)) : Transmit(m.c, Credited(m), k)
      BY <2>6
    <3>4. Tidy(Credited(m).tx)
      BY <1>2, <3>1 DEF Whole, Outgoing
    <3> QED
      BY <1>2, <2>2, <2>6, <3>1, <3>2, <3>3, <3>4, WholeTransmit
  <2> QED
    BY <1>6, <2>4, <2>5, <2>6, CalmCredits
<1>7. CASE ProcData(m)
  <2>1. /\ \A d \in Conn : conn'[d].id = conn[d].id /\ conn'[d].tx = conn[d].tx
        /\ nfc'.st = nfc.st /\ seen'.part = seen.part /\ seen'.torn = seen.torn
        /\ seen'.flushed = seen.flushed
    BY <1>7, ProcDataEffect
  <2> QED
    BY <1>2, <2>1, WholeQuiet DEF Live
<1>8. ASSUME m.c # RF, nfc' = nfc, seen' = seen,
             \A d \in Conn \ {m.c} : conn'[d] = conn[d], ~Live(m.c),
             \/ conn'[m.c].tx = conn[m.c].tx /\ seen.part[m.c] = 0
             \/ conn'[m.c] = Free
      PROVE  Whole'
  <2>1. \A d \in Conn \ {m.c} : Outgoing(d)'
    BY <1>2, <1>8, OutgoingSame DEF Whole, Live
  <2>2. Outgoing(m.c) /\ conn[m.c].tx = <<>>
    BY <1>2, <1>8 DEF Whole, Outgoing
  <2>3. Outgoing(m.c)'
    BY <1>2, <1>8, <2>2, FreeType DEF Outgoing, Tidy, Live
  <2> QED
    BY <1>2, <1>8, <2>1, <2>3 DEF Whole
<1>9. CASE ProcConnCreateRsp(m)
  <2>1. m.kind = "created" /\ nfc' = nfc /\ seen' = seen /\ m.c # RF
    BY <1>0, <1>2, <1>9 DEF ProcConnCreateRsp, MessageOK
  <2>2. \A d \in Conn \ {m.c} : conn'[d] = conn[d]
    BY <1>0, <1>2, <1>9 DEF ProcConnCreateRsp
  <2>3. conn'[m.c] = IF m.flag THEN [conn[m.c] EXCEPT !.id = "open", !.num = m.n, !.init = m.n]
                     ELSE Free
    BY <1>0, <1>2, <1>9 DEF ProcConnCreateRsp
  <2>4. m.flag => conn'[m.c].tx = conn[m.c].tx
    BY <1>0, <1>2, <2>3 DEF Block
  <2>5. For(toHost, "created", m.c) /\ (m.flag => Created(m.c))
    <3>1. 1 \in DOMAIN toHost
      BY <1>0, <1>1, TailSeq
    <3> QED
      BY <1>1, <2>1, <3>1 DEF For, Created
  <2>6. conn[m.c].id = "pending"
    BY <1>2, <2>1, <2>5 DEF Handshake, MessageOK
  <2>7. m.flag => seen.part[m.c] = 0
    BY <1>2, <2>5 DEF Whole, Outgoing
  <2> QED
    BY <1>8, <2>1, <2>2, <2>3, <2>4, <2>6, <2>7 DEF Live
<1>10. CASE ReportConnCloseEvt(m)
  <2>1. m.kind = "closed" /\ nfc' = nfc /\ seen' = seen /\ m.c # RF
    BY <1>0, <1>2, <1>10 DEF ReportConnCloseEvt, MessageOK
  <2>2. (\A d \in Conn \ {m.c} : conn'[d] = conn[d]) /\ conn'[m.c] = Free
    BY <1>0, <1>2, <1>10 DEF ReportConnCloseEvt
  <2>3. \A d \in Conn \ {m.c} : Outgoing(d)'
    BY <1>2, <2>1, <2>2, OutgoingSame DEF Whole, Live
  <2>4. ~Created(m.c)'
    <3>1. For(toHost, "closed", m.c)
      <4>1. 1 \in DOMAIN toHost
        BY <1>0, <1>1, TailSeq
      <4> QED
        BY <1>1, <2>1, <4>1 DEF For
    <3>2. conn[m.c].id = "open"
      BY <1>2, <2>1, <3>1 DEF Handshake, MessageOK
    <3> QED
      BY <1>2, <3>2, OpenNotCreated
  <2>5. Outgoing(m.c)'
    BY <2>1, <2>2, <2>4, FreeType DEF Outgoing, Tidy, Live
  <2> QED
    BY <1>2, <2>1, <2>3, <2>5 DEF Whole
<1> QED
  BY <1>3, <1>4, <1>5, <1>6, <1>7, <1>9, <1>10

\* A message of the NFCC that activates and opens nothing keeps the packets whole.
LEMMA WholeNews ==
  ASSUME TypeOK, Whole, NEW e \in Message, toHost' = Append(toHost, e),
         e.kind # "activated", ~(e.kind = "created" /\ e.flag),
         conn' = conn, nfc' = nfc, seen' = seen
  PROVE  Whole'
<1>1. \A d \in Conn : Created(d)' <=> Created(d)
  BY CreatedAppend
<1>2. Owed("activated")' <=> Owed("activated")
  BY HasAppend, OwedHas DEF TypeOK
<1> QED
  BY <1>1, <1>2, WholeQuiet DEF Live

\* No part of a packet has gone out on c.
PartAnew(c) ==
  /\ \A d \in Conn \ {c} : /\ seen'.part[d] = seen.part[d]
                           /\ d \in seen.flushed => d \in seen'.flushed
  /\ seen'.part[c] = 0 /\ seen'.torn = seen.torn

\* What the answer to a created or an activated link does: the NFCC has no part of a packet.
LEMMA WholeAnew ==
  ASSUME TypeOK, Whole, NEW c \in Conn, ~Live(c), NEW e \in Message,
         toHost' = Append(toHost, e), e.c = c, e.kind \in {"created", "activated"},
         e.kind = "activated" => c = RF, e.kind = "created" => c # RF,
         conn' = conn, nfc' = nfc, PartAnew(c)
  PROVE  Whole'
<1>1. /\ \A d \in Conn \ {c} : /\ seen'.part[d] = seen.part[d]
                               /\ d \in seen.flushed => d \in seen'.flushed
      /\ seen'.part[c] = 0 /\ seen'.torn = seen.torn
  BY DEF PartAnew
<1>2. \A d \in Conn \ {c} : Created(d)' <=> Created(d)
  BY CreatedAppend
<1>3. Owed("activated")' <=> Owed("activated") \/ e.kind = "activated"
  BY HasAppend, OwedHas DEF TypeOK
<1>4. \A d \in Conn \ {c} : Outgoing(d)'
  BY <1>1, <1>2, OutgoingSame DEF Whole, Live
<1>5. Outgoing(c)'
  BY <1>1 DEF Whole, Outgoing, Live
<1>6. RF \in Conn
  BY DEF Conn
<1>7. Owed("activated")' => seen'.part[RF] = 0
  BY <1>1, <1>3, <1>6 DEF Whole
<1> QED
  BY <1>1, <1>4, <1>5, <1>7 DEF Whole

\* And so does the NFCC.
LEMMA WholeNfcc ==
  ASSUME TypeOK, Calm, TypeOK', Handshake, LinkOrder, Whole, NfccNext,
         ~NfccReset
  PROVE  Whole'
<1>0. nfcc \in NfccState /\ RF \in Conn /\ toHost \in Seq(Message) /\ toNfcc \in Seq(Cmd)
  BY DEF TypeOK, Conn
<1>1. ASSUME NEW c \in Conn, ReturnCredit(c)
      PROVE  Whole'
  <2> DEFINE e == Msg("credits", c, 1, FALSE)
  <2>1. e \in Message /\ e.kind = "credits"
    BY Messages DEF Msg
  <2>2. toHost' = Append(toHost, e) /\ conn' = conn /\ nfc' = nfc /\ seen' = seen
    BY <1>1 DEF ReturnCredit, ToHost
  <2> HIDE DEF e
  <2> QED
    BY <2>1, <2>2, WholeNews
<1>2. ASSUME NEW c \in Conn, NEW more \in BOOLEAN, SendToHost(c, more)
      PROVE  Whole'
  <2> DEFINE e == Msg("data", c, nfcc.sent[c] + 1, more)
  <2>1. nfcc.sent[c] + 1 \in Nat
    BY <1>0 DEF NfccState
  <2>2. e \in Message /\ e.kind = "data"
    BY <2>1, MsgType DEF Msg
  <2>3. toHost' = Append(toHost, e) /\ conn' = conn /\ nfc' = nfc /\ seen' = seen
    BY <1>2 DEF SendToHost, ToHost
  <2> HIDE DEF e
  <2> QED
    BY <2>2, <2>3, WholeNews
<1>3. ASSUME NEW dep \in BOOLEAN, Activate(dep)
      PROVE  Whole'
  <2> DEFINE e == Msg("activated", RF, Credits, dep)
  <2>1. e \in Message /\ e.kind = "activated" /\ e.c = RF
    BY Messages DEF Msg
  <2>2. /\ toHost' = Append(toHost, e) /\ conn' = conn /\ nfc' = nfc
        /\ seen' = [seen EXCEPT !.part[RF] = 0, !.up[RF] = 0, !.flushed = @ \ {RF}]
        /\ nfcc.mode # "active" /\ ~Owed("deactivated")
    BY <1>3 DEF Activate, ToHost
  <2>3. ~Live(RF)
    BY <2>2 DEF LinkOrder, Live
  <2> HIDE DEF e
  <2>4. PartAnew(RF)
    BY <1>0, <2>2 DEF TypeOK, History, PartAnew
  <2> QED
    BY <1>0, <2>1, <2>2, <2>3, <2>4, WholeAnew
<1>4. ASSUME LinkLost
      PROVE  Whole'
  <2>1. toHost' = Append(toHost, Ntf) /\ conn' = conn /\ nfc' = nfc /\ seen' = seen
    BY <1>4 DEF LinkLost, ToHost, Ntf
  <2> QED
    BY <2>1, Messages, WholeNews
<1>5. ASSUME Answer
      PROVE  Whole'
  <2>1. PICK m \in Cmd : toNfcc # <<>> /\ m = Head(toNfcc) /\ AnswerOutcome(m) /\ conn' = conn
                         /\ nfc' = nfc /\ m.c \in Conn /\ CommandOK(m) /\ m = toNfcc[1]
                         /\ 1 \in DOMAIN toNfcc
    <3>1. toNfcc # <<>> /\ AnswerOutcome(Head(toNfcc)) /\ conn' = conn /\ nfc' = nfc
      BY <1>0, <1>5, AnswerCases
    <3>2. Head(toNfcc) \in Cmd /\ Head(toNfcc) = toNfcc[1] /\ 1 \in DOMAIN toNfcc
      BY <1>0, <3>1, TailSeq
    <3> QED
      BY <3>1, <3>2 DEF Cmd, Handshake
  <2>2. CASE m.kind = "deactivate"
    <3>1. /\ seen' = seen
          /\ toHost' = IF nfcc.mode = "active" THEN Append(Append(toHost, Rsp), Ntf)
                       ELSE Append(toHost, Rsp)
      BY <2>1, <2>2 DEF AnswerOutcome
    <3>2. CASE nfcc.mode # "active"
      BY <2>1, <3>1, <3>2, Messages, WholeNews
    <3>3. CASE nfcc.mode = "active"
      <4> DEFINE s == Append(toHost, Rsp)
      <4>1. s \in Seq(Message) /\ toHost' = Append(s, Ntf)
        BY <1>0, <3>1, <3>3, Messages, AppendSeq
      <4>2. \A i \in DOMAIN s : (i \in DOMAIN toHost /\ s[i] = toHost[i]) \/ s[i] = Rsp
        BY <1>0, Messages, AllAppend
      <4> HIDE DEF s
      <4>3. \A i \in DOMAIN toHost' : (i \in DOMAIN s /\ toHost'[i] = s[i]) \/ toHost'[i] = Ntf
        BY <4>1, Messages, AllAppend
      <4>4. \A i \in DOMAIN toHost' :
              \/ i \in DOMAIN toHost /\ toHost'[i] = toHost[i]
              \/ toHost'[i].kind = "deactivated"
        BY <4>2, <4>3, Messages
      <4>5. /\ \A d \in Conn : Created(d)' => Created(d)
            /\ Owed("activated")' => Owed("activated")
        BY <4>4 DEF Created, Owed
      <4> QED
        BY <2>1, <3>1, <4>5, WholeQuiet DEF Live
    <3> QED
      BY <3>2, <3>3
  <2>3. CASE m.kind = "create"
    <3>1. m.c \in Dyn /\ m.c # RF /\ For(toNfcc, "create", m.c)
      BY <2>1, <2>3, ConnAssumption DEF CommandOK, For
    <3>2. ~Live(m.c)
      BY <3>1 DEF Handshake, Live
    <3>3. PICK e \in Message : e.kind = "created" /\ e.c = m.c /\ toHost' = Append(toHost, e)
      BY <2>1, <2>3, Messages DEF Msg, AnswerOutcome
    <3>4. seen' = [seen EXCEPT !.part[m.c] = 0, !.up[m.c] = 0, !.flushed = @ \ {m.c}]
      BY <2>1, <2>3 DEF AnswerOutcome
    <3>5. PartAnew(m.c)
      BY <2>1, <3>4 DEF TypeOK, History, PartAnew
    <3> QED
      BY <2>1, <3>1, <3>2, <3>3, <3>5, WholeAnew
  <2>4. CASE m.kind = "close"
    <3> DEFINE e == Msg("closed", m.c, 0, FALSE)
    <3>1. e \in Message /\ e.kind = "closed"
      BY <2>1, Messages DEF Msg
    <3> HIDE DEF e
    <3>2. toHost' = Append(toHost, e) /\ seen' = seen
      BY <2>1, <2>4 DEF AnswerOutcome, e
    <3> QED
      BY <2>1, <3>1, <3>2, WholeNews
  <2> QED
    BY <2>1, <2>2, <2>3, <2>4 DEF Cmd
<1>6. ASSUME ReturnLate
      PROVE  Whole'
  <2> DEFINE e == Msg("late", RF, 1, FALSE)
  <2>1. e \in Message /\ e.kind = "late"
    BY Messages DEF Msg
  <2>2. toHost' = Append(toHost, e) /\ conn' = conn /\ nfc' = nfc /\ seen' = seen
    BY <1>6 DEF ReturnLate, ToHost
  <2> HIDE DEF e
  <2> QED
    BY <2>1, <2>2, WholeNews
<1> QED
  BY <1>1, <1>2, <1>3, <1>4, <1>5, <1>6 DEF NfccNext

\* Every step keeps the packets whole.
LEMMA WholeStep ==
  ASSUME TypeOK, Calm, Handshake, LinkOrder, Whole, [Next]_vars,
         used'.reset = 0
  PROVE  Whole'
<1>1. TypeOK'
  BY StepType
<1>2. CASE ApiNext
  BY <1>2, WholeApi
<1>3. CASE Handle
  BY <1>1, <1>3, WholeHandle
<1>4. CASE WaitToDeactivateTimeout
  <2>1. nfc'.st = nfc.st /\ conn' = conn /\ seen' = seen /\ toHost' = toHost
    BY <1>4 DEF WaitToDeactivateTimeout, TypeOK, NfcState
  <2> QED
    BY <2>1, WholeQuiet DEF Live, Created, Owed
<1>5. CASE NfccNext
  BY <1>1, <1>5, NfccReset0, WholeNfcc
<1>6. CASE UNCHANGED vars
  BY <1>6, WholeQuiet DEF vars, Live, Created, Owed
<1> QED
  BY <1>2, <1>3, <1>4, <1>5, <1>6 DEF Next

\* No packet is there at the start.
LEMMA InitWhole ==
  ASSUME Init
  PROVE  Whole
<1>1. toHost = <<>> /\ DOMAIN toHost = {} /\ ~seen.torn
      /\ \A c \in Conn : seen.part[c] = 0 /\ conn[c].tx = <<>>
  BY DEF Init, Free
<1> QED
  BY <1>1 DEF Whole, Outgoing, Tidy, Live, Created, Owed

IInvWhole ==
  TypeOK /\ (used.reset = 0 => Calm /\ Handshake /\ LinkOrder /\ Whole)

\* PacketsWhole holds of every behaviour: however credits and buffers hold the fragments
\* up, nfc_ncif_send_data hands the NFCC one packet after the other, each in full.
THEOREM NeverTorn == Spec => []PacketsWhole
<1>1. Init => IInvWhole
  BY InitLedger, InitWhole DEF IInvWhole, IInvCredits
<1>2. IInvWhole /\ [Next]_vars => IInvWhole'
  <2> SUFFICES ASSUME IInvWhole, [Next]_vars
               PROVE  IInvWhole'
    OBVIOUS
  <2>1. TypeOK /\ TypeOK'
    BY StepType DEF IInvWhole
  <2>2. ASSUME used'.reset = 0
        PROVE  (Calm /\ Handshake /\ LinkOrder /\ Whole)'
    <3>1. Calm /\ Handshake /\ LinkOrder /\ Whole
      BY <2>1, <2>2, ResetsGrow DEF IInvWhole
    <3> QED
      BY <2>1, <2>2, <3>1, CalmStep, HandshakeStep, LinkOrderStep, WholeStep
  <2> QED
    BY <2>1, <2>2 DEF IInvWhole
<1>3. IInvWhole => PacketsWhole
  BY DEF IInvWhole, Whole, PacketsWhole
<1> QED
  BY <1>1, <1>2, <1>3, PTL DEF Spec
--------------------------------------------------------------------------------
(***************************************************************************)
(* Proofs about the NCI data plane, the receiving side (NciData): what the *)
(* callback of a connection gets is what the NFCC sent (ReportedRight).    *)
(*                                                                         *)
(* ReceivedRight only speaks of buffers that have gone up.  What makes it  *)
(* true is Received: on every connection that is alive, what went up, the  *)
(* buffers in its queue and the data messages in the mailbox are one line  *)
(* of packets with no gap, every packet on its way finds its connection    *)
(* open and its link up when its turn comes, and a connection that is not  *)
(* alive has nothing queued.                                               *)
(***************************************************************************)

-------------------------------------------------------------------------------
(* The invariant.                                                            *)

\* Data messages in the mailbox, and how many wait behind a position.
DataAt(c, i) == toHost[i].kind = "data" /\ toHost[i].c = c

DataBehind(c, k) == Count(toHost, "data", c, k)

\* The connection is open, or will be when the mailbox is read.
RxAlive(c) ==
  IF c = RF THEN nfc.st # "IDLE" \/ Owed("activated")
  ELSE conn[c].id = "open" \/ Created(c)

\* A buffer holds a packet or part of one, and its flag says which.
GoodBuffer(b, ends, sent) ==
  /\ b.from <= b.to /\ b.to <= sent
  /\ b.more <=> b.to \notin ends
  /\ \A i \in b.from .. (b.to - 1) : i \notin ends

\* The buffers of q continue each other and what went up before.
Queue(q, up, ends, sent) ==
  /\ q # <<>> => q[1].from = up + 1
  /\ \A i \in 1..(Len(q) - 1) : q[i + 1].from = q[i].to + 1
  /\ \A i \in 1..Len(q) : GoodBuffer(q[i], ends, sent)

\* The last fragment that is queued or went up.
End(q, up) == IF q = <<>> THEN up ELSE q[Len(q)].to

\* What went up, what is queued and what is on its way are all that was sent.
Chain(c) ==
  /\ Queue(conn[c].rx, seen.up[c], nfcc.ends[c], nfcc.sent[c])
  /\ End(conn[c].rx, seen.up[c]) + DataBehind(c, 0) = nfcc.sent[c]

\* The received side of c.
Incoming(c) ==
  /\ conn[c].id # "open" => conn[c].rx = <<>>
  /\ c = RF /\ nfc.st = "IDLE" => conn[c].rx = <<>>
  /\ \A n \in nfcc.ends[c] : n <= nfcc.sent[c]
  /\ RxAlive(c) => Chain(c)

\* The data message at i is the one its place says, and the connection is there for it.
Arrival(c, i) ==
  /\ toHost[i].n + DataBehind(c, i) = nfcc.sent[c]
  /\ toHost[i].flag <=> toHost[i].n \notin nfcc.ends[c]
  /\ c = RF /\ nfc.st = "IDLE" => \E j \in 1..(i - 1) : toHost[j].kind = "activated"
  /\ c # RF /\ conn[c].id # "open" =>
       \E j \in 1..(i - 1) :
         toHost[j].kind = "created" /\ toHost[j].c = c /\ toHost[j].flag
  /\ \A j \in 1..(i - 1) :
       /\ c = RF => toHost[j].kind # "deactivated"
       /\ ~(toHost[j].kind = "closed" /\ toHost[j].c = c)

\* The invariant of ReceivedRight.
Received ==
  /\ ~seen.garbled
  /\ \A c \in nfcc.open : c # RF /\ (conn[c].id = "open" \/ Created(c))
  /\ \A i \in DOMAIN toHost : toHost[i].kind = "closed" => toHost[i].c \notin nfcc.open
  /\ \A c \in Conn : Incoming(c)
  /\ \A i \in DOMAIN toHost : \A c \in Conn : DataAt(c, i) => Arrival(c, i)
-------------------------------------------------------------------------------
(* Received data.                                                            *)

\* Dropping from the front of two queues put together.
LEMMA DropConcat ==
  ASSUME NEW S, NEW r \in Seq(S), NEW t \in Seq(S), NEW k \in 0..Len(r)
  PROVE  /\ SubSeq(r, k + 1, Len(r)) \o t = SubSeq(r \o t, k + 1, Len(r \o t))
         /\ r \o t \in Seq(S) /\ k \in 0..Len(r \o t)
         /\ \A i \in 1..k : SubSeq(r, 1, k)[i] = (r \o t)[i]
<1> DEFINE q == r \o t
           a == SubSeq(r, k + 1, Len(r))
           b == SubSeq(q, k + 1, Len(q))
<1>1. /\ Len(r) \in Nat /\ Len(t) \in Nat /\ k \in Nat /\ k <= Len(r)
      /\ q \in Seq(S) /\ Len(q) = Len(r) + Len(t)
      /\ \A i \in 1..(Len(r) + Len(t)) : q[i] = IF i <= Len(r) THEN r[i] ELSE t[i - Len(r)]
  BY ConcatProperties
<1> HIDE DEF q
<1>2. a \in Seq(S) /\ Len(a) = Len(r) - k /\ \A i \in 1..(Len(r) - k) : a[i] = r[k + i]
  <2>1. k + 1 \in 1..(Len(r) + 1) /\ Len(r) \in ((k + 1) - 1)..Len(r)
    BY <1>1
  <2>2. /\ a \in Seq(S) /\ Len(a) = Len(r) - (k + 1) + 1
        /\ \A i \in 1..(Len(r) - (k + 1) + 1) : a[i] = r[k + 1 + i - 1]
    BY <2>1, SubSeqSeq
  <2> QED
    BY <1>1, <2>2
<1>3. b \in Seq(S) /\ Len(b) = Len(q) - k /\ \A i \in 1..(Len(q) - k) : b[i] = q[k + i]
  <2>1. k + 1 \in 1..(Len(q) + 1) /\ Len(q) \in ((k + 1) - 1)..Len(q)
    BY <1>1
  <2>2. /\ b \in Seq(S) /\ Len(b) = Len(q) - (k + 1) + 1
        /\ \A i \in 1..(Len(q) - (k + 1) + 1) : b[i] = q[k + 1 + i - 1]
    BY <1>1, <2>1, SubSeqSeq
  <2> QED
    BY <1>1, <2>2
<1>4. \A i \in 1..k : SubSeq(r, 1, k)[i] = q[i]
  <2>1. 1 \in 1..(Len(r) + 1) /\ k \in (1 - 1)..Len(r)
    BY <1>1
  <2>2. \A i \in 1..(k - 1 + 1) : SubSeq(r, 1, k)[i] = r[1 + i - 1]
    BY <2>1, SubSeqSeq
  <2>3. \A i \in 1..k : i \in 1..(k - 1 + 1) /\ 1 + i - 1 = i /\ q[i] = r[i]
    BY <1>1
  <2> QED
    BY <2>2, <2>3
<1> HIDE DEF a, b
<1>5. a \o t = b
  <2>0. /\ a \o t \in Seq(S) /\ Len(a \o t) = Len(a) + Len(t)
        /\ \A i \in 1..(Len(a) + Len(t)) :
             (a \o t)[i] = IF i <= Len(a) THEN a[i] ELSE t[i - Len(a)]
    BY <1>2, ConcatProperties
  <2> DEFINE s == a \o t
  <2> HIDE DEF s
  <2>1. /\ s \in Seq(S) /\ Len(s) = Len(b) /\ Len(b) \in Nat
        /\ Len(b) = (Len(r) - k) + Len(t)
        /\ \A i \in 1..((Len(r) - k) + Len(t)) :
             s[i] = IF i <= Len(r) - k THEN a[i] ELSE t[i - (Len(r) - k)]
    BY <1>1, <1>2, <1>3, <2>0 DEF s
  <2>2. ASSUME NEW i \in 1..Len(b)
        PROVE  s[i] = b[i]
    <3>0. /\ i \in Nat /\ i >= 1 /\ i <= (Len(r) - k) + Len(t)
          /\ i \in 1..(Len(q) - k) /\ k + i \in 1..(Len(r) + Len(t))
      BY <1>1, <1>3, <2>1
    <3>1. b[i] = IF k + i <= Len(r) THEN r[k + i] ELSE t[(k + i) - Len(r)]
      BY <1>1, <1>3, <3>0
    <3>2. CASE i <= Len(r) - k
      BY <1>1, <1>2, <2>1, <3>0, <3>1, <3>2
    <3>3. CASE ~(i <= Len(r) - k)
      <4>1. (k + i) - Len(r) = i - (Len(r) - k) /\ ~(k + i <= Len(r))
        BY <1>1, <3>0, <3>3
      <4> QED
        BY <2>1, <3>0, <3>1, <3>3, <4>1
    <3> QED
      BY <3>2, <3>3
  <2> QED
    BY <1>3, <2>1, <2>2, SeqEqual DEF s
<1>6. k \in 0..Len(q)
  BY <1>1
<1> QED
  BY <1>1, <1>4, <1>5, <1>6 DEF q, a, b

\* What stays in a queue continues what went up, and each buffer that goes up continues
\* the one before.
LEMMA QueueDrop ==
  ASSUME NEW q \in Seq(Buffer), NEW up \in Nat, NEW ends, NEW sent \in Nat,
         Queue(q, up, ends, sent), NEW k \in 0..Len(q)
  PROVE  LET gone == IF k = 0 THEN up ELSE q[k].to
             rest == SubSeq(q, k + 1, Len(q))
         IN  /\ Queue(rest, gone, ends, sent)
             /\ End(rest, gone) = End(q, up)
             /\ rest # <<>> => q # <<>>
             /\ \A i \in 1..k : /\ GoodBuffer(q[i], ends, sent)
                                /\ q[i].from = (IF i = 1 THEN up ELSE q[i - 1].to) + 1
<1> DEFINE gone == IF k = 0 THEN up ELSE q[k].to
           rest == SubSeq(q, k + 1, Len(q))
<1>1. Len(q) \in Nat /\ k \in Nat /\ k <= Len(q) /\ (q = <<>> <=> Len(q) = 0)
  OBVIOUS
<1>2. rest \in Seq(Buffer) /\ Len(rest) = Len(q) - k
      /\ \A i \in 1..(Len(q) - k) : rest[i] = q[k + i]
  <2>1. k + 1 \in 1..(Len(q) + 1) /\ Len(q) \in ((k + 1) - 1)..Len(q)
    BY <1>1
  <2>2. /\ rest \in Seq(Buffer) /\ Len(rest) = Len(q) - (k + 1) + 1
        /\ \A i \in 1..(Len(q) - (k + 1) + 1) : rest[i] = q[k + 1 + i - 1]
    BY <2>1, SubSeqSeq
  <2> QED
    BY <1>1, <2>2
<1> HIDE DEF rest
<1>3. rest = <<>> <=> k = Len(q)
  BY <1>1, <1>2
<1>4. rest # <<>> => rest[1].from = gone + 1
  <2>1. CASE k = 0
    BY <1>1, <1>2, <1>3, <2>1 DEF Queue
  <2>2. CASE k # 0 /\ rest # <<>>
    <3>1. k \in 1..(Len(q) - 1) /\ rest[1] = q[k + 1]
      BY <1>1, <1>2, <1>3, <2>2
    <3> QED
      BY <2>2, <3>1 DEF Queue
  <2> QED
    BY <2>1, <2>2
<1>5. \A i \in 1..(Len(rest) - 1) : rest[i + 1].from = rest[i].to + 1
  <2> SUFFICES ASSUME NEW i \in 1..(Len(rest) - 1)
               PROVE  rest[i + 1].from = rest[i].to + 1
    OBVIOUS
  <2> DEFINE l == Len(q)
  <2>1. l \in Nat /\ k \in Nat /\ i \in 1..(l - k - 1)
    BY <1>1, <1>2
  <2>2. /\ \A j \in 1..(l - k) : rest[j] = q[k + j]
        /\ \A j \in 1..(l - 1) : q[j + 1].from = q[j].to + 1
    BY <1>2 DEF Queue
  <2> HIDE DEF l
  <2>3. /\ k + i \in 1..(l - 1) /\ i \in 1..(l - k) /\ i + 1 \in 1..(l - k)
        /\ k + (i + 1) = (k + i) + 1
    BY <2>1
  <2>4. rest[i] = q[k + i] /\ rest[i + 1] = q[k + (i + 1)]
    BY <2>2, <2>3
  <2>5. q[(k + i) + 1].from = q[k + i].to + 1
    BY <2>2, <2>3
  <2> QED
    BY <2>3, <2>4, <2>5
<1>6. \A i \in 1..Len(rest) : GoodBuffer(rest[i], ends, sent)
  <2>1. \A i \in 1..Len(rest) : k + i \in 1..Len(q) /\ rest[i] = q[k + i]
    BY <1>1, <1>2
  <2> QED
    BY <2>1 DEF Queue
<1>7. End(rest, gone) = End(q, up)
  <2>1. CASE k = Len(q)
    BY <1>1, <1>3, <2>1 DEF End
  <2>2. CASE k # Len(q)
    <3>1. /\ Len(rest) \in 1..(Len(q) - k) /\ rest[Len(rest)] = q[Len(q)]
          /\ rest # <<>> /\ q # <<>>
      BY <1>1, <1>2, <1>3, <2>2
    <3> QED
      BY <3>1 DEF End
  <2> QED
    BY <2>1, <2>2
<1>8. ASSUME NEW i \in 1..k
      PROVE  /\ GoodBuffer(q[i], ends, sent)
             /\ q[i].from = (IF i = 1 THEN up ELSE q[i - 1].to) + 1
  <2>1. i \in 1..Len(q) /\ q # <<>>
    BY <1>1
  <2>2. i # 1 => i - 1 \in 1..(Len(q) - 1) /\ (i - 1) + 1 = i
    BY <1>1
  <2> QED
    BY <2>1, <2>2 DEF Queue
<1>9. rest # <<>> => q # <<>>
  BY <1>1, <1>2
<1> QED
  BY <1>4, <1>5, <1>6, <1>7, <1>8, <1>9 DEF Queue, rest

\* A buffer put behind a queue that it continues.
LEMMA QueueAppend ==
  ASSUME NEW q \in Seq(Buffer), NEW up \in Nat, NEW ends, NEW sent \in Nat,
         Queue(q, up, ends, sent), NEW b \in Buffer, GoodBuffer(b, ends, sent),
         b.from = End(q, up) + 1
  PROVE  Queue(Append(q, b), up, ends, sent) /\ End(Append(q, b), up) = b.to
<1> DEFINE s == Append(q, b)
<1>1. /\ s \in Seq(Buffer) /\ Len(s) = Len(q) + 1 /\ Len(q) \in Nat
      /\ \A i \in 1..Len(q) : s[i] = q[i]
      /\ s[Len(q) + 1] = b /\ s # <<>> /\ (q = <<>> <=> Len(q) = 0)
  BY AppendSeq
<1> HIDE DEF s
<1>2. s[1].from = up + 1
  BY <1>1 DEF Queue, End
<1>3. ASSUME NEW i \in 1..(Len(s) - 1)
      PROVE  s[i + 1].from = s[i].to + 1
  <2>1. CASE i = Len(q)
    <3>1. q # <<>> /\ s[i] = q[Len(q)] /\ s[i + 1] = b
      BY <1>1, <2>1
    <3> QED
      BY <3>1 DEF End
  <2>2. CASE i # Len(q)
    <3>1. i \in 1..(Len(q) - 1) /\ s[i] = q[i] /\ s[i + 1] = q[i + 1]
      BY <1>1, <2>2
    <3> QED
      BY <3>1 DEF Queue
  <2> QED
    BY <2>1, <2>2
<1>4. \A i \in 1..Len(s) : GoodBuffer(s[i], ends, sent)
  <2>1. \A i \in 1..Len(s) : i = Len(q) + 1 \/ i \in 1..Len(q)
    BY <1>1
  <2> QED
    BY <1>1, <2>1 DEF Queue
<1>5. End(s, up) = b.to
  BY <1>1 DEF End
<1> QED
  BY <1>2, <1>3, <1>4, <1>5 DEF Queue, s

\* The last buffer of a queue, and the ones before it.
LEMMA QueueFront ==
  ASSUME NEW q \in Seq(Buffer), NEW up \in Nat, NEW ends, NEW sent \in Nat,
         Queue(q, up, ends, sent), q # <<>>
  PROVE  /\ Front(q) \in Seq(Buffer) /\ Last(q) \in Buffer
         /\ Queue(Front(q), up, ends, sent) /\ GoodBuffer(Last(q), ends, sent)
         /\ Last(q).from = End(Front(q), up) + 1 /\ Last(q).to = End(q, up)
<1>1. /\ Last(q) = q[Len(q)] /\ Last(q) \in Buffer /\ Len(q) \in Nat \ {0}
      /\ Front(q) \in Seq(Buffer) /\ Len(Front(q)) = Len(q) - 1
      /\ \A i \in 1..(Len(q) - 1) : Front(q)[i] = q[i]
  BY LastFront
<1> DEFINE f == Front(q)
<1> HIDE DEF f
<1>2. /\ f \in Seq(Buffer) /\ Len(f) = Len(q) - 1 /\ \A i \in 1..(Len(q) - 1) : f[i] = q[i]
      /\ (f = <<>> <=> Len(q) = 1)
  BY <1>1 DEF f
<1>3. Queue(f, up, ends, sent)
  <2>1. f # <<>> => f[1].from = up + 1
    BY <1>1, <1>2 DEF Queue
  <2>2. ASSUME NEW i \in 1..(Len(f) - 1) PROVE f[i + 1].from = f[i].to + 1
    <3>1. i \in 1..(Len(q) - 1) /\ i + 1 \in 1..(Len(q) - 1)
      BY <1>1, <1>2
    <3>2. f[i] = q[i] /\ f[i + 1] = q[i + 1]
      BY <1>2, <3>1
    <3> QED
      BY <3>1, <3>2 DEF Queue
  <2>3. ASSUME NEW i \in 1..Len(f) PROVE GoodBuffer(f[i], ends, sent)
    <3>1. i \in 1..(Len(q) - 1) /\ i \in 1..Len(q)
      BY <1>1, <1>2
    <3>2. f[i] = q[i]
      BY <1>2, <3>1
    <3> QED
      BY <3>1, <3>2 DEF Queue
  <2> QED
    BY <2>1, <2>2, <2>3 DEF Queue
<1>4. GoodBuffer(Last(q), ends, sent) /\ Last(q).to = End(q, up)
  BY <1>1 DEF Queue, End
<1>5. Last(q).from = End(f, up) + 1
  <2>1. CASE Len(q) = 1
    BY <1>1, <1>2, <2>1 DEF Queue, End
  <2>2. CASE Len(q) # 1
    <3>1. /\ Len(q) - 1 \in 1..(Len(q) - 1) /\ f # <<>> /\ f[Len(f)] = q[Len(q) - 1]
          /\ (Len(q) - 1) + 1 = Len(q)
      BY <1>1, <1>2, <2>2
    <3> QED
      BY <1>1, <3>1 DEF Queue, End
  <2> QED
    BY <2>1, <2>2
<1> QED
  BY <1>1, <1>3, <1>4, <1>5 DEF f

\* nfc_data_event reports each buffer right when the queue continues what went up before,
\* and what it leaves goes on from there.
LEMMA DataEventRight ==
  ASSUME TypeOK, Calm, NEW c \in Conn, NEW cb \in Block, NEW reassembly, NEW tail \in Seq(Buffer),
         DataEvent(c, cb, reassembly, tail), ~seen.garbled,
         Queue(cb.rx \o tail, seen.up[c], nfcc.ends[c], nfcc.sent[c])
  PROVE  /\ ~seen'.garbled
         /\ Queue(conn'[c].rx, seen'.up[c], nfcc.ends[c], nfcc.sent[c])
         /\ End(conn'[c].rx, seen'.up[c]) = End(cb.rx \o tail, seen.up[c])
         /\ conn'[c].rx # <<>> => cb.rx \o tail # <<>>
<1> DEFINE k == IF cb.cb THEN Reported(c, cb.rx, reassembly) ELSE 0
           done == SubSeq(cb.rx, 1, k)
           q == cb.rx \o tail
           rest == SubSeq(cb.rx, k + 1, Len(cb.rx)) \o tail
           on == reassembly \/ \E i \in 1..k : ~done[i].more
           up == IF k = 0 THEN seen.up[c] ELSE done[k].to
           bad == seen.garbled \/ \E i \in 1..k :
                    ~Right(c, done[i], IF i = 1 THEN seen.up[c] ELSE done[i - 1].to)
<1>1. /\ conn' = [conn EXCEPT ![c] = [cb EXCEPT !.rx = rest]]
      /\ seen' = [seen EXCEPT !.up[c] = up, !.garbled = bad]
  BY DEF DataEvent
<1>2. cb.rx \in Seq(Buffer) /\ k \in 0..Len(cb.rx) /\ Len(cb.rx) \in Nat
  <2>1. cb.rx \in Seq(Buffer) /\ Len(cb.rx) \in Nat
    BY DEF Block
  <2> QED
    BY <2>1, ReportedRange
<1> HIDE DEF k, done, q, rest, on, up, bad
<1>3. /\ rest = SubSeq(q, k + 1, Len(q)) /\ q \in Seq(Buffer) /\ k \in 0..Len(q)
      /\ \A i \in 1..k : done[i] = q[i]
  <2> DEFINE r == cb.rx
  <2>1. r \in Seq(Buffer) /\ k \in 0..Len(r)
    BY <1>2
  <2> HIDE DEF r
  <2>2. /\ SubSeq(r, k + 1, Len(r)) \o tail = SubSeq(r \o tail, k + 1, Len(r \o tail))
        /\ r \o tail \in Seq(Buffer) /\ k \in 0..Len(r \o tail)
        /\ \A i \in 1..k : SubSeq(r, 1, k)[i] = (r \o tail)[i]
    BY <2>1, DropConcat
  <2> QED
    BY <2>2 DEF r, q, rest, done
<1>4. seen.up[c] \in Nat /\ nfcc.sent[c] \in Nat
  BY DEF TypeOK, History, NfccState
<1>10. Queue(q, seen.up[c], nfcc.ends[c], nfcc.sent[c])
  BY DEF q
<1> DEFINE gone == IF k = 0 THEN seen.up[c] ELSE q[k].to
<1>5. /\ Queue(rest, gone, nfcc.ends[c], nfcc.sent[c])
      /\ End(rest, gone) = End(q, seen.up[c])
      /\ rest # <<>> => q # <<>>
      /\ \A i \in 1..k : /\ GoodBuffer(q[i], nfcc.ends[c], nfcc.sent[c])
                         /\ q[i].from = (IF i = 1 THEN seen.up[c] ELSE q[i - 1].to) + 1
  <2> DEFINE ends == nfcc.ends[c]
             sent == nfcc.sent[c]
             old == seen.up[c]
             rem == SubSeq(q, k + 1, Len(q))
  <2>1. Queue(q, old, ends, sent) /\ old \in Nat /\ sent \in Nat
    BY <1>4, <1>10
  <2> HIDE DEF ends, sent, old
  <2>2. /\ Queue(rem, IF k = 0 THEN old ELSE q[k].to, ends, sent)
        /\ End(rem, IF k = 0 THEN old ELSE q[k].to) = End(q, old)
        /\ rem # <<>> => q # <<>>
        /\ \A i \in 1..k : /\ GoodBuffer(q[i], ends, sent)
                           /\ q[i].from = (IF i = 1 THEN old ELSE q[i - 1].to) + 1
    BY <1>3, <2>1, QueueDrop
  <2>3. rem = rest
    BY <1>3
  <2> HIDE DEF rem
  <2> QED
    BY <2>2, <2>3 DEF ends, sent, old
<1>6. up = gone
  <2>1. CASE k = 0
    BY <2>1 DEF up
  <2>2. CASE k # 0
    <3>1. k \in 1..k
      BY <1>2, <2>2
    <3> QED
      BY <1>3, <2>2, <3>1 DEF up
  <2> QED
    BY <2>1, <2>2
<1>7. ~bad
  <2>1. ASSUME NEW i \in 1..k
        PROVE  Right(c, done[i], IF i = 1 THEN seen.up[c] ELSE done[i - 1].to)
    <3>1. i # 1 => i - 1 \in 1..k
      BY <1>2
    <3>2. done[i] = q[i] /\ (i # 1 => done[i - 1] = q[i - 1])
      BY <1>3, <3>1
    <3> QED
      BY <1>5, <3>2 DEF Right, GoodBuffer
  <2> QED
    BY <2>1 DEF bad
<1>8. conn'[c].rx = rest
  BY <1>1 DEF TypeOK, Block
<1>9. seen'.up[c] = up /\ seen'.garbled = bad
  BY <1>1 DEF TypeOK, History
<1> HIDE DEF gone
<1> QED
  BY <1>5, <1>6, <1>7, <1>8, <1>9 DEF q

\* A packet that comes next is queued behind what waits, in a buffer of its own or in
\* that of the packet it continues, or behind the part of it that is too big.
LEMMA ProcDataRight ==
  ASSUME TypeOK, Calm, NEW m \in Message, ProcData(m), conn[m.c].id = "open", ~seen.garbled,
         Queue(conn[m.c].rx, seen.up[m.c], nfcc.ends[m.c], nfcc.sent[m.c]),
         m.n = End(conn[m.c].rx, seen.up[m.c]) + 1, m.n <= nfcc.sent[m.c],
         m.flag <=> m.n \notin nfcc.ends[m.c]
  PROVE  /\ ~seen'.garbled
         /\ Queue(conn'[m.c].rx, seen'.up[m.c], nfcc.ends[m.c], nfcc.sent[m.c])
         /\ End(conn'[m.c].rx, seen'.up[m.c]) = m.n
<1> DEFINE c == m.c
           rx == conn[c].rx
           up == seen.up[c]
           ends == nfcc.ends[c]
           sent == nfcc.sent[c]
           on == nfc.reassembly \/ m.flag
           with(r) == [conn[c] EXCEPT !.rx = r]
           new == NewBuffer(m)
           last == Last(rx)
<1>1. /\ c \in Conn /\ conn[c] \in Block /\ rx \in Seq(Buffer) /\ up \in Nat /\ sent \in Nat
      /\ m.n \in Nat /\ m.flag \in BOOLEAN
  BY DEF TypeOK, Message, Block, History, NfccState
<1>2. ASSUME NEW r \in Seq(Buffer), NEW tail \in Seq(Buffer), DataEvent(c, with(r), on, tail),
             Queue(r \o tail, up, ends, sent), End(r \o tail, up) = m.n
      PROVE  /\ ~seen'.garbled /\ Queue(conn'[c].rx, seen'.up[c], ends, sent)
             /\ End(conn'[c].rx, seen'.up[c]) = m.n
  <2>1. with(r) \in Block /\ with(r).rx = r
    BY <1>1 DEF Block
  <2> HIDE DEF with
  <2> QED
    BY <1>1, <1>2, <2>1, DataEventRight
<1>3. ASSUME NEW b \in Buffer, NEW q \in Seq(Buffer), Queue(q, up, ends, sent),
             b.from = End(q, up) + 1, GoodBuffer(b, ends, sent), b.to = m.n,
             DataEvent(c, with(Append(q, b)), on, <<>>)
      PROVE  /\ ~seen'.garbled /\ Queue(conn'[c].rx, seen'.up[c], ends, sent)
             /\ End(conn'[c].rx, seen'.up[c]) = m.n
  <2> DEFINE r == Append(q, b)
  <2>1. r \in Seq(Buffer) /\ Queue(r, up, ends, sent) /\ End(r, up) = m.n
    BY <1>1, <1>3, AppendSeq, QueueAppend
  <2>2. <<>> \in Seq(Buffer) /\ r \o <<>> = r
    BY <2>1, ConcatEmptySeq
  <2> HIDE DEF with
  <2>3. DataEvent(c, with(r), on, <<>>)
    BY <1>3
  <2> HIDE DEF r
  <2> QED
    BY <1>2, <2>1, <2>2, <2>3
<1>4. /\ new \in Buffer /\ new.from = m.n /\ new.to = m.n
      /\ GoodBuffer(new, ends, sent)
  BY <1>1 DEF NewBuffer, Buffer, GoodBuffer
<1>5. CASE DataEvent(c, with(Append(rx, new)), on, <<>>)
  <2> HIDE DEF with, new, on
  <2> QED
    BY <1>1, <1>3, <1>4, <1>5
<1>6. ASSUME rx # <<>>, last.more
      PROVE  /\ Front(rx) \in Seq(Buffer) /\ last \in Buffer
             /\ Queue(Front(rx), up, ends, sent) /\ GoodBuffer(last, ends, sent)
             /\ last.from = End(Front(rx), up) + 1 /\ m.n = last.to + 1
             /\ last.to \notin ends
  <2>1. /\ Front(rx) \in Seq(Buffer) /\ last \in Buffer
        /\ Queue(Front(rx), up, ends, sent) /\ GoodBuffer(last, ends, sent)
        /\ last.from = End(Front(rx), up) + 1 /\ last.to = End(rx, up)
    BY <1>1, <1>6, QueueFront
  <2> QED
    BY <1>6, <2>1 DEF GoodBuffer
<1>7. ASSUME rx # <<>>, last.more, NEW b \in Buffer, b.from = last.from, b.to = m.n,
             b.more = m.flag, DataEvent(c, with(Append(Front(rx), b)), on, <<>>)
      PROVE  /\ ~seen'.garbled /\ Queue(conn'[c].rx, seen'.up[c], ends, sent)
             /\ End(conn'[c].rx, seen'.up[c]) = m.n
  <2>1. GoodBuffer(b, ends, sent)
    <3>1. last.from \in Nat /\ last.to \in Nat /\ last.from <= last.to
      BY <1>6, <1>7 DEF Buffer, GoodBuffer
    <3> HIDE DEF last, with, on
    <3>2. b.from = last.from /\ b.to = last.to + 1
      BY <1>6, <1>7
    <3>5. \A i \in b.from..(b.to - 1) : i = last.to \/ i \in last.from..(last.to - 1)
      BY <3>1, <3>2
    <3>3. \A i \in b.from..(b.to - 1) : i \notin ends
      BY <1>6, <1>7, <3>5 DEF GoodBuffer
    <3>4. b.from <= b.to
      BY <3>1, <3>2
    <3> QED
      BY <1>1, <1>7, <3>3, <3>4 DEF GoodBuffer
  <2> HIDE DEF with, on
  <2> QED
    BY <1>3, <1>6, <1>7, <2>1
<1>8. CASE /\ rx # <<>> /\ last.more
           /\ DataEvent(c, with(Append(Front(rx), Joined(last, m))), on, <<>>)
  <2> DEFINE b == Joined(last, m)
  <2>1. b \in Buffer /\ b.from = last.from /\ b.to = m.n /\ b.more = m.flag
    BY <1>1, <1>6, <1>8 DEF Joined, Buffer
  <2>2. DataEvent(c, with(Append(Front(rx), b)), on, <<>>)
    BY <1>8
  <2> HIDE DEF b, with, on
  <2> QED
    BY <1>7, <1>8, <2>1, <2>2
<1>9. CASE /\ rx # <<>> /\ last.more
           /\ DataEvent(c, with(Append(Front(rx), Joined([last EXCEPT !.max = TRUE], m))),
                        on, <<>>)
  <2> DEFINE b == Joined([last EXCEPT !.max = TRUE], m)
  <2>1. b \in Buffer /\ b.from = last.from /\ b.to = m.n /\ b.more = m.flag
    BY <1>1, <1>6, <1>9 DEF Joined, Buffer
  <2>2. DataEvent(c, with(Append(Front(rx), b)), on, <<>>)
    BY <1>9
  <2> HIDE DEF b, with, on
  <2> QED
    BY <1>7, <1>9, <2>1, <2>2
<1>10. CASE /\ rx # <<>> /\ last.more
            /\ DataEvent(c, with(Append(Front(rx), [last EXCEPT !.big = TRUE])), on, <<new>>)
  <2> DEFINE b == [last EXCEPT !.big = TRUE]
             r == Append(Front(rx), b)
             s == Append(r, new)
  <2>1. /\ b \in Buffer /\ b.from = last.from /\ b.to = last.to /\ b.more = last.more
    BY <1>6, <1>10 DEF Buffer
  <2>2. DataEvent(c, with(r), on, <<new>>)
    BY <1>10
  <2> HIDE DEF b, with, on
  <2>3. GoodBuffer(b, ends, sent)
    BY <1>6, <1>10, <2>1 DEF GoodBuffer
  <2>4. r \in Seq(Buffer) /\ Queue(r, up, ends, sent) /\ End(r, up) = last.to
    BY <1>1, <1>6, <1>10, <2>1, <2>3, AppendSeq, QueueAppend
  <2> HIDE DEF r, new
  <2>5. s \in Seq(Buffer) /\ Queue(s, up, ends, sent) /\ End(s, up) = m.n
    BY <1>1, <1>4, <1>6, <1>10, <2>4, AppendSeq, QueueAppend
  <2>6. r \o <<new>> = s /\ <<new>> \in Seq(Buffer)
    BY <1>4, <2>4, AppendTwo
  <2> HIDE DEF s
  <2> QED
    BY <1>2, <2>2, <2>4, <2>5, <2>6
<1> HIDE DEF with, on, new, last
<1> QED
  BY <1>5, <1>8, <1>9, <1>10, ProcDataCases DEF with, on, new, last

\* Data packets that wait behind a position of the mailbox.
LEMMA BehindAppend ==
  ASSUME TypeOK, Calm, NEW e \in Message, toHost' = Append(toHost, e), NEW c,
         NEW k \in 0..Len(toHost)
  PROVE  /\ DataBehind(c, k) \in Nat
         /\ DataBehind(c, k)' = DataBehind(c, k)
                                + IF e.kind = "data" /\ e.c = c THEN 1 ELSE 0
<1>1. toHost \in Seq(Message) /\ k \in Nat
  BY DEF TypeOK
<1> QED
  BY <1>1, CountAppend, CountFinite DEF DataBehind

\* What waits behind a position is what waited behind the next one.
LEMMA BehindTail ==
  ASSUME TypeOK, Calm, toHost # <<>>, toHost' = Tail(toHost), NEW c, NEW k \in Nat
  PROVE  DataBehind(c, k)' = DataBehind(c, k + 1)
<1>1. toHost \in Seq(Message)
  BY DEF TypeOK
<1> QED
  BY <1>1, CountTail DEF DataBehind

\* The first message is waiting or it is not data of c.
LEMMA BehindFirst ==
  ASSUME TypeOK, Calm, toHost # <<>>, NEW c
  PROVE  /\ DataBehind(c, 0) \in Nat /\ DataBehind(c, 1) \in Nat
         /\ DataBehind(c, 0) = DataBehind(c, 1) + IF DataAt(c, 1) THEN 1 ELSE 0
<1>1. toHost \in Seq(Message) /\ 0 \in Nat /\ 1 \in Nat
  BY DEF TypeOK
<1> QED
  BY <1>1, CountFirst, CountFinite DEF DataBehind, DataAt

\* Nothing waits where no data is.
LEMMA BehindNone ==
  ASSUME NEW s, NEW c, NEW k, ~For(s, "data", c) \/ \A i \in DOMAIN s : ~(i > k)
  PROVE  Count(s, "data", c, k) = 0
<1>1. At(s, "data", c, k) = {}
  BY DEF At, For
<1> QED
  BY <1>1, FS_EmptySet DEF Count

\* The answer that opens a connection is the first message or still waits.
LEMMA CreatedFirst ==
  ASSUME TypeOK, Calm, toHost # <<>>, toHost' = Tail(toHost), NEW c, Created(c)
  PROVE  (toHost[1].kind = "created" /\ toHost[1].c = c /\ toHost[1].flag) \/ Created(c)'
<1>0. toHost \in Seq(Message)
  BY DEF TypeOK
<1>1. /\ Len(toHost) \in Nat \ {0} /\ DOMAIN toHost = 1..Len(toHost)
      /\ DOMAIN toHost' = 1..(Len(toHost) - 1)
      /\ \A i \in 1..(Len(toHost) - 1) : toHost'[i] = toHost[i + 1]
  BY <1>0, TailSeq
<1>2. PICK i \in 1..Len(toHost) :
        toHost[i].kind = "created" /\ toHost[i].c = c /\ toHost[i].flag
  BY <1>1 DEF Created
<1>3. CASE i = 1
  BY <1>2, <1>3
<1>4. CASE i # 1
  <2>1. i - 1 \in DOMAIN toHost' /\ toHost'[i - 1] = toHost[i]
    BY <1>1, <1>4
  <2> QED
    BY <1>2, <2>1 DEF Created
<1> QED
  BY <1>3, <1>4

\* What a step leaves alone goes on as it was.
LEMMA IncomingSame ==
  ASSUME NEW d \in Conn, Incoming(d), conn'[d].rx = conn[d].rx,
         conn'[d].id # "open" => conn[d].id # "open",
         d = RF /\ nfc'.st = "IDLE" => nfc.st = "IDLE",
         nfcc'.ends[d] = nfcc.ends[d], nfcc'.sent[d] = nfcc.sent[d],
         seen'.up[d] = seen.up[d],
         RxAlive(d)' => RxAlive(d), DataBehind(d, 0)' = DataBehind(d, 0)
  PROVE  Incoming(d)'
<1>1. Chain(d) => Chain(d)'
  BY DEF Chain
<1> QED
  BY <1>1 DEF Incoming

\* A packet on its way keeps its place when a message is sent behind it.
LEMMA ArrivalAppend ==
  ASSUME TypeOK, Calm, NEW e \in Message, toHost' = Append(toHost, e), NEW c \in Conn,
         NEW i \in 1..Len(toHost), Arrival(c, i),
         nfcc'.sent[c] = nfcc.sent[c] + IF e.kind = "data" /\ e.c = c THEN 1 ELSE 0,
         toHost[i].n \notin nfcc.ends[c] <=> toHost[i].n \notin nfcc'.ends[c],
         conn' = conn, nfc' = nfc
  PROVE  Arrival(c, i)'
<1>0. toHost \in Seq(Message) /\ nfcc.sent[c] \in Nat /\ toHost[i] \in Message
      /\ i \in 0..Len(toHost)
  BY DEF TypeOK, NfccState
<1>1. \A j \in 1..Len(toHost) : toHost'[j] = toHost[j]
  BY <1>0, AppendSeq
<1>2. \A j \in 1..(i - 1) : toHost'[j] = toHost[j]
  BY <1>0, <1>1
<1>3. /\ DataBehind(c, i)' = DataBehind(c, i)
                             + IF e.kind = "data" /\ e.c = c THEN 1 ELSE 0
      /\ DataBehind(c, i) \in Nat
  BY <1>0, BehindAppend
<1>4. toHost'[i] = toHost[i] /\ toHost[i].n \in Nat
  BY <1>0, <1>1 DEF Message
<1>5. toHost'[i].n + DataBehind(c, i)' = nfcc'.sent[c]
  BY <1>0, <1>3, <1>4 DEF Arrival
<1>6. toHost'[i].flag <=> toHost'[i].n \notin nfcc'.ends[c]
  BY <1>4 DEF Arrival
<1> QED
  BY <1>2, <1>5, <1>6 DEF Arrival

\* And when the first message is taken.
LEMMA ArrivalTail ==
  ASSUME TypeOK, Calm, toHost # <<>>, toHost' = Tail(toHost), NEW c \in Conn,
         NEW i \in 1..(Len(toHost) - 1), Arrival(c, i + 1),
         nfcc'.sent = nfcc.sent, nfcc'.ends = nfcc.ends,
         c = RF /\ nfc'.st = "IDLE" => nfc.st = "IDLE" /\ toHost[1].kind # "activated",
         c # RF /\ conn'[c].id # "open"
           => /\ conn[c].id # "open"
              /\ ~(toHost[1].kind = "created" /\ toHost[1].c = c /\ toHost[1].flag)
  PROVE  Arrival(c, i)'
<1>0. toHost \in Seq(Message)
  BY DEF TypeOK
<1>1. /\ Len(toHost) \in Nat \ {0}
      /\ \A j \in 1..(Len(toHost) - 1) : toHost'[j] = toHost[j + 1]
  BY <1>0, TailSeq
<1>2. \A j \in 1..(i - 1) : toHost'[j] = toHost[j + 1] /\ j + 1 \in 1..((i + 1) - 1)
  BY <1>1
<1>3. \A j \in 1..((i + 1) - 1) : j # 1 => j - 1 \in 1..(i - 1) /\ toHost'[j - 1] = toHost[j]
  BY <1>1
<1>4. toHost'[i] = toHost[i + 1] /\ DataBehind(c, i)' = DataBehind(c, i + 1)
  BY <1>1, BehindTail
<1>5. toHost'[i].n + DataBehind(c, i)' = nfcc'.sent[c]
  BY <1>4 DEF Arrival
<1>6. toHost'[i].flag <=> toHost'[i].n \notin nfcc'.ends[c]
  BY <1>4 DEF Arrival
<1>7. c = RF /\ nfc'.st = "IDLE" => \E j \in 1..(i - 1) : toHost'[j].kind = "activated"
  BY <1>3 DEF Arrival
<1>8. c # RF /\ conn'[c].id # "open" =>
        \E j \in 1..(i - 1) :
          toHost'[j].kind = "created" /\ toHost'[j].c = c /\ toHost'[j].flag
  <2> SUFFICES ASSUME c # RF, conn'[c].id # "open"
               PROVE  \E j \in 1..(i - 1) :
                        toHost'[j].kind = "created" /\ toHost'[j].c = c /\ toHost'[j].flag
    OBVIOUS
  <2>1. PICK j \in 1..((i + 1) - 1) :
          toHost[j].kind = "created" /\ toHost[j].c = c /\ toHost[j].flag
    BY DEF Arrival
  <2>2. j # 1
    BY <2>1
  <2>3. j - 1 \in 1..(i - 1) /\ toHost'[j - 1] = toHost[j]
    BY <1>3, <2>2
  <2> QED
    BY <2>1, <2>3
<1>9. \A j \in 1..(i - 1) :
        /\ c = RF => toHost'[j].kind # "deactivated"
        /\ ~(toHost'[j].kind = "closed" /\ toHost'[j].c = c)
  BY <1>2 DEF Arrival
<1> QED
  BY <1>5, <1>6, <1>7, <1>8, <1>9 DEF Arrival

\* Taking a message keeps what is received in order, once each connection's own part does.
LEMMA ReceivedHandled ==
  ASSUME TypeOK, Calm, Handshake, LinkOrder, Received, Handle, ~seen'.garbled,
         \A d \in Conn : Incoming(d)'
  PROVE  Received'
<1>0. toHost \in Seq(Message)
  BY DEF TypeOK
<1>1. PICK m \in Message : m = Head(toHost)
  BY HandleEffect
<1>2. /\ toHost # <<>> /\ toHost' = Tail(toHost) /\ m = toHost[1]
      /\ nfc'.st = IF m.kind = "deactivated" THEN "IDLE"
                   ELSE IF m.kind = "activated" THEN "OPEN" ELSE nfc.st
      /\ \A d \in Conn :
           conn'[d].id = IF m.kind = "created" /\ m.c = d
                         THEN IF m.flag THEN "open" ELSE "illegal"
                         ELSE IF m.kind = "closed" /\ m.c = d THEN "illegal" ELSE conn[d].id
      /\ nfcc'.sent = nfcc.sent /\ nfcc'.ends = nfcc.ends /\ nfcc'.open = nfcc.open
  BY <1>1, HandleEffect
<1>3. /\ Len(toHost) \in Nat \ {0} /\ DOMAIN toHost' = 1..(Len(toHost) - 1)
      /\ DOMAIN toHost = 1..Len(toHost) /\ 1 \in DOMAIN toHost
      /\ \A i \in 1..(Len(toHost) - 1) : toHost'[i] = toHost[i + 1] /\ i + 1 \in DOMAIN toHost
  BY <1>0, <1>2, TailSeq
<1>4. \A d \in Dyn : m.kind = "created" /\ m.c = d => conn[d].id = "pending"
  BY <1>2, <1>3 DEF Handshake, For
<1>5. nfcc.open \subseteq Conn
  BY DEF TypeOK, NfccState
<1>6. ASSUME NEW c \in nfcc.open
      PROVE  c # RF /\ (conn'[c].id = "open" \/ Created(c)')
  <2>1. c # RF /\ (conn[c].id = "open" \/ Created(c)) /\ c \in Conn /\ c \in Dyn
    BY <1>5 DEF Received, Conn
  <2>2. CASE conn[c].id = "open"
    <3>1. ~(m.kind = "created" /\ m.c = c)
      BY <1>4, <2>1, <2>2
    <3>2. ~(m.kind = "closed" /\ m.c = c)
      BY <1>2, <1>3 DEF Received
    <3> QED
      BY <1>2, <2>1, <2>2, <3>1, <3>2
  <2>3. CASE Created(c)
    BY <1>2, <2>1, <2>3, CreatedFirst
  <2> QED
    BY <2>1, <2>2, <2>3
<1>7. \A i \in DOMAIN toHost' : toHost'[i].kind = "closed" => toHost'[i].c \notin nfcc'.open
  BY <1>2, <1>3 DEF Received
<1>8. ASSUME NEW i \in DOMAIN toHost', NEW c \in Conn, DataAt(c, i)'
      PROVE  Arrival(c, i)'
  <2>1. i \in 1..(Len(toHost) - 1) /\ i + 1 \in DOMAIN toHost /\ toHost'[i] = toHost[i + 1]
    BY <1>3
  <2>2. DataAt(c, i + 1)
    BY <1>8, <2>1 DEF DataAt
  <2>3. Arrival(c, i + 1)
    BY <2>1, <2>2 DEF Received
  <2>4. 1 \in 1..((i + 1) - 1)
    BY <1>3
  <2>5. /\ c = RF => m.kind # "deactivated"
        /\ ~(m.kind = "closed" /\ m.c = c)
    BY <1>2, <2>3, <2>4 DEF Arrival
  <2>6. c = RF /\ nfc'.st = "IDLE" => nfc.st = "IDLE" /\ m.kind # "activated"
    BY <1>2, <2>5
  <2>7. ASSUME c # RF, conn'[c].id # "open"
        PROVE  conn[c].id # "open" /\ ~(m.kind = "created" /\ m.c = c /\ m.flag)
    <3>1. c \in Dyn
      BY <2>7 DEF Conn
    <3> QED
      BY <1>2, <1>4, <2>5, <2>7, <3>1
  <2> QED
    BY <1>2, <2>1, <2>3, <2>6, <2>7, ArrivalTail
<1> QED
  BY <1>2, <1>6, <1>7, <1>8 DEF Received

\* A handled message that is not data leaves the buffers of the other connections alone.
LEMMA IncomingHandled ==
  ASSUME TypeOK, Calm, Received, Handle, NEW m \in Message, m = Head(toHost), NEW d \in Conn,
         m.kind # "data", conn'[d].rx = conn[d].rx, seen'.up[d] = seen.up[d],
         conn'[d].id # "open" => conn[d].id # "open",
         d = RF => m.kind # "deactivated",
         m.kind = "created" => m.flag \/ m.c # d,
         d # RF /\ conn'[d].id = "open" /\ conn[d].id # "open" => Created(d)
  PROVE  Incoming(d)'
<1>0. toHost \in Seq(Message)
  BY DEF TypeOK
<1>1. /\ toHost # <<>> /\ toHost' = Tail(toHost) /\ m = toHost[1]
      /\ nfc'.st = IF m.kind = "deactivated" THEN "IDLE"
                   ELSE IF m.kind = "activated" THEN "OPEN" ELSE nfc.st
      /\ nfcc'.sent = nfcc.sent /\ nfcc'.ends = nfcc.ends
  BY HandleEffect
<1>2. DataBehind(d, 0)' = DataBehind(d, 0)
  <2>1. 0 \in Nat /\ 0 + 1 = 1
    OBVIOUS
  <2>2. DataBehind(d, 0)' = DataBehind(d, 1)
    BY <1>1, <2>1, BehindTail
  <2>3. ~DataAt(d, 1)
    BY <1>1 DEF DataAt
  <2> QED
    BY <1>1, <2>2, <2>3, BehindFirst
<1>3. RxAlive(d)' => RxAlive(d)
  <2>1. Created(d)' => Created(d)
    BY <1>1, CreatedTail
  <2>2. Owed("activated") <=> m.kind = "activated" \/ Owed("activated")'
    BY <1>0, <1>1, HasTail, OwedHas
  <2> QED
    BY <1>1, <2>1, <2>2 DEF RxAlive
<1>4. d = RF /\ nfc'.st = "IDLE" => nfc.st = "IDLE"
  BY <1>1
<1>5. Incoming(d)
  BY DEF Received
<1> QED
  BY <1>1, <1>2, <1>3, <1>4, <1>5, IncomingSame

\* A received packet: the connection is there, its link is up, and the packet is the next.
LEMMA IncomingData ==
  ASSUME TypeOK, Calm, Handshake, Ledger, Received, Handle, NEW m \in Message,
         m = Head(toHost), ProcData(m)
  PROVE  ~seen'.garbled /\ \A d \in Conn : Incoming(d)'
<1> DEFINE c == m.c
<1>0. toHost \in Seq(Message) /\ c \in Conn /\ RF \in Conn
  BY DEF TypeOK, Message, Conn
<1>1. m.kind = "data" /\ nfcc' = nfcc
  BY ProcDataCases
<1>2. /\ toHost # <<>> /\ toHost' = Tail(toHost) /\ m = toHost[1] /\ nfc'.st = nfc.st
      /\ \A d \in Conn : conn'[d].id = conn[d].id
  BY <1>1, HandleEffect
<1>3. 1 \in DOMAIN toHost /\ DataAt(c, 1)
  BY <1>0, <1>1, <1>2, TailSeq DEF DataAt
<1>4. Arrival(c, 1)
  BY <1>0, <1>3 DEF Received
<1>5. conn[c].id = "open" /\ (c = RF => nfc.st # "IDLE")
  BY <1>4 DEF Arrival, Ledger
<1>6. RxAlive(c) /\ Incoming(c) /\ Chain(c)
  BY <1>0, <1>5 DEF RxAlive, Received, Incoming
<1>7. /\ DataBehind(c, 0) = DataBehind(c, 1) + 1 /\ DataBehind(c, 1) \in Nat
      /\ DataBehind(c, 0)' = DataBehind(c, 1)
  <2>1. 0 \in Nat /\ 0 + 1 = 1
    OBVIOUS
  <2> QED
    BY <1>2, <1>3, <2>1, BehindFirst, BehindTail
<1>8. /\ Queue(conn[c].rx, seen.up[c], nfcc.ends[c], nfcc.sent[c])
      /\ m.n + DataBehind(c, 1) = nfcc.sent[c]
      /\ End(conn[c].rx, seen.up[c]) + (DataBehind(c, 1) + 1) = nfcc.sent[c]
      /\ m.flag <=> m.n \notin nfcc.ends[c]
  BY <1>2, <1>4, <1>6, <1>7 DEF Arrival, Chain
<1>9. m.n \in Nat /\ End(conn[c].rx, seen.up[c]) \in Nat /\ nfcc.sent[c] \in Nat
  <2>1. conn[c].rx \in Seq(Buffer) /\ seen.up[c] \in Nat
    BY <1>0 DEF TypeOK, Block, History
  <2>2. conn[c].rx # <<>> => conn[c].rx[Len(conn[c].rx)] \in Buffer
    BY <2>1, LastFront
  <2> QED
    BY <1>0, <2>1, <2>2 DEF End, Buffer, Message, TypeOK, NfccState
<1>10. m.n = End(conn[c].rx, seen.up[c]) + 1 /\ m.n <= nfcc.sent[c]
  BY <1>7, <1>8, <1>9
<1>11. ~seen.garbled
  BY DEF Received
<1>12. /\ ~seen'.garbled
       /\ Queue(conn'[c].rx, seen'.up[c], nfcc.ends[c], nfcc.sent[c])
       /\ End(conn'[c].rx, seen'.up[c]) = m.n
  BY <1>5, <1>8, <1>10, <1>11, ProcDataRight
<1>13. Chain(c)'
  BY <1>1, <1>7, <1>8, <1>12 DEF Chain
<1>14. Incoming(c)'
  BY <1>0, <1>1, <1>2, <1>5, <1>6, <1>13 DEF Incoming
<1>15. ASSUME NEW d \in Conn \ {c}
       PROVE  Incoming(d)'
  <2>1. conn'[d] = conn[d] /\ seen'.up[d] = seen.up[d]
    <3> DEFINE with(r) == [conn[c] EXCEPT !.rx = r]
               on == nfc.reassembly \/ m.flag
    <3>1. \/ UNCHANGED <<conn, nfc, seen>>
          \/ \E r, tail \in Seq(Buffer) : with(r) \in Block /\ DataEvent(c, with(r), on, tail)
      BY ProcDataQueue
    <3> HIDE DEF with, on
    <3> QED
      BY <1>0, <3>1, DataEventEffect
  <2>2. DataBehind(d, 0)' = DataBehind(d, 0)
    <3>1. ~DataAt(d, 1) /\ 0 \in Nat /\ 0 + 1 = 1
      BY <1>2 DEF DataAt
    <3> QED
      BY <1>2, <3>1, BehindFirst, BehindTail
  <2>3. RxAlive(d)' => RxAlive(d)
    <3>1. Created(d)' => Created(d)
      BY <1>2, CreatedTail
    <3>2. Owed("activated")' => Owed("activated")
      BY <1>0, <1>2, HasTail, OwedHas
    <3> QED
      BY <1>2, <3>1, <3>2 DEF RxAlive
  <2>4. Incoming(d)
    BY DEF Received
  <2> QED
    BY <1>1, <1>2, <2>1, <2>2, <2>3, <2>4, IncomingSame
<1> QED
  BY <1>12, <1>14, <1>15

\* NFC_TASK keeps the line of received data, whatever message it takes.
LEMMA ReceivedHandle ==
  ASSUME TypeOK, Calm, Handshake, LinkOrder, Ledger, Received, Handle
  PROVE  Received'
<1>0. conn \in [Conn -> Block] /\ RF \in Conn /\ Dyn \subseteq Conn /\ RF \notin Dyn
      /\ toHost \in Seq(Message)
  BY ConnAssumption DEF TypeOK, Conn
<1>1. PICK m \in Message : m = Head(toHost)
  BY HandleEffect
<1>2. /\ toHost # <<>> /\ toHost' = Tail(toHost) /\ m = toHost[1] /\ m.c \in Conn
      /\ MessageOK(m) /\ 1 \in DOMAIN toHost
  <2>1. toHost # <<>> /\ toHost' = Tail(toHost) /\ m = toHost[1]
    BY <1>1, HandleEffect
  <2>2. 1 \in DOMAIN toHost
    BY <1>0, <2>1, TailSeq
  <2> QED
    BY <2>1, <2>2 DEF Message, Handshake
<1>3. \/ ProcDeactivate(m) \/ ProcActivate(m) \/ ProcCredits(m) \/ ProcData(m)
      \/ ProcConnCreateRsp(m) \/ ReportConnCloseEvt(m)
  BY <1>1, CalmHandle
<1>4. ~seen.garbled
  BY DEF Received
<1>5. CASE ProcDeactivate(m)
  <2>1. /\ \A d \in Conn \ {RF} : conn'[d] = conn[d]
        /\ conn'[RF].rx = <<>> /\ conn'[RF].id = conn[RF].id
    BY <1>0, <1>5 DEF ProcDeactivate, Block
  <2>2. m.kind = "deactivated" /\ seen' = seen /\ nfcc' = nfcc
    BY <1>5 DEF ProcDeactivate
  <2>3. nfc'.st = "IDLE"
    BY <1>5 DEF ProcDeactivate, TypeOK, NfcState
  <2>4. \A d \in Conn \ {RF} : Incoming(d)'
    BY <1>1, <2>1, <2>2, IncomingHandled
  <2>5. ~Owed("activated")'
    BY <1>0, <1>2, <2>2, OrderedTail, OwedHas DEF LinkOrder
  <2>6. Incoming(RF)'
    BY <1>0, <2>1, <2>2, <2>3, <2>5 DEF Received, Incoming, RxAlive
  <2> QED
    BY <1>4, <2>2, <2>4, <2>6, ReceivedHandled
<1>6. CASE ProcActivate(m)
  <2> DEFINE f == m.flag
             n == m.n
  <2>1. /\ conn' = [conn EXCEPT ![RF] = [conn[RF] EXCEPT !.num = n, !.init = n, !.dep = f]]
        /\ seen' = seen /\ m.kind = "activated"
    BY <1>6 DEF ProcActivate
  <2> HIDE DEF f, n
  <2>2. \A d \in Conn : conn'[d].rx = conn[d].rx /\ conn'[d].id = conn[d].id
    BY <1>0, <2>1 DEF Block
  <2>3. \A d \in Conn : Incoming(d)'
    BY <1>1, <2>1, <2>2, IncomingHandled
  <2> QED
    BY <1>4, <2>1, <2>3, ReceivedHandled
<1>7. CASE ProcCredits(m)
  <2>1. m.kind \in {"credits", "late"}
    BY <1>7, CalmCredits
  <2>2. \A d \in Conn : conn'[d].id = conn[d].id
    BY <1>1, <2>1, HandleEffect
  <2>3. /\ \A d \in Conn : conn'[d].rx = conn[d].rx
        /\ seen'.up = seen.up /\ seen'.garbled = seen.garbled
    <3>1. CASE UNCHANGED <<nfc, conn, nfcc, toNfcc, seen>>
      BY <3>1
    <3>2. CASE conn' = [conn EXCEPT ![m.c] = Credited(m)] /\ seen' = seen
      BY <1>0, <1>2, <3>2, CreditedBlock
    <3>3. CASE \E k \in SendCounts(Credited(m)) : Transmit(m.c, Credited(m), k)
      <4>1. PICK k \in SendCounts(Credited(m)) : Transmit(m.c, Credited(m), k)
        BY <3>3
      <4>2. Credited(m) \in Block /\ Credited(m).rx = conn[m.c].rx
        BY CreditedBlock
      <4> QED
        BY <1>2, <4>1, <4>2, TransmitEffect
    <3> QED
      BY <1>7, <3>1, <3>2, <3>3, CalmCredits
  <2>4. \A d \in Conn : Incoming(d)'
    BY <1>1, <2>1, <2>2, <2>3, IncomingHandled
  <2> QED
    BY <1>4, <2>3, <2>4, ReceivedHandled
<1>8. CASE ProcData(m)
  BY <1>1, <1>8, IncomingData, ReceivedHandled
<1>9. CASE ProcConnCreateRsp(m)
  <2>1. m.kind = "created" /\ seen' = seen /\ m.c \in Dyn /\ m.c # RF
    BY <1>0, <1>2, <1>9 DEF ProcConnCreateRsp, MessageOK
  <2>2. \A d \in Conn \ {m.c} : conn'[d] = conn[d]
    BY <1>0, <1>2, <1>9 DEF ProcConnCreateRsp
  <2>3. conn'[m.c] = IF m.flag THEN [conn[m.c] EXCEPT !.id = "open", !.num = m.n, !.init = m.n]
                     ELSE Free
    BY <1>0, <1>2, <1>9 DEF ProcConnCreateRsp
  <2>4. m.flag => conn'[m.c].rx = conn[m.c].rx /\ conn'[m.c].id = "open"
    BY <1>0, <1>2, <2>3 DEF Block
  <2>5. For(toHost, "created", m.c) /\ (m.flag => Created(m.c))
    BY <1>2, <2>1 DEF For, Created
  <2>6. \A d \in Conn \ {m.c} : Incoming(d)'
    BY <1>1, <2>1, <2>2, IncomingHandled
  <2>7. CASE m.flag
    <3>1. Incoming(m.c)'
      BY <1>1, <1>2, <2>1, <2>4, <2>5, <2>7, IncomingHandled
    <3> QED
      BY <1>4, <2>1, <2>6, <3>1, ReceivedHandled
  <2>8. CASE ~m.flag
    <3>1. conn'[m.c] = Free
      BY <2>3, <2>8
    <3>2. ~For(toHost', "created", m.c)
      <4>1. m.kind \in {"created", "closed"}
        BY <2>1
      <4> QED
        BY <1>0, <1>2, <2>1, <4>1, SingleTail DEF Handshake
    <3>3. ~Created(m.c)'
      BY <3>2 DEF For, Created
    <3>4. nfcc' = nfcc
      BY <1>9 DEF ProcConnCreateRsp
    <3>5. Incoming(m.c)'
      BY <1>2, <2>1, <3>1, <3>3, <3>4, FreeType DEF Received, Incoming, RxAlive
    <3> QED
      BY <1>4, <2>1, <2>6, <3>5, ReceivedHandled
  <2> QED
    BY <2>7, <2>8
<1>10. CASE ReportConnCloseEvt(m)
  <2>1. m.kind = "closed" /\ seen' = seen /\ nfcc' = nfcc /\ m.c \in Dyn /\ m.c # RF
    BY <1>0, <1>2, <1>10 DEF ReportConnCloseEvt, MessageOK
  <2>2. (\A d \in Conn \ {m.c} : conn'[d] = conn[d]) /\ conn'[m.c] = Free
    BY <1>0, <1>2, <1>10 DEF ReportConnCloseEvt
  <2>3. \A d \in Conn \ {m.c} : Incoming(d)'
    BY <1>1, <2>1, <2>2, IncomingHandled
  <2>4. ~Created(m.c)'
    <3>1. For(toHost, "closed", m.c)
      BY <1>2, <2>1 DEF For
    <3>2. conn[m.c].id = "open"
      BY <2>1, <3>1 DEF Handshake
    <3> QED
      BY <1>2, <3>2, OpenNotCreated, CreatedTail
  <2>5. Incoming(m.c)'
    BY <1>2, <2>1, <2>2, <2>4, FreeType DEF Received, Incoming, RxAlive
  <2> QED
    BY <1>4, <2>1, <2>3, <2>5, ReceivedHandled
<1> QED
  BY <1>3, <1>5, <1>6, <1>7, <1>8, <1>9, <1>10

\* Messages of the NFCC that are no data and open nothing.
LEMMA ReceivedGrown ==
  ASSUME TypeOK, Calm, Received, conn' = conn, nfc' = nfc, seen' = seen,
         nfcc'.sent = nfcc.sent, nfcc'.ends = nfcc.ends, nfcc'.open \subseteq nfcc.open,
         NEW n \in Nat, DOMAIN toHost = 1..n,
         \A i \in 1..n : i \in DOMAIN toHost' /\ toHost'[i] = toHost[i],
         \A i \in DOMAIN toHost' :
           \/ i \in 1..n
           \/ /\ toHost'[i].kind \in {"credits", "late", "deactivated", "closed"}
              /\ toHost'[i].kind = "closed" => toHost'[i].c \notin nfcc'.open,
         \A d \in Conn, k \in 0..n : DataBehind(d, k)' = DataBehind(d, k)
  PROVE  Received'
<1>0. /\ \A i \in DOMAIN toHost : i \in DOMAIN toHost' /\ toHost'[i] = toHost[i]
      /\ \A i \in DOMAIN toHost' : toHost'[i].kind \in {"created", "activated", "data"}
                                  => i \in DOMAIN toHost /\ toHost[i] = toHost'[i]
  <2>1. \A i \in DOMAIN toHost : i \in DOMAIN toHost' /\ toHost'[i] = toHost[i]
    OBVIOUS
  <2>2. ASSUME NEW i \in DOMAIN toHost',
               toHost'[i].kind \in {"created", "activated", "data"}
        PROVE  i \in DOMAIN toHost /\ toHost[i] = toHost'[i]
    <3>1. toHost'[i].kind \notin {"credits", "late", "deactivated", "closed"}
      BY <2>2
    <3>2. i \in 1..n
      BY <3>1
    <3> QED
      BY <3>2
  <2> QED
    BY <2>1, <2>2
<1>1. \A d \in Conn : Created(d)' <=> Created(d)
  <2> TAKE d \in Conn
  <2>1. ASSUME Created(d)
        PROVE  Created(d)'
    BY <1>0, <2>1 DEF Created
  <2>2. ASSUME Created(d)'
        PROVE  Created(d)
    <3>1. PICK i \in DOMAIN toHost' :
            toHost'[i].kind = "created" /\ toHost'[i].c = d /\ toHost'[i].flag
      BY <2>2 DEF Created
    <3>2. i \in DOMAIN toHost /\ toHost[i] = toHost'[i]
      BY <1>0, <3>1
    <3> QED
      BY <3>1, <3>2 DEF Created
  <2> QED
    BY <2>1, <2>2
<1>2. Owed("activated")' <=> Owed("activated")
  <2>1. ASSUME Owed("activated")
        PROVE  Owed("activated")'
    BY <1>0, <2>1 DEF Owed
  <2>2. ASSUME Owed("activated")'
        PROVE  Owed("activated")
    <3>1. PICK i \in DOMAIN toHost' : toHost'[i].kind = "activated"
      BY <2>2 DEF Owed
    <3>2. i \in DOMAIN toHost /\ toHost[i] = toHost'[i]
      BY <1>0, <3>1
    <3> QED
      BY <3>1, <3>2 DEF Owed
  <2> QED
    BY <2>1, <2>2
<1>3. ASSUME NEW d \in Conn
      PROVE  Incoming(d)'
  <2>1. 0 \in 0..n
    OBVIOUS
  <2>2. RxAlive(d)' => RxAlive(d)
    BY <1>1, <1>2 DEF RxAlive
  <2>3. DataBehind(d, 0)' = DataBehind(d, 0)
    BY <2>1
  <2> QED
    BY <2>2, <2>3, IncomingSame DEF Received
<1>4. nfcc.open \subseteq Conn
  BY DEF TypeOK, NfccState
<1>5. \A c \in nfcc'.open : c # RF /\ (conn'[c].id = "open" \/ Created(c)')
  BY <1>1, <1>4 DEF Received
<1>6. \A i \in DOMAIN toHost' : toHost'[i].kind = "closed" => toHost'[i].c \notin nfcc'.open
  BY DEF Received
<1>7. ASSUME NEW i \in DOMAIN toHost', NEW c \in Conn, DataAt(c, i)'
      PROVE  Arrival(c, i)'
  <2>1. i \in DOMAIN toHost /\ toHost[i] = toHost'[i] /\ DataAt(c, i)
    BY <1>0, <1>7 DEF DataAt
  <2>2. \A j \in 1..(i - 1) : toHost'[j] = toHost[j]
    BY <2>1
  <2>3. DataBehind(c, i)' = DataBehind(c, i)
    <3>1. i \in 0..n
      BY <2>1
    <3> QED
      BY <3>1
  <2>4. Arrival(c, i)
    BY <2>1 DEF Received
  <2> QED
    BY <2>1, <2>2, <2>3, <2>4 DEF Arrival
<1> QED
  BY <1>3, <1>5, <1>6, <1>7 DEF Received

\* One more message of the NFCC that is no data and opens nothing.
LEMMA ReceivedNews ==
  ASSUME TypeOK, Calm, Received, conn' = conn, nfc' = nfc, seen' = seen,
         nfcc'.sent = nfcc.sent, nfcc'.ends = nfcc.ends, nfcc'.open \subseteq nfcc.open,
         NEW e \in Message, toHost' = Append(toHost, e),
         e.kind \in {"credits", "late", "deactivated", "closed"},
         e.kind = "closed" => e.c \notin nfcc'.open
  PROVE  Received'
<1>0. toHost \in Seq(Message)
  BY DEF TypeOK
<1> DEFINE n == Len(toHost)
<1>1. /\ n \in Nat /\ DOMAIN toHost = 1..n /\ DOMAIN toHost' = 1..(n + 1)
      /\ \A i \in 1..n : toHost'[i] = toHost[i]
      /\ toHost'[n + 1] = e
  BY <1>0, AppendSeq
<1>2. \A d \in Conn, k \in 0..n : DataBehind(d, k)' = DataBehind(d, k)
  <2> TAKE d \in Conn, k \in 0..n
  <2>1. DataBehind(d, k) \in Nat /\ DataBehind(d, k)' = DataBehind(d, k) + 0
    BY BehindAppend
  <2> QED
    BY <2>1
<1> HIDE DEF n
<1>3. \A i \in 1..n : i \in DOMAIN toHost' /\ toHost'[i] = toHost[i]
  BY <1>1
<1>4. \A i \in DOMAIN toHost' : i \in 1..n \/ toHost'[i] = e
  BY <1>1
<1>5. \A i \in DOMAIN toHost' :
        \/ i \in 1..n
        \/ /\ toHost'[i].kind \in {"credits", "late", "deactivated", "closed"}
           /\ toHost'[i].kind = "closed" => toHost'[i].c \notin nfcc'.open
  <2> TAKE i \in DOMAIN toHost'
  <2>1. i \in 1..n \/ toHost'[i] = e
    BY <1>4
  <2> QED
    BY <2>1
<1> QED
  BY <1>1, <1>2, <1>3, <1>5, ReceivedGrown

\* The response to a deactivation and, when a link was up, its notification.
LEMMA ReceivedTwo ==
  ASSUME TypeOK, Calm, Received, conn' = conn, nfc' = nfc, seen' = seen,
         nfcc'.sent = nfcc.sent, nfcc'.ends = nfcc.ends, nfcc'.open \subseteq nfcc.open,
         toHost' = Append(Append(toHost, Rsp), Ntf)
  PROVE  Received'
<1> DEFINE n == Len(toHost)
           s == Append(toHost, Rsp)
<1>0. toHost \in Seq(Message) /\ s \in Seq(Message)
  BY Messages, AppendSeq DEF TypeOK
<1>1. /\ n \in Nat /\ DOMAIN toHost = 1..n /\ DOMAIN s = 1..(n + 1) /\ Len(s) = n + 1
      /\ \A i \in 1..n : s[i] = toHost[i]
      /\ s[n + 1] = Rsp
  BY <1>0, Messages, AppendSeq
<1>2. ASSUME NEW d \in Conn, NEW k \in 0..n
      PROVE  DataBehind(d, k)' = DataBehind(d, k)
  <2>1. k \in 0..Len(toHost) /\ k \in 0..Len(s) /\ k \in Nat
    BY <1>1
  <2>2. Count(s, "data", d, k) = Count(toHost, "data", d, k) + 0
    BY <1>0, <2>1, Messages, CountAppend
  <2>3. Count(toHost, "data", d, k) \in Nat
    BY <1>0, <2>1, CountFinite
  <2> HIDE DEF s
  <2>4. Count(Append(s, Ntf), "data", d, k) = Count(s, "data", d, k) + 0
    BY <1>0, <2>1, Messages, CountAppend
  <2>5. toHost' = Append(s, Ntf)
    BY DEF s
  <2> QED
    BY <2>2, <2>3, <2>4, <2>5 DEF DataBehind
<1> HIDE DEF s
<1>3. /\ DOMAIN toHost' = 1..(n + 2)
      /\ \A i \in 1..(n + 1) : toHost'[i] = s[i]
      /\ toHost'[n + 2] = Ntf
  <2>1. toHost' = Append(s, Ntf)
    BY DEF s
  <2> QED
    BY <1>0, <1>1, <2>1, Messages, AppendSeq
<1> HIDE DEF n
<1>4. \A i \in 1..n : i \in DOMAIN toHost' /\ toHost'[i] = toHost[i]
  BY <1>1, <1>3
<1>5. \A i \in DOMAIN toHost' : i \in 1..n \/ toHost'[i] \in {Rsp, Ntf}
  BY <1>1, <1>3
<1>6. \A i \in DOMAIN toHost' :
        \/ i \in 1..n
        \/ /\ toHost'[i].kind \in {"credits", "late", "deactivated", "closed"}
           /\ toHost'[i].kind = "closed" => toHost'[i].c \notin nfcc'.open
  <2> TAKE i \in DOMAIN toHost'
  <2>1. i \in 1..n \/ toHost'[i].kind = "deactivated"
    BY <1>5, Messages
  <2> QED
    BY <2>1
<1>7. \A d \in Conn, k \in 0..n : DataBehind(d, k)' = DataBehind(d, k)
  BY <1>2
<1> QED
  BY <1>1, <1>4, <1>6, <1>7, ReceivedGrown

\* Nothing waits for the connection of an answer that opens it, or for RF when a link comes
\* up: what it sends starts anew.
LEMMA ReceivedAnew ==
  ASSUME TypeOK, Calm, Received, NEW c \in Conn, NEW e \in Message, toHost' = Append(toHost, e),
         e.c = c, e.kind \in {"created", "activated"}, e.kind = "activated" <=> c = RF,
         ~For(toHost, "data", c), conn[c].rx = <<>>, conn' = conn, nfc' = nfc,
         seen'.garbled = seen.garbled, seen'.up[c] = 0,
         \A d \in Conn \ {c} : /\ seen'.up[d] = seen.up[d] /\ nfcc'.sent[d] = nfcc.sent[d]
                               /\ nfcc'.ends[d] = nfcc.ends[d],
         nfcc'.open = nfcc.open \/ (c # RF /\ e.flag /\ nfcc'.open = nfcc.open \cup {c}),
         ~For(toHost, "closed", c),
         \/ nfcc'.sent[c] = 0 /\ nfcc'.ends[c] = {}
         \/ /\ nfcc' = nfcc /\ ~RxAlive(c) /\ e.kind = "created" /\ ~e.flag
  PROVE  Received'
<1>0. toHost \in Seq(Message) /\ nfcc.open \subseteq Conn
  BY DEF TypeOK, NfccState
<1> DEFINE n == Len(toHost)
<1>1. /\ n \in Nat /\ DOMAIN toHost = 1..n /\ DOMAIN toHost' = 1..(n + 1)
      /\ \A i \in 1..n : toHost'[i] = toHost[i]
      /\ toHost'[n + 1] = e
  BY <1>0, AppendSeq
<1>2. ASSUME NEW d \in Conn, NEW k \in 0..n
      PROVE  DataBehind(d, k)' = DataBehind(d, k) /\ DataBehind(d, k) \in Nat
  <2>1. DataBehind(d, k) \in Nat /\ DataBehind(d, k)' = DataBehind(d, k) + 0
    BY BehindAppend
  <2> QED
    BY <2>1
<1>3. \A d \in Conn : Created(d)' <=> Created(d) \/ (d = c /\ e.kind = "created" /\ e.flag)
  BY CreatedAppend
<1>4. Owed("activated")' <=> Owed("activated") \/ e.kind = "activated"
  BY <1>0, HasAppend, OwedHas
<1>5. ASSUME NEW d \in Conn \ {c}
      PROVE  Incoming(d)'
  <2>1. 0 \in 0..n
    BY <1>1
  <2>2. RxAlive(d)' => RxAlive(d)
    BY <1>3, <1>4 DEF RxAlive
  <2> QED
    BY <1>2, <2>1, <2>2, IncomingSame DEF Received
<1>6. Incoming(c)'
  <2>1. 0 \in 0..n
    BY <1>1
  <2>2. DataBehind(c, 0)' = 0
    BY <1>2, <2>1, BehindNone DEF DataBehind
  <2>3. CASE nfcc'.sent[c] = 0 /\ nfcc'.ends[c] = {}
    <3>1. Chain(c)'
      BY <2>2, <2>3 DEF Chain, Queue, End
    <3> QED
      BY <2>3, <3>1 DEF Incoming
  <2>4. CASE nfcc' = nfcc /\ ~RxAlive(c) /\ e.kind = "created" /\ ~e.flag
    <3>1. ~RxAlive(c)'
      BY <1>3, <1>4, <2>4 DEF RxAlive
    <3> QED
      BY <2>4, <3>1 DEF Received, Incoming
  <2> QED
    BY <2>3, <2>4
<1>7. \A d \in nfcc'.open : d # RF /\ (conn'[d].id = "open" \/ Created(d)')
  BY <1>0, <1>3 DEF Received
<1>8. \A i \in DOMAIN toHost' : toHost'[i].kind = "closed" => toHost'[i].c \notin nfcc'.open
  BY <1>1 DEF Received, For
<1>9. ASSUME NEW i \in DOMAIN toHost', NEW d \in Conn, DataAt(d, i)'
      PROVE  Arrival(d, i)'
  <2>1. i \in 1..n /\ DataAt(d, i) /\ i \in DOMAIN toHost
    BY <1>1, <1>9 DEF DataAt
  <2>2. d # c
    BY <2>1 DEF DataAt, For
  <2>3. nfcc'.sent[d] = nfcc.sent[d] + 0
    BY <2>2 DEF TypeOK, NfccState
  <2> QED
    BY <2>1, <2>2, <2>3, ArrivalAppend DEF Received
<1> QED
  BY <1>5, <1>6, <1>7, <1>8, <1>9 DEF Received

\* The NFCC sends the next data packet on a connection that is there.
LEMMA ReceivedSent ==
  ASSUME TypeOK, Calm, Handshake, LinkOrder, Received, NEW c \in Conn, NEW more \in BOOLEAN,
         SendToHost(c, more)
  PROVE  Received'
<1>a. PICK n : n = Len(toHost)
  OBVIOUS
<1>b. PICK s : s = nfcc.sent[c] + 1
  OBVIOUS
<1> DEFINE e == Msg("data", c, s, more)
<1>0. toHost \in Seq(Message) /\ nfcc \in NfccState /\ nfcc.sent[c] \in Nat /\ s \in Nat
  BY <1>b DEF TypeOK, NfccState
<1>1. e \in Message /\ e.kind = "data" /\ e.c = c /\ e.n = s /\ e.flag = more
  <2>1. e \in Message
    BY <1>0, MsgType
  <2> QED
    BY <2>1 DEF Msg
<1>2. /\ toHost' = Append(toHost, e) /\ conn' = conn /\ nfc' = nfc /\ seen' = seen
      /\ IF c = RF THEN nfcc.mode = "active" ELSE c \in nfcc.open
  BY <1>b DEF SendToHost, ToHost
<1> HIDE DEF e
<1>3. /\ nfcc'.sent[c] = s /\ nfcc'.open = nfcc.open
      /\ nfcc'.ends[c] = IF more THEN nfcc.ends[c] ELSE nfcc.ends[c] \cup {s}
      /\ \A d \in Conn \ {c} : nfcc'.sent[d] = nfcc.sent[d] /\ nfcc'.ends[d] = nfcc.ends[d]
  <2> DEFINE new == IF more THEN nfcc.ends[c] ELSE nfcc.ends[c] \cup {s}
  <2>1. nfcc' = [nfcc EXCEPT !.sent[c] = s, !.ends[c] = new]
    BY <1>b DEF SendToHost
  <2> HIDE DEF new
  <2>2. /\ nfcc'.sent[c] = s /\ nfcc'.open = nfcc.open /\ nfcc'.ends[c] = new
        /\ \A d \in Conn \ {c} : nfcc'.sent[d] = nfcc.sent[d] /\ nfcc'.ends[d] = nfcc.ends[d]
    BY <1>0, <2>1 DEF NfccState
  <2> QED
    BY <2>2 DEF new
<1>4. /\ n \in Nat /\ DOMAIN toHost = 1..n /\ DOMAIN toHost' = 1..(n + 1)
      /\ \A i \in 1..n : toHost'[i] = toHost[i]
      /\ toHost'[n + 1] = e
  BY <1>a, <1>0, <1>1, <1>2, AppendSeq
<1>5. ASSUME NEW d \in Conn, NEW k \in 0..n
      PROVE  /\ DataBehind(d, k) \in Nat
             /\ DataBehind(d, k)' = DataBehind(d, k) + IF d = c THEN 1 ELSE 0
  BY <1>a, <1>1, <1>2, BehindAppend
<1>6. \A d \in Conn : Created(d)' <=> Created(d)
  BY <1>1, <1>2, CreatedAppend
<1>7. Owed("activated")' <=> Owed("activated")
  BY <1>0, <1>1, <1>2, HasAppend, OwedHas
<1>8. \A d \in Conn : RxAlive(d)' <=> RxAlive(d)
  BY <1>2, <1>6, <1>7 DEF RxAlive
<1>9. 0 \in 0..n
  BY <1>4
<1>10. ASSUME NEW d \in Conn \ {c}
       PROVE  Incoming(d)'
  <2>1. DataBehind(d, 0)' = DataBehind(d, 0)
    BY <1>5, <1>9
  <2> QED
    BY <1>2, <1>3, <1>8, <2>1, IncomingSame DEF Received
<1>11. (\A k \in nfcc.ends[c] : k \in Nat /\ k <= nfcc.sent[c]) /\ s \notin nfcc.ends[c]
  BY <1>0, <1>b DEF Received, Incoming, NfccState
<1>12. Incoming(c)'
  <2>1. \A k \in nfcc'.ends[c] : k <= nfcc'.sent[c]
    BY <1>0, <1>b, <1>3, <1>11
  <2>2. ASSUME Chain(c)
        PROVE  Chain(c)'
    <3>1. conn[c].rx \in Seq(Buffer)
      BY DEF TypeOK, Block
    <3>2. \A i \in 1..Len(conn[c].rx) : conn[c].rx[i] \in Buffer
      BY <3>1
    <3>3. ASSUME NEW b \in Buffer, GoodBuffer(b, nfcc.ends[c], nfcc.sent[c])
          PROVE  GoodBuffer(b, nfcc'.ends[c], nfcc'.sent[c])
      <4>1. b.from \in Nat /\ b.to \in Nat
        BY DEF Buffer
      <4>2. b.to <= nfcc.sent[c] /\ b.to # s /\ \A i \in b.from..(b.to - 1) : i # s
        BY <1>0, <1>b, <3>3, <4>1 DEF GoodBuffer
      <4> QED
        <5>1. b.from <= b.to /\ b.to <= nfcc'.sent[c]
          BY <1>0, <1>b, <1>3, <3>3, <4>1, <4>2 DEF GoodBuffer
        <5>2. b.more <=> b.to \notin nfcc'.ends[c]
          BY <1>3, <3>3, <4>2 DEF GoodBuffer
        <5>3. \A i \in b.from..(b.to - 1) : i \notin nfcc'.ends[c]
          BY <1>3, <3>3, <4>2 DEF GoodBuffer
        <5> QED
          BY <5>1, <5>2, <5>3 DEF GoodBuffer
    <3>4. Queue(conn'[c].rx, seen'.up[c], nfcc'.ends[c], nfcc'.sent[c])
      BY <1>2, <2>2, <3>2, <3>3 DEF Chain, Queue
    <3>5. DataBehind(c, 0)' = DataBehind(c, 0) + 1 /\ DataBehind(c, 0) \in Nat
      BY <1>5, <1>9
    <3>6. End(conn[c].rx, seen.up[c]) \in Nat
      <4>1. conn[c].rx # <<>> => conn[c].rx[Len(conn[c].rx)] \in Buffer
        BY <3>1, LastFront
      <4> QED
        BY <4>1 DEF End, Buffer, TypeOK, History
    <3>7. End(conn'[c].rx, seen'.up[c]) + DataBehind(c, 0)' = nfcc'.sent[c]
      BY <1>b, <1>0, <1>2, <1>3, <2>2, <3>5, <3>6 DEF Chain
    <3> QED
      BY <3>4, <3>7 DEF Chain
  <2> QED
    BY <1>2, <1>8, <2>1, <2>2 DEF Received, Incoming
<1>13. \A d \in nfcc'.open : d # RF /\ (conn'[d].id = "open" \/ Created(d)')
  BY <1>0, <1>2, <1>3, <1>6 DEF Received, NfccState
<1>14. \A i \in DOMAIN toHost' : toHost'[i].kind = "closed" => toHost'[i].c \notin nfcc'.open
  BY <1>1, <1>3, <1>4 DEF Received
<1>15. Arrival(c, n + 1)'
  <2>1. DataBehind(c, n + 1)' = 0
    <3>1. \A i \in DOMAIN toHost' : ~(i > n + 1)
      BY <1>4
    <3> QED
      BY <3>1, BehindNone DEF DataBehind
  <2>2. toHost'[n + 1].n + DataBehind(c, n + 1)' = nfcc'.sent[c]
    BY <1>0, <1>b, <1>1, <1>3, <1>4, <2>1
  <2>3. toHost'[n + 1].flag <=> toHost'[n + 1].n \notin nfcc'.ends[c]
    BY <1>1, <1>3, <1>4, <1>11
  <2>4. (n + 1) - 1 = n
    BY <1>4
  <2>5. c = RF /\ nfc'.st = "IDLE" => \E j \in 1..n : toHost'[j].kind = "activated"
    BY <1>2, <1>4 DEF LinkOrder, Owed
  <2>6. c # RF /\ conn'[c].id # "open" =>
          \E j \in 1..n : toHost'[j].kind = "created" /\ toHost'[j].c = c /\ toHost'[j].flag
    BY <1>2, <1>4 DEF Received, Created
  <2>7. \A j \in 1..n : /\ c = RF => toHost'[j].kind # "deactivated"
                        /\ ~(toHost'[j].kind = "closed" /\ toHost'[j].c = c)
    <3>1. c = RF => \A j \in 1..n : toHost'[j].kind # "deactivated"
      BY <1>2, <1>4 DEF LinkOrder, Owed
    <3>2. c = RF => \A j \in 1..n : ~(toHost'[j].kind = "closed" /\ toHost'[j].c = c)
      <4>1. ASSUME c = RF, NEW j \in 1..n, toHost[j].kind = "closed", toHost[j].c = c
            PROVE  FALSE
        BY <1>4, <4>1, ConnAssumption DEF Handshake, MessageOK
      <4> QED
        BY <1>4, <4>1
    <3>3. c # RF => \A j \in 1..n : ~(toHost'[j].kind = "closed" /\ toHost'[j].c = c)
      BY <1>2, <1>4 DEF Received
    <3> QED
      BY <3>1, <3>2, <3>3
  <2>8. 1..((n + 1) - 1) = 1..n
    BY <2>4
  <2> QED
    BY <2>2, <2>3, <2>5, <2>6, <2>7, <2>8, Zenon DEF Arrival
<1>16. ASSUME NEW i \in DOMAIN toHost', NEW d \in Conn, DataAt(d, i)'
       PROVE  Arrival(d, i)'
  <2>1. CASE i = n + 1
    <3>1. d = c
      <4>1. toHost'[i].c = d
        BY <1>16 DEF DataAt
      <4> QED
        BY <1>1, <1>4, <2>1, <4>1
    <3> QED
      BY <1>15, <2>1, <3>1
  <2>2. CASE i # n + 1
    <3>1. i \in 1..n /\ DataAt(d, i) /\ i \in DOMAIN toHost /\ toHost[i] \in Message
      BY <1>0, <1>4, <1>16, <2>2 DEF DataAt
    <3>2. Arrival(d, i)
      BY <3>1 DEF Received
    <3>3. nfcc'.sent[d] = nfcc.sent[d] + IF e.kind = "data" /\ e.c = d THEN 1 ELSE 0
      BY <1>0, <1>b, <1>1, <1>3 DEF NfccState
    <3>4. toHost[i].n \notin nfcc.ends[d] <=> toHost[i].n \notin nfcc'.ends[d]
      <4>1. d = c => toHost[i].n # s
        <5>1. DataBehind(d, i) \in Nat /\ toHost[i].n \in Nat
          <6>1. i \in 0..n
            BY <3>1
          <6> QED
            BY <1>5, <3>1, <6>1 DEF Message
        <5> QED
          BY <1>0, <1>b, <3>2, <5>1 DEF Arrival
      <4> QED
        BY <1>3, <4>1
    <3> QED
      BY <1>a, <1>1, <1>2, <3>1, <3>2, <3>3, <3>4, ArrivalAppend
  <2> QED
    BY <2>1, <2>2
<1> QED
  BY <1>2, <1>10, <1>12, <1>13, <1>14, <1>16 DEF Received

\* What the NFCC does on its own, and its answers.
LEMMA ReceivedActivate ==
  ASSUME TypeOK, Calm, Handshake, LinkOrder, Received, NEW dep \in BOOLEAN, Activate(dep)
  PROVE  Received'
<1> DEFINE e == Msg("activated", RF, Credits, dep)
<1>0. /\ RF \in Conn /\ nfcc \in NfccState /\ seen \in History /\ RF \notin Dyn
      /\ toHost \in Seq(Message)
  BY ConnAssumption DEF Conn, TypeOK
<1>1. e \in Message /\ e.kind = "activated" /\ e.c = RF
  BY Messages DEF Msg
<1>2. /\ toHost' = Append(toHost, e) /\ conn' = conn /\ nfc' = nfc
      /\ nfcc.mode # "active" /\ ~Owed("deactivated")
  BY DEF Activate, ToHost
<1> HIDE DEF e
<1>3. nfc.st = "IDLE" /\ ~Owed("activated")
  BY <1>2 DEF LinkOrder
<1>4. conn[RF].rx = <<>>
  BY <1>0, <1>3 DEF Received, Incoming
<1>5. ~For(toHost, "data", RF)
  <2>1. ASSUME NEW i \in DOMAIN toHost, toHost[i].kind = "data", toHost[i].c = RF
        PROVE  FALSE
    <3>1. Arrival(RF, i)
      BY <1>0, <2>1 DEF Received, DataAt
    <3>2. PICK j \in 1..(i - 1) : toHost[j].kind = "activated"
      BY <1>3, <3>1 DEF Arrival
    <3>3. j \in DOMAIN toHost
      BY <1>0
    <3> QED
      BY <1>3, <3>2, <3>3 DEF Owed
  <2> QED
    BY <2>1 DEF For
<1>6. ~For(toHost, "closed", RF)
  BY <1>0 DEF Handshake, MessageOK, For
<1>7. /\ nfcc'.sent[RF] = 0 /\ nfcc'.ends[RF] = {} /\ nfcc'.open = nfcc.open
      /\ \A d \in Conn \ {RF} : nfcc'.sent[d] = nfcc.sent[d] /\ nfcc'.ends[d] = nfcc.ends[d]
  BY <1>0 DEF Activate, NfccState
<1>8. /\ seen'.garbled = seen.garbled /\ seen'.up[RF] = 0
      /\ \A d \in Conn \ {RF} : seen'.up[d] = seen.up[d]
  BY <1>0 DEF Activate, History
<1> QED
  BY <1>0, <1>1, <1>2, <1>4, <1>5, <1>6, <1>7, <1>8, ReceivedAnew

\* The answers to commands keep it.
LEMMA ReceivedAnswer ==
  ASSUME TypeOK, Calm, Handshake, LinkOrder, Received, Answer
  PROVE  Received'
<1>0. /\ nfcc \in NfccState /\ RF \in Conn /\ toHost \in Seq(Message) /\ toNfcc \in Seq(Cmd)
      /\ seen \in History
  BY DEF TypeOK, Conn
<1>1. PICK m \in Cmd : toNfcc # <<>> /\ m = Head(toNfcc) /\ AnswerOutcome(m) /\ conn' = conn
                       /\ nfc' = nfc /\ m.c \in Conn /\ CommandOK(m) /\ m = toNfcc[1]
                       /\ 1 \in DOMAIN toNfcc
  <2>1. toNfcc # <<>> /\ AnswerOutcome(Head(toNfcc)) /\ conn' = conn /\ nfc' = nfc
    BY <1>0, AnswerCases
  <2>2. Head(toNfcc) \in Cmd /\ Head(toNfcc) = toNfcc[1] /\ 1 \in DOMAIN toNfcc
    BY <1>0, <2>1, TailSeq
  <2> QED
    BY <2>1, <2>2 DEF Cmd, Handshake
<1>2. CASE m.kind = "deactivate"
  <2>1. /\ seen' = seen
        /\ toHost' = IF nfcc.mode = "active" THEN Append(Append(toHost, Rsp), Ntf)
                     ELSE Append(toHost, Rsp)
        /\ nfcc'.sent = nfcc.sent /\ nfcc'.ends = nfcc.ends /\ nfcc'.open = nfcc.open
    BY <1>0, <1>1, <1>2 DEF AnswerOutcome, NfccState
  <2>2. CASE nfcc.mode # "active"
    BY <1>1, <2>1, <2>2, Messages, ReceivedNews
  <2>3. CASE nfcc.mode = "active"
    BY <1>1, <2>1, <2>3, ReceivedTwo
  <2> QED
    BY <2>2, <2>3
<1>3. CASE m.kind = "create"
  <2>1. m.c \in Dyn /\ m.c # RF /\ For(toNfcc, "create", m.c)
    BY <1>1, <1>3, ConnAssumption DEF CommandOK, For
  <2>2. /\ conn[m.c].id = "pending" /\ ~For(toHost, "created", m.c)
        /\ ~For(toHost, "closed", m.c)
    BY <2>1 DEF Handshake
  <2>3. conn[m.c].rx = <<>>
    BY <1>1, <2>2 DEF Received, Incoming
  <2>4. ~Created(m.c)
    BY <2>2 DEF Created, For
  <2>5. ~For(toHost, "data", m.c)
    <3>1. ASSUME NEW i \in DOMAIN toHost, toHost[i].kind = "data", toHost[i].c = m.c
          PROVE  FALSE
      <4>1. Arrival(m.c, i)
        BY <1>1, <3>1 DEF Received, DataAt
      <4>2. PICK j \in 1..(i - 1) : toHost[j].kind = "created" /\ toHost[j].c = m.c
        BY <2>1, <2>2, <4>1 DEF Arrival
      <4>3. j \in DOMAIN toHost
        BY <1>0
      <4> QED
        BY <2>2, <4>2, <4>3 DEF For
    <3> QED
      BY <3>1 DEF For
  <2>6. /\ seen'.garbled = seen.garbled /\ seen'.up[m.c] = 0
        /\ \A d \in Conn \ {m.c} : seen'.up[d] = seen.up[d]
    <3>1. seen' = [seen EXCEPT !.part[m.c] = 0, !.up[m.c] = 0, !.flushed = @ \ {m.c}]
      BY <1>1, <1>3 DEF AnswerOutcome
    <3> QED
      BY <1>0, <1>1, <3>1 DEF History
  <2>7. CASE nfcc' = nfcc /\ toHost' = Append(toHost, Msg("created", m.c, 0, FALSE))
    <3> DEFINE e == Msg("created", m.c, 0, FALSE)
    <3>1. e \in Message /\ e.kind = "created" /\ ~e.flag /\ e.c = m.c
      BY <1>1, Messages DEF Msg
    <3>2. toHost' = Append(toHost, e)
      BY <2>7
    <3> HIDE DEF e
    <3>3. ~RxAlive(m.c)
      BY <2>1, <2>2, <2>4 DEF RxAlive
    <3> QED
      BY <1>1, <2>1, <2>2, <2>3, <2>5, <2>6, <2>7, <3>1, <3>2, <3>3, ReceivedAnew
  <2>8. CASE /\ nfcc' = [nfcc EXCEPT !.open = @ \cup {m.c}, !.held[m.c] = 0,
                                     !.sent[m.c] = 0, !.ends[m.c] = {}]
             /\ \E n \in {Credits, NoFC} : toHost' = Append(toHost, Msg("created", m.c, n, TRUE))
    <3>1. PICK e \in Message : /\ e.kind = "created" /\ e.c = m.c /\ e.flag
                               /\ toHost' = Append(toHost, e)
      BY <1>1, <2>8, Messages DEF Msg
    <3>2. /\ nfcc'.sent[m.c] = 0 /\ nfcc'.ends[m.c] = {}
          /\ nfcc'.open = nfcc.open \cup {m.c}
          /\ \A d \in Conn \ {m.c} : nfcc'.sent[d] = nfcc.sent[d]
                                     /\ nfcc'.ends[d] = nfcc.ends[d]
      BY <1>0, <1>1, <2>8 DEF NfccState
    <3> QED
      BY <1>1, <2>1, <2>2, <2>3, <2>5, <2>6, <3>1, <3>2, ReceivedAnew
  <2> QED
    BY <1>1, <1>3, <2>7, <2>8 DEF AnswerOutcome
<1>4. CASE m.kind = "close"
  <2> DEFINE e == Msg("closed", m.c, 0, FALSE)
  <2>1. e \in Message /\ e.kind = "closed" /\ e.c = m.c
    BY <1>1, Messages DEF Msg
  <2>2. toHost' = Append(toHost, e) /\ seen' = seen
    BY <1>1, <1>4 DEF AnswerOutcome
  <2> HIDE DEF e
  <2>3. /\ nfcc'.sent = nfcc.sent /\ nfcc'.ends = nfcc.ends
        /\ nfcc'.open = nfcc.open \ {m.c}
    BY <1>0, <1>1, <1>4 DEF AnswerOutcome, NfccState
  <2> QED
    BY <1>1, <2>1, <2>2, <2>3, ReceivedNews
<1> QED
  BY <1>1, <1>2, <1>3, <1>4 DEF Cmd

\* The steps of the NFCC keep it.
LEMMA ReceivedNfcc ==
  ASSUME TypeOK, Calm, Handshake, LinkOrder, Received, NfccNext,
         ~NfccReset
  PROVE  Received'
<1>0. nfcc \in NfccState
  BY DEF TypeOK
<1>1. ASSUME NEW c \in Conn, ReturnCredit(c)
      PROVE  Received'
  <2> DEFINE e == Msg("credits", c, 1, FALSE)
  <2>1. e \in Message /\ e.kind = "credits"
    BY Messages DEF Msg
  <2>2. toHost' = Append(toHost, e) /\ conn' = conn /\ nfc' = nfc /\ seen' = seen
    BY <1>1 DEF ReturnCredit, ToHost
  <2> HIDE DEF e
  <2>3. nfcc'.sent = nfcc.sent /\ nfcc'.ends = nfcc.ends /\ nfcc'.open = nfcc.open
    BY <1>0, <1>1 DEF ReturnCredit, NfccState
  <2> QED
    BY <2>1, <2>2, <2>3, ReceivedNews
<1>2. ASSUME LinkLost
      PROVE  Received'
  <2>1. toHost' = Append(toHost, Ntf) /\ conn' = conn /\ nfc' = nfc /\ seen' = seen
    BY <1>2 DEF LinkLost, ToHost, Ntf
  <2>2. nfcc'.sent = nfcc.sent /\ nfcc'.ends = nfcc.ends /\ nfcc'.open = nfcc.open
    BY <1>0, <1>2 DEF LinkLost, NfccState
  <2> QED
    BY <2>1, <2>2, Messages, ReceivedNews
<1>3. ASSUME ReturnLate
      PROVE  Received'
  <2> DEFINE e == Msg("late", RF, 1, FALSE)
  <2>1. e \in Message /\ e.kind = "late"
    BY Messages DEF Msg
  <2>2. toHost' = Append(toHost, e) /\ conn' = conn /\ nfc' = nfc /\ seen' = seen
    BY <1>3 DEF ReturnLate, ToHost
  <2> HIDE DEF e
  <2>3. nfcc'.sent = nfcc.sent /\ nfcc'.ends = nfcc.ends /\ nfcc'.open = nfcc.open
    BY <1>0, <1>3 DEF ReturnLate, NfccState
  <2> QED
    BY <2>1, <2>2, <2>3, ReceivedNews
<1> QED
  BY <1>1, <1>2, <1>3, ReceivedSent, ReceivedActivate, ReceivedAnswer DEF NfccNext

\* What a step that leaves the mailbox alone has to keep.
LEMMA ReceivedKept ==
  ASSUME TypeOK, Calm, Received, toHost' = toHost,
         nfcc'.sent = nfcc.sent, nfcc'.ends = nfcc.ends, nfcc'.open = nfcc.open,
         nfc'.st = "IDLE" => nfc.st = "IDLE",
         \A d \in Conn : conn'[d].id = "open" <=> conn[d].id = "open",
         ~seen'.garbled, \A d \in Conn : Incoming(d)'
  PROVE  Received'
<1>1. \A d \in Conn : Created(d)' <=> Created(d)
  BY DEF Created
<1>2. nfcc.open \subseteq Conn
  BY DEF TypeOK, NfccState
<1>3. ASSUME NEW i \in DOMAIN toHost', NEW d \in Conn, DataAt(d, i)'
      PROVE  Arrival(d, i)'
  <2>1. Arrival(d, i) /\ DataBehind(d, i)' = DataBehind(d, i)
    BY <1>3 DEF Received, DataAt, DataBehind
  <2> QED
    BY <2>1 DEF Arrival
<1> QED
  BY <1>1, <1>2, <1>3 DEF Received

\* A step that neither the mailbox nor the received buffers feel.
LEMMA ReceivedQuiet ==
  ASSUME TypeOK, Calm, Received, toHost' = toHost,
         nfcc'.sent = nfcc.sent, nfcc'.ends = nfcc.ends, nfcc'.open = nfcc.open,
         nfc'.st = "IDLE" <=> nfc.st = "IDLE",
         \A d \in Conn : /\ conn'[d].rx = conn[d].rx
                         /\ conn'[d].id = "open" <=> conn[d].id = "open",
         seen'.up = seen.up, seen'.garbled = seen.garbled
  PROVE  Received'
<1>1. \A d \in Conn : (Created(d)' <=> Created(d)) /\ (RxAlive(d)' <=> RxAlive(d))
  BY DEF Created, RxAlive, Owed
<1>2. \A d \in Conn : DataBehind(d, 0)' = DataBehind(d, 0)
  BY DEF DataBehind
<1>3. \A d \in Conn : Incoming(d)'
  <2> TAKE d \in Conn
  <2>1. Incoming(d)
    BY DEF Received
  <2> QED
    BY <1>1, <1>2, <2>1, IncomingSame
<1>4. ~seen'.garbled
  BY DEF Received
<1> QED
  BY <1>3, <1>4, ReceivedKept

\* NFC_SetStaticRfCback: what waits on RF is reported as it came.
LEMMA ReceivedCback ==
  ASSUME TypeOK, Calm, Ledger, Received, NEW set \in BOOLEAN, NFC_SetStaticRfCback(set)
  PROVE  Received'
<1> DEFINE cb == [conn[RF] EXCEPT !.cb = set]
           empty == <<>>
<1>0. RF \in Conn /\ conn[RF] \in Block /\ conn[RF].id = "open"
  BY DEF Conn, TypeOK, Ledger
<1>1. /\ cb \in Block /\ cb.rx = conn[RF].rx /\ cb.id = conn[RF].id
      /\ cb.rx \in Seq(Buffer)
  BY <1>0 DEF Block
<1>2. /\ DataEvent(RF, cb, nfc.reassembly, empty)
      /\ toHost' = toHost /\ nfcc' = nfcc
  BY DEF NFC_SetStaticRfCback
<1>3. cb.rx \o empty = cb.rx /\ empty \in Seq(Buffer)
  BY <1>1, ConcatEmptySeq
<1> HIDE DEF cb, empty
<1>4. /\ \A d \in Conn \ {RF} : conn'[d] = conn[d] /\ seen'.up[d] = seen.up[d]
      /\ conn'[RF].id = conn[RF].id /\ nfc'.st = nfc.st
  BY <1>0, <1>1, <1>2, DataEventEffect
<1>5. \A d \in Conn : (Created(d)' <=> Created(d)) /\ (RxAlive(d)' <=> RxAlive(d))
  BY <1>2, <1>4 DEF Created, RxAlive, Owed
<1>6. \A d \in Conn : DataBehind(d, 0)' = DataBehind(d, 0)
  BY <1>2 DEF DataBehind
<1>7. \A d \in Conn \ {RF} : Incoming(d)'
  <2> TAKE d \in Conn \ {RF}
  <2>1. Incoming(d)
    BY DEF Received
  <2> QED
    BY <1>2, <1>4, <1>5, <1>6, <2>1, IncomingSame
<1>8. Incoming(RF) /\ ~seen.garbled
  BY <1>0 DEF Received
<1>9. Queue(cb.rx, seen.up[RF], nfcc.ends[RF], nfcc.sent[RF])
  <2>1. CASE RxAlive(RF)
    BY <1>1, <1>8, <2>1 DEF Incoming, Chain
  <2>2. CASE ~RxAlive(RF)
    <3>1. cb.rx = <<>>
      BY <1>0, <1>1, <1>8, <2>2 DEF Incoming, RxAlive
    <3> QED
      BY <3>1 DEF Queue
  <2> QED
    BY <2>1, <2>2
<1>10. /\ ~seen'.garbled
       /\ Queue(conn'[RF].rx, seen'.up[RF], nfcc.ends[RF], nfcc.sent[RF])
       /\ End(conn'[RF].rx, seen'.up[RF]) = End(cb.rx, seen.up[RF])
       /\ conn'[RF].rx # <<>> => cb.rx # <<>>
  <2>1. Queue(cb.rx \o empty, seen.up[RF], nfcc.ends[RF], nfcc.sent[RF])
    BY <1>3, <1>9
  <2>2. /\ ~seen'.garbled
        /\ Queue(conn'[RF].rx, seen'.up[RF], nfcc.ends[RF], nfcc.sent[RF])
        /\ End(conn'[RF].rx, seen'.up[RF]) = End(cb.rx \o empty, seen.up[RF])
        /\ conn'[RF].rx # <<>> => cb.rx \o empty # <<>>
    BY <1>0, <1>1, <1>2, <1>3, <1>8, <2>1, DataEventRight
  <2> QED
    BY <1>3, <2>2
<1>11. RxAlive(RF)' => Chain(RF)'
  <2>1. RxAlive(RF)' => RxAlive(RF)
    BY <1>0, <1>5
  <2> QED
    BY <1>1, <1>2, <1>0, <1>6, <1>8, <1>10, <2>1 DEF Chain, Incoming
<1>12. Incoming(RF)'
  BY <1>0, <1>1, <1>2, <1>4, <1>8, <1>10, <1>11 DEF Incoming
<1>13. \A d \in Conn : Incoming(d)'
  BY <1>7, <1>12
<1>14. \A d \in Conn : conn'[d].id = conn[d].id
  BY <1>4
<1> QED
  BY <1>2, <1>4, <1>10, <1>13, <1>14, ReceivedKept

\* The calls and the timer keep it.
LEMMA ReceivedApi ==
  ASSUME TypeOK, Calm, Handshake, Ledger, Received, ApiNext \/ WaitToDeactivateTimeout
  PROVE  Received'
<1>0. /\ toHost' = toHost
      /\ nfcc'.sent = nfcc.sent /\ nfcc'.ends = nfcc.ends /\ nfcc'.open = nfcc.open
      /\ nfc'.st = "IDLE" <=> nfc.st = "IDLE"
  BY QuietEffect
<1>1. ASSUME NEW c \in Conn, NEW n \in 1..lim.frag, NFC_SendData(c, n)
      PROVE  Received'
  <2>1. PICK k \in SendCounts(Queued(c, n)) : Transmit(c, Queued(c, n), k)
    BY <1>1, SendDataEffect
  <2>2. /\ Queued(c, n) \in Block /\ Queued(c, n).id = conn[c].id
        /\ Queued(c, n).rx = conn[c].rx
    BY <1>1, SendDataEffect
  <2>3. /\ \A d \in Conn : conn'[d].rx = conn[d].rx /\ conn'[d].id = conn[d].id
        /\ seen'.up = seen.up /\ seen'.garbled = seen.garbled
    BY <2>1, <2>2, TransmitEffect
  <2> QED
    BY <1>0, <2>3, ReceivedQuiet
<1>2. ASSUME NEW c \in Conn, NFC_FlushData(c)
      PROVE  Received'
  <2>1. /\ \A d \in Conn : conn'[d].rx = conn[d].rx /\ conn'[d].id = conn[d].id
        /\ seen'.up = seen.up /\ seen'.garbled = seen.garbled
    <3>1. conn' = [conn EXCEPT ![c].tx = <<>>]
          /\ seen' = [seen EXCEPT !.flushed = @ \cup {c}]
      BY <1>2 DEF NFC_FlushData
    <3>2. conn \in [Conn -> Block] /\ seen \in History
      BY DEF TypeOK
    <3>3. \A d \in Conn : conn'[d].rx = conn[d].rx /\ conn'[d].id = conn[d].id
      BY <3>1, <3>2 DEF Block
    <3>4. seen'.up = seen.up /\ seen'.garbled = seen.garbled
      BY <3>1, <3>2 DEF History
    <3> QED
      BY <3>3, <3>4
  <2> QED
    BY <1>0, <2>1, ReceivedQuiet
<1>3. ASSUME NEW set \in BOOLEAN, NFC_SetReassemblyFlag(set)
      PROVE  Received'
  BY <1>0, <1>3, ReceivedQuiet DEF NFC_SetReassemblyFlag
<1>4. ASSUME NEW c \in Dyn, NFC_ConnCreate(c)
      PROVE  Received'
  <2>1. c \in Conn /\ conn[c].id = "illegal" /\ seen' = seen
        /\ conn' = [conn EXCEPT ![c] = [Free EXCEPT !.id = "pending", !.cb = TRUE]]
    BY <1>4 DEF NFC_ConnCreate, Conn
  <2>2. conn[c].rx = <<>>
    BY <2>1 DEF Received, Incoming
  <2>3. conn'[c].rx = <<>> /\ conn'[c].id = "pending"
    BY <2>1 DEF TypeOK, Free
  <2>4. \A d \in Conn \ {c} : conn'[d] = conn[d]
    BY <2>1 DEF TypeOK
  <2>5. \A d \in Conn : /\ conn'[d].rx = conn[d].rx
                        /\ conn'[d].id = "open" <=> conn[d].id = "open"
    BY <2>1, <2>2, <2>3, <2>4
  <2> QED
    BY <1>0, <2>1, <2>5, ReceivedQuiet
<1>5. ASSUME NEW c \in Dyn, NFC_ConnClose(c)
      PROVE  Received'
  BY <1>0, <1>5, ReceivedQuiet DEF NFC_ConnClose
<1>6. ASSUME NFC_Deactivate
      PROVE  Received'
  BY <1>0, <1>6, DeactivateEffect, ReceivedQuiet
<1>7. ASSUME WaitToDeactivateTimeout
      PROVE  Received'
  BY <1>0, <1>7, ReceivedQuiet DEF WaitToDeactivateTimeout
<1> QED
  BY <1>1, <1>2, <1>3, <1>4, <1>5, <1>6, <1>7, ReceivedCback DEF ApiNext

\* Every step keeps what the NFCC sends, what waits and what went up in one line.
LEMMA ReceivedStep ==
  ASSUME TypeOK, Calm, Handshake, LinkOrder, Ledger, Received, [Next]_vars,
         used'.reset = 0
  PROVE  Received'
<1>1. CASE UNCHANGED vars
  BY <1>1, ReceivedQuiet DEF vars
<1> QED
  BY <1>1, NfccReset0, ReceivedApi, ReceivedHandle, ReceivedNfcc DEF Next

\* Nothing has been sent at the start.
LEMMA InitReceived ==
  ASSUME Init
  PROVE  Received
<1>1. /\ toHost = <<>> /\ DOMAIN toHost = {} /\ ~seen.garbled /\ nfcc.open = {}
      /\ \A c \in Conn : /\ conn[c].rx = <<>> /\ seen.up[c] = 0
                          /\ nfcc.sent[c] = 0 /\ nfcc.ends[c] = {}
  BY DEF Init, Free
<1>2. \A c \in Conn : DataBehind(c, 0) = 0
  BY <1>1, BehindNone DEF DataBehind
<1>3. \A c \in Conn : Chain(c)
  BY <1>1, <1>2 DEF Chain, Queue, End
<1> QED
  BY <1>1, <1>3 DEF Received, Incoming

IInvReceived ==
  TypeOK /\ (used.reset = 0 => Calm /\ Handshake /\ LinkOrder /\ Ledger /\ Received)

\* ReceivedRight holds of every behaviour: what the callback of a connection gets is what
\* the NFCC sent on it, through reassembly, full buffers, a callback that comes and goes,
\* and links and connections that end with data on its way.
THEOREM ReportedRight == Spec => []ReceivedRight
<1>1. Init => IInvReceived
  BY InitLedger, InitReceived DEF IInvReceived, IInvCredits
<1>2. IInvReceived /\ [Next]_vars => IInvReceived'
  <2> SUFFICES ASSUME IInvReceived, [Next]_vars
               PROVE  IInvReceived'
    OBVIOUS
  <2>1. TypeOK /\ TypeOK'
    BY StepType DEF IInvReceived
  <2>2. ASSUME used'.reset = 0
        PROVE  (Calm /\ Handshake /\ LinkOrder /\ Ledger /\ Received)'
    <3>1. Calm /\ Handshake /\ LinkOrder /\ Ledger /\ Received
      BY <2>1, <2>2, ResetsGrow DEF IInvReceived
    <3> QED
      BY <2>1, <2>2, <3>1, CalmStep, HandshakeStep, LinkOrderStep, LedgerStep, ReceivedStep
  <2> QED
    BY <2>1, <2>2 DEF IInvReceived
<1>3. IInvReceived => ReceivedRight
  BY DEF IInvReceived, Received, ReceivedRight
<1> QED
  BY <1>1, <1>2, <1>3, PTL DEF Spec
===============================================================================
