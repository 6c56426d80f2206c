----------------------------- MODULE HalTmlProofs -----------------------------
(***************************************************************************)
(* Proofs about the HAL and its transport (HalTml), for every number of    *)
(* retries and all faults: the types, that a read is always pending        *)
(* (AlwaysListening) and that the one buffer of the reader loses and       *)
(* repeats no packet (PacketsOnce).                                        *)
(*                                                                         *)
(* The first half has a lemma T... for every action: it keeps the types,   *)
(* and it changes only the fields named.  The second half rests on those:  *)
(* Reader says when the reader may go on (a packet the client thread was   *)
(* not told of yet keeps it from reading), Counted that packets are        *)
(* numbered without a gap from the one the client thread took last.        *)
(***************************************************************************)
EXTENDS HalTml, SeqLemmas

\* The commands of a call, and what the client thread is told.
Steps == {"RESET", "INIT", "CONF", "DISC", "LAST"}
Message == {"read", "com_error", "written", "unwritten", "expired", "open_cplt",
            "post_init_cplt", "error", "close_cplt"}

\* A packet: answers name their command, the rest has none.
Packets == [k : {"rsp", "bad_rsp", "ntf", "data", "reset_ntf"}, id : Nat, n : Nat]

\* The fields of the records, with the values the code gives them.
HalRec ==
  [job : {"none", "open", "core", "write", "close"}, todo : Seq(Steps),
   pc : {"idle", "enable", "init", "request", "writing", "timer", "wait", "stop",
         "disable", "shutdown", "join"},
   recover : BOOLEAN, id : Nat, cmd : Nat, retry : Nat, tries : Nat, core : Nat,
   ext : BOOLEAN, sem : Nat, stat : {"ok", "failed"}, got : Nat, ret : {"ok", "failed"},
   wdone : {"no", "ok", "failed"}, timer : {"off", "stopped", "running"},
   open : BOOLEAN, cb : BOOLEAN, rx : BOOLEAN, closing : BOOLEAN]

TmlRec ==
  [on : BOOLEAN, run : BOOLEAN, rbusy : BOOLEAN, renable : BOOLEAN, rsem : Nat,
   rd : {"off", "wait", "read"}, dst : {"rx", "cmd"}, buf : Packets, errs : Nat,
   wbusy : BOOLEAN, wenable : BOOLEAN, wsem : Nat,
   wr : {"off", "wait", "written", "unwritten"}]

NfccRec == [held : Seq(Nat), out : Seq(Packets), sent : Nat, seen : Nat]
UpRec == [opened : BOOLEAN, failed : BOOLEAN, inited : BOOLEAN, closed : BOOLEAN,
          error : BOOLEAN, resets : Nat, due : Nat, wrong : BOOLEAN]
UsedRec == [opens : Nat, ids : Nat, calls : Nat, late : Nat, sends : Nat, mute : Nat,
            fail : Nat, err : Nat, lim : Bounds]

\* The call of the stack's thread under way, and where it is.
Waiting == {"request", "writing", "timer", "wait", "stop"}

\* Where a call may be: phNxpNciHal_write knows no HAL_ENABLE_EXT, the other calls
\* have a command at hand while they send one, and a HAL that is not closing has the
\* stack's callbacks.
Shape(h) ==
  /\ h.job = "none" <=> h.pc = "idle"
  /\ h.job = "write" => h.pc \in {"request", "writing"}
  /\ h.pc = "shutdown" => h.job = "close"
  /\ h.pc = "join" => h.job \in {"open", "close"}
  /\ h.job # "write" /\ h.pc \in Waiting \cup {"enable", "init", "disable"} => h.todo # <<>>
  /\ h.ext <=> h.pc \in {"init", "disable"} \/ (h.pc \in Waiting /\ h.job # "write")
  /\ h.cb \/ h.closing
  /\ h.job = "close" /\ Len(h.todo) # 2 => h.closing

\* Every variable has its type, and the call is where it may be.
Typed ==
  /\ hal \in HalRec /\ tml \in TmlRec /\ q \in Seq(Message)
  /\ client \in {"on", "posting", "taken", "rearm", "off"}
  /\ nfcc \in NfccRec /\ Len(nfcc.out) <= nfcc.sent
  /\ up \in UpRec /\ used \in UsedRec
  /\ Shape(hal)

-------------------------------------------------------------------------------
\* What the code leaves alone, but for the fields in S.
Keeps(h, g, S) ==
  /\ ("job" \in S \/ g.job = h.job)          /\ ("todo" \in S \/ g.todo = h.todo)
  /\ ("pc" \in S \/ g.pc = h.pc)             /\ ("recover" \in S \/ g.recover = h.recover)
  /\ ("id" \in S \/ g.id = h.id)             /\ ("cmd" \in S \/ g.cmd = h.cmd)
  /\ ("ext" \in S \/ g.ext = h.ext)          /\ ("sem" \in S \/ g.sem = h.sem)
  /\ ("stat" \in S \/ g.stat = h.stat)       /\ ("got" \in S \/ g.got = h.got)
  /\ ("ret" \in S \/ g.ret = h.ret)          /\ ("wdone" \in S \/ g.wdone = h.wdone)
  /\ ("timer" \in S \/ g.timer = h.timer)    /\ ("cb" \in S \/ g.cb = h.cb)
  /\ ("closing" \in S \/ g.closing = h.closing)

KeepsTml(t, u, S) ==
  /\ ("on" \in S \/ u.on = t.on)             /\ ("run" \in S \/ u.run = t.run)
  /\ ("rbusy" \in S \/ u.rbusy = t.rbusy)    /\ ("renable" \in S \/ u.renable = t.renable)
  /\ ("rsem" \in S \/ u.rsem = t.rsem)       /\ ("rd" \in S \/ u.rd = t.rd)
  /\ ("buf" \in S \/ u.buf = t.buf)          /\ ("wenable" \in S \/ u.wenable = t.wenable)
  /\ ("wr" \in S \/ u.wr = t.wr)

KeepsUp(u, v, S) ==
  /\ ("error" \in S \/ v.error = u.error)    /\ ("resets" \in S \/ v.resets = u.resets)
  /\ ("due" \in S \/ v.due = u.due)          /\ ("wrong" \in S \/ v.wrong = u.wrong)

\* The write came to nothing.
Unwritten(h, g) ==
  /\ g.wdone = "no"
  /\ IF h.job = "write"
       THEN Keeps(h, g, {"job", "pc", "wdone"}) /\ g.job = "none"
       ELSE Keeps(h, g, {"ret", "pc", "wdone"}) /\ g.ret = "failed" /\ g.pc = "disable"

\* The NFCC was reset.
Emptied ==
  /\ nfcc'.out = <<>> /\ nfcc'.held = <<>> /\ nfcc'.seen = nfcc.seen
  /\ nfcc'.sent = nfcc.sent - Len(nfcc.out)

\* From h, the recovery starts over or gives up.
Retried(h) ==
  /\ Keeps(h, hal', {"job", "todo", "pc"})
  /\ \/ hal'.job = "none" /\ nfcc' = nfcc
     \/ /\ hal'.job = "core" /\ hal'.pc = "enable" /\ Emptied
        /\ h.recover => hal'.todo[Len(hal'.todo)] = "LAST"

\* The fields of a record have their types.
LEMMA HalFields ==
  ASSUME NEW h \in HalRec
  PROVE  /\ h.job \in {"none", "open", "core", "write", "close"} /\ h.todo \in Seq(Steps)
         /\ h.pc \in {"idle", "enable", "init", "request", "writing", "timer", "wait", "stop",
                      "disable", "shutdown", "join"}
         /\ h.recover \in BOOLEAN /\ h.id \in Nat /\ h.cmd \in Nat /\ h.retry \in Nat
         /\ h.tries \in Nat /\ h.core \in Nat /\ h.ext \in BOOLEAN /\ h.sem \in Nat
         /\ h.stat \in {"ok", "failed"} /\ h.got \in Nat /\ h.ret \in {"ok", "failed"}
         /\ h.wdone \in {"no", "ok", "failed"} /\ h.timer \in {"off", "stopped", "running"}
         /\ h.open \in BOOLEAN /\ h.cb \in BOOLEAN /\ h.rx \in BOOLEAN /\ h.closing \in BOOLEAN
BY Zenon DEF HalRec

LEMMA TmlFields ==
  ASSUME NEW t \in TmlRec
  PROVE  /\ t.on \in BOOLEAN /\ t.run \in BOOLEAN /\ t.rbusy \in BOOLEAN
         /\ t.renable \in BOOLEAN /\ t.rsem \in Nat /\ t.rd \in {"off", "wait", "read"}
         /\ t.dst \in {"rx", "cmd"} /\ t.buf \in Packets /\ t.errs \in Nat
         /\ t.wbusy \in BOOLEAN /\ t.wenable \in BOOLEAN /\ t.wsem \in Nat
         /\ t.wr \in {"off", "wait", "written", "unwritten"}
BY Zenon DEF TmlRec

LEMMA NfccFields ==
  ASSUME NEW n \in NfccRec
  PROVE  n.held \in Seq(Nat) /\ n.out \in Seq(Packets) /\ n.sent \in Nat /\ n.seen \in Nat
BY Zenon DEF NfccRec

LEMMA UpFields ==
  ASSUME NEW u \in UpRec
  PROVE  /\ u.opened \in BOOLEAN /\ u.failed \in BOOLEAN /\ u.inited \in BOOLEAN
         /\ u.closed \in BOOLEAN /\ u.error \in BOOLEAN /\ u.resets \in Nat /\ u.due \in Nat
         /\ u.wrong \in BOOLEAN
BY Zenon DEF UpRec

LEMMA UsedFields ==
  ASSUME NEW u \in UsedRec
  PROVE  /\ u.opens \in Nat /\ u.ids \in Nat /\ u.calls \in Nat /\ u.late \in Nat
         /\ u.sends \in Nat /\ u.mute \in Nat /\ u.fail \in Nat /\ u.err \in Nat
         /\ u.lim \in Bounds
BY Zenon DEF UsedRec

\* The variables are records of their kind.
LEMMA Parts ==
  ASSUME Typed
  PROVE  /\ hal \in HalRec /\ tml \in TmlRec /\ q \in Seq(Message) /\ nfcc \in NfccRec
         /\ up \in UpRec /\ used \in UsedRec
BY Zenon DEF Typed

\* The initial records, and packets.
LEMMA Constants ==
  /\ HalClosed \in HalRec /\ TmlOff \in TmlRec /\ Silence \in UpRec
  /\ \A k \in {"rsp", "bad_rsp", "ntf", "data", "reset_ntf"}, i \in Nat, n \in Nat :
       Packet(k, i, n) \in Packets /\ Packet(k, i, n).k = k
       /\ Packet(k, i, n).id = i /\ Packet(k, i, n).n = n
<1>1. HalClosed \in HalRec
  BY DEF HalClosed, HalRec
<1>2. TmlOff \in TmlRec
  BY DEF TmlRec, TmlOff, Packets, NoPacket, Packet
<1>3. Silence \in UpRec
  BY DEF UpRec, Silence
<1> QED
  BY <1>1, <1>2, <1>3 DEF Packet, Packets

\* A read into either buffer wakes the reader once.
LEMMA ReadIntoTyped ==
  ASSUME NEW t \in TmlRec, NEW d \in {"rx", "cmd"}
  PROVE  /\ ReadInto(t, d) \in TmlRec
         /\ KeepsTml(t, ReadInto(t, d), {"rbusy", "renable", "rsem"})
         /\ ReadInto(t, d).rbusy /\ ReadInto(t, d).renable
         /\ ReadInto(t, d).rsem = t.rsem + 1
<1> DEFINE n == t.rsem + 1
<1>1. n \in Nat
  BY TmlFields
<1>2. ReadInto(t, d) = [t EXCEPT !.rbusy = TRUE, !.renable = TRUE, !.rsem = n, !.dst = d]
  BY DEF ReadInto
<1> HIDE DEF n
<1>3. LET u == ReadInto(t, d)
      IN  /\ u \in TmlRec /\ KeepsTml(t, u, {"rbusy", "renable", "rsem"})
          /\ u.rbusy /\ u.renable /\ u.rsem = n
  BY <1>1, <1>2 DEF TmlRec, KeepsTml
<1> QED
  BY <1>3 DEF n

\* A shutdown tells both threads of the TML that they are to end.
LEMMA ShutdownTyped ==
  ASSUME NEW t \in TmlRec
  PROVE  /\ Shutdown(t) \in TmlRec /\ ~Shutdown(t).run
         /\ KeepsTml(t, Shutdown(t), {"run", "rsem"})
<1> DEFINE n == t.rsem + 1
           m == t.wsem + 1
<1>1. n \in Nat /\ m \in Nat
  BY TmlFields
<1>2. Shutdown(t) = [t EXCEPT !.run = FALSE, !.rsem = n, !.wsem = m]
  BY DEF Shutdown
<1> HIDE DEF n, m
<1> QED
  BY <1>1, <1>2 DEF TmlRec, KeepsTml

\* What the stack makes of a packet: only a response changes what is due.
LEMMA HeardTyped ==
  ASSUME NEW u \in UpRec, NEW p
  PROVE  /\ Heard(u, p) \in UpRec
         /\ KeepsUp(u, Heard(u, p), {"resets", "due", "wrong"})
         /\ Heard(u, p).resets = (IF p.k = "reset_ntf" THEN u.resets + 1 ELSE u.resets)
         /\ IF p.k \in {"rsp", "bad_rsp"}
              THEN IF p.id = u.due /\ p.id # 0
                     THEN Heard(u, p).due = 0 /\ Heard(u, p).wrong = u.wrong
                     ELSE Heard(u, p).due = u.due /\ Heard(u, p).wrong
              ELSE Heard(u, p).due = u.due /\ Heard(u, p).wrong = u.wrong
<1> DEFINE n == u.resets + 1
<1>1. n \in Nat
  BY UpFields
<1> HIDE DEF n
<1>2. LET r == [u EXCEPT !.resets = n]
          d == [u EXCEPT !.due = 0]
          w == [u EXCEPT !.wrong = TRUE]
      IN  /\ r \in UpRec /\ KeepsUp(u, r, {"resets"}) /\ r.resets = n
          /\ d \in UpRec /\ KeepsUp(u, d, {"due"}) /\ d.due = 0
          /\ w \in UpRec /\ KeepsUp(u, w, {"wrong"}) /\ w.wrong
  BY <1>1 DEF UpRec, KeepsUp
<1>3. Heard(u, p) =
        IF p.k = "reset_ntf" THEN [u EXCEPT !.resets = n]
        ELSE IF p.k \notin {"rsp", "bad_rsp"} THEN u
        ELSE IF p.id = u.due /\ p.id # 0 THEN [u EXCEPT !.due = 0]
        ELSE [u EXCEPT !.wrong = TRUE]
  BY Zenon DEF Heard, n
<1> DEFINE r == [u EXCEPT !.resets = n]
           d == [u EXCEPT !.due = 0]
           w == [u EXCEPT !.wrong = TRUE]
<1> HIDE DEF r, d, w
<1> QED
  BY <1>2, <1>3 DEF KeepsUp, n, r, d, w

\* A stack that was told of no reset since was told of none before.
LEMMA HeardResets ==
  ASSUME NEW u \in UpRec, NEW p, Heard(u, p).resets = 0
  PROVE  u.resets = 0
<1>1. u.resets \in Nat
  BY UpFields
<1>2. CASE p.k = "reset_ntf"
  <2>1. u.resets + 1 = 0
    BY <1>2, HeardTyped
  <2> QED
    BY <1>1, <2>1
<1>3. CASE p.k # "reset_ntf"
  BY <1>3, HeardTyped
<1> QED
  BY <1>2, <1>3

\* Every bound is counted in numbers.
LEMMA UsedTyped ==
  ASSUME NEW u \in UsedRec
  PROVE  /\ [u EXCEPT !.opens = @ + 1] \in UsedRec /\ [u EXCEPT !.calls = @ + 1] \in UsedRec
         /\ [u EXCEPT !.calls = @ + 1, !.ids = @ + 1] \in UsedRec
         /\ \A i \in Nat : [u EXCEPT !.ids = i] \in UsedRec
         /\ [u EXCEPT !.late = @ + 1] \in UsedRec /\ [u EXCEPT !.sends = @ + 1] \in UsedRec
         /\ [u EXCEPT !.mute = @ + 1] \in UsedRec /\ [u EXCEPT !.fail = @ + 1] \in UsedRec
         /\ [u EXCEPT !.err = @ + 1] \in UsedRec
<1>1. \A n \in Nat, m \in Nat :
        /\ [u EXCEPT !.opens = n] \in UsedRec /\ [u EXCEPT !.calls = n] \in UsedRec
        /\ [u EXCEPT !.calls = n, !.ids = m] \in UsedRec /\ [u EXCEPT !.ids = n] \in UsedRec
        /\ [u EXCEPT !.late = n] \in UsedRec /\ [u EXCEPT !.sends = n] \in UsedRec
        /\ [u EXCEPT !.mute = n] \in UsedRec /\ [u EXCEPT !.fail = n] \in UsedRec
        /\ [u EXCEPT !.err = n] \in UsedRec
  BY DEF UsedRec
<1>2. /\ u.opens + 1 \in Nat /\ u.calls + 1 \in Nat /\ u.ids + 1 \in Nat /\ u.late + 1 \in Nat
      /\ u.sends + 1 \in Nat /\ u.mute + 1 \in Nat /\ u.fail + 1 \in Nat /\ u.err + 1 \in Nat
  BY UsedFields
<1> QED
  BY <1>1, <1>2, Zenon

\* After a reset the NFCC holds nothing and has nothing on its way.
LEMMA ResetTyped ==
  ASSUME Typed, ResetDevice
  PROVE  nfcc' \in NfccRec /\ nfcc'.out = <<>> /\ nfcc'.held = <<>> /\ nfcc'.seen = nfcc.seen
         /\ nfcc'.sent = nfcc.sent - Len(nfcc.out) /\ Len(nfcc'.out) <= nfcc'.sent
<1> DEFINE n == nfcc.sent - Len(nfcc.out)
<1>1. n \in Nat /\ nfcc \in NfccRec
  BY NfccFields DEF Typed
<1> DEFINE e == <<>>
<1>2. nfcc' = [nfcc EXCEPT !.held = e, !.out = e, !.sent = n]
  BY DEF ResetDevice
<1>3. e \in Seq(Nat) /\ e \in Seq(Packets) /\ Len(e) = 0
  OBVIOUS
<1> HIDE DEF n, e
<1>4. nfcc' \in NfccRec /\ nfcc'.out = e /\ nfcc'.held = e /\ nfcc'.seen = nfcc.seen
      /\ nfcc'.sent = n
  BY <1>1, <1>2, <1>3 DEF NfccRec
<1> QED
  BY <1>1, <1>3, <1>4 DEF n, e

\* The commands of a call are known and at least one.
LEMMA Lists ==
  /\ <<"RESET", "INIT">> \in Seq(Steps) /\ <<"RESET", "INIT">> # <<>>
  /\ <<"DISC", "RESET">> \in Seq(Steps) /\ <<"DISC", "RESET">> # <<>>
  /\ Len(<<"DISC", "RESET">>) = 2
  /\ used \in UsedRec => ConfSteps \in Seq(Steps) /\ ConfSteps # <<>>
<1>1. ASSUME used \in UsedRec PROVE ConfSteps \in Seq(Steps) /\ ConfSteps # <<>>
  <2>1. lim.conf \in Nat \ {0}
    BY <1>1, UsedFields, BoundAssumption DEF lim
  <2> QED
    BY <2>1 DEF ConfSteps, Steps
<1> QED
  BY <1>1 DEF Steps

-------------------------------------------------------------------------------
(* Each step leaves the types and the shape of the call.                     *)

\* phNxpNciHal_open starts from a NFCC that is reset and a queue that is empty.
LEMMA TOpen ==
  ASSUME Typed, Open
  PROVE  /\ Typed'
         /\ hal'.job = "open"
         /\ hal'.pc = "enable"
         /\ hal'.timer = "stopped"
         /\ hal'.wdone = "no"
         /\ ~hal'.closing
         /\ hal'.cb
         /\ tml'.on /\ tml'.run /\ tml'.rbusy /\ tml'.renable /\ tml'.rsem = 1
         /\ tml'.rd = "wait" /\ ~tml'.wenable /\ tml'.wr = "wait"
         /\ nfcc'.held = <<>> /\ nfcc'.out = <<>> /\ nfcc'.sent = 0 /\ nfcc'.seen = 0
         /\ ~up'.error /\ up'.resets = 0 /\ up'.due = 0 /\ ~up'.wrong
<1>1. hal.core \in Nat
  BY Parts, HalFields
<1> DEFINE t == <<"RESET", "INIT">>
<1>3. hal' = [HalClosed EXCEPT !.job = "open", !.todo = t, !.pc = "enable",
               !.core = hal.core, !.timer = "stopped", !.cb = TRUE, !.closing = FALSE]
  BY DEF Open
<1>2. t \in Seq(Steps) /\ t # <<>>
  BY Lists
<1> HIDE DEF t
<1>4. hal' \in HalRec
  <2> DEFINE g == HalClosed
             n == hal.core
  <2>1. g \in HalRec /\ n \in Nat
    BY <1>1, Constants
  <2>2. hal' = [g EXCEPT !.job = "open", !.todo = t, !.pc = "enable", !.core = n,
                         !.timer = "stopped", !.cb = TRUE, !.closing = FALSE]
    BY <1>3
  <2> DEFINE g1 == [g EXCEPT !.job = "open", !.todo = t, !.pc = "enable"]
             g2 == [g1 EXCEPT !.core = n, !.timer = "stopped"]
  <2> HIDE DEF g, n
  <2>3. g1 \in HalRec
    BY <1>2, <2>1 DEF HalRec
  <2>4. hal' = [g2 EXCEPT !.cb = TRUE, !.closing = FALSE]
    BY <2>2
  <2> HIDE DEF g1
  <2>5. g2 \in HalRec
    BY ZenonT(60), <2>1, <2>3 DEF HalRec
  <2> HIDE DEF g2
  <2> QED
    BY <2>4, <2>5 DEF HalRec
<1>a. /\ Shape(hal') /\ hal'.job = "open" /\ hal'.pc = "enable" /\ hal'.timer = "stopped"
      /\ hal'.wdone = "no" /\ ~hal'.closing /\ hal'.cb
  BY <1>2, <1>3 DEF Shape, HalClosed, Waiting
<1> DEFINE o == [TmlOff EXCEPT !.on = TRUE, !.run = TRUE, !.rd = "wait", !.wr = "wait"]
<1>5. o \in TmlRec
  BY Constants DEF TmlRec
<1>b. o.on /\ o.run /\ o.rsem = 0 /\ o.rd = "wait" /\ ~o.wenable /\ o.wr = "wait"
  BY DEF TmlOff
<1>6. tml' = ReadInto(o, "cmd")
  BY DEF Open
<1> HIDE DEF o
<1>7. /\ tml' \in TmlRec /\ tml'.on /\ tml'.run /\ tml'.rbusy /\ tml'.renable
      /\ tml'.rsem = 1 /\ tml'.rd = "wait" /\ ~tml'.wenable /\ tml'.wr = "wait"
  <2>1. /\ tml' \in TmlRec /\ KeepsTml(o, tml', {"rbusy", "renable", "rsem"})
        /\ tml'.rbusy /\ tml'.renable /\ tml'.rsem = o.rsem + 1
    <3> DEFINE d == "cmd"
    <3>1. d \in {"rx", "cmd"}
      OBVIOUS
    <3>2. tml' = ReadInto(o, d)
      BY <1>6
    <3> HIDE DEF d
    <3> QED
      BY <1>5, <3>1, <3>2, ReadIntoTyped, Zenon
  <2>2. /\ tml'.on = o.on /\ tml'.run = o.run /\ tml'.rd = o.rd /\ tml'.wenable = o.wenable
        /\ tml'.wr = o.wr
    BY <2>1 DEF KeepsTml
  <2>3. tml'.rsem = 1
    BY <1>b, <2>1
  <2> QED
    BY <1>b, <2>1, <2>2, <2>3
<1>8. /\ nfcc' \in NfccRec /\ Len(nfcc'.out) <= nfcc'.sent
      /\ nfcc'.held = <<>> /\ nfcc'.out = <<>> /\ nfcc'.sent = 0 /\ nfcc'.seen = 0
  <2> DEFINE e == <<>>
  <2>1. nfcc' = [nfcc EXCEPT !.held = e, !.out = e, !.sent = 0, !.seen = 0]
    BY DEF Open
  <2>2. e \in Seq(Nat) /\ e \in Seq(Packets) /\ Len(e) = 0
    OBVIOUS
  <2>3. nfcc \in NfccRec
    BY DEF Typed
  <2> HIDE DEF e
  <2>4. nfcc' \in NfccRec /\ nfcc'.held = e /\ nfcc'.out = e /\ nfcc'.sent = 0 /\ nfcc'.seen = 0
    BY <2>1, <2>2, <2>3 DEF NfccRec
  <2> QED
    BY <2>2, <2>4 DEF e
<1>9. /\ up' \in UpRec /\ used' \in UsedRec
      /\ ~up'.error /\ up'.resets = 0 /\ up'.due = 0 /\ ~up'.wrong
  BY Parts, Constants, UsedTyped DEF Open, Silence
<1> QED
  BY <1>4, <1>a, <1>7, <1>8, <1>9 DEF Open, Typed

\* phNxpNciHal_core_initialized begins a call.
LEMMA TCoreInitialized ==
  ASSUME Typed, CoreInitialized
  PROVE  /\ Typed'
         /\ Keeps(hal, hal', {"job", "todo", "pc", "recover"})
         /\ hal'.job = "core"
         /\ hal'.pc = "enable"
         /\ hal'.recover = FALSE
<1> DEFINE t == ConfSteps
<1>1. hal' = [hal EXCEPT !.job = "core", !.todo = t, !.pc = "enable", !.recover = FALSE]
  BY DEF CoreInitialized
<1>2. t \in Seq(Steps) /\ t # <<>>
  BY Lists, Parts
<1> HIDE DEF t
<1>3. hal \in HalRec /\ Shape(hal) /\ hal.pc = "idle" /\ hal.job = "none"
  BY DEF Typed, CoreInitialized, Usable, Idle
<1>4. /\ hal' \in HalRec /\ Shape(hal')
      /\ Keeps(hal, hal', {"job", "todo", "pc", "recover"})
      /\ hal'.job = "core"
      /\ hal'.pc = "enable"
      /\ hal'.recover = FALSE
  <2>1. hal' \in HalRec
    BY <1>1, <1>2, <1>3 DEF HalRec
  <2>2. Shape(hal')
    BY <1>1, <1>2, <1>3 DEF HalRec, Shape, Waiting
  <2>3. /\ Keeps(hal, hal', {"job", "todo", "pc", "recover"})
        /\ hal'.job = "core"
        /\ hal'.pc = "enable"
        /\ hal'.recover = FALSE
    BY <1>1, <1>2, <1>3 DEF HalRec, Keeps
  <2> QED
    BY <2>1, <2>2, <2>3
<1>5. used' \in UsedRec
  BY Parts, UsedTyped DEF CoreInitialized
<1> QED
  BY <1>4, <1>5 DEF CoreInitialized, Typed

\* The recovery starts over or gives up, from a call that is in its place.
LEMMA RetryTyped ==
  ASSUME Typed, NEW h \in HalRec, h.job = "core", ~h.ext, h.cb \/ h.closing, RetryCoreInit(h)
  PROVE  /\ hal' \in HalRec /\ Shape(hal')
         /\ Retried(h)
         /\ nfcc' \in NfccRec /\ Len(nfcc'.out) <= nfcc'.sent
<1>1. CASE h.core > MaxInit
  <2> DEFINE e == <<>>
  <2>1. hal' = [h EXCEPT !.job = "none", !.pc = "idle", !.todo = e] /\ nfcc' = nfcc
    BY <1>1 DEF RetryCoreInit
  <2>3. e \in Seq(Steps)
    OBVIOUS
  <2> HIDE DEF e
  <2>2. /\ hal' \in HalRec /\ Shape(hal') /\ Keeps(h, hal', {"job", "todo", "pc"})
        /\ hal'.job = "none"
    <3>1. hal' \in HalRec
      BY <2>1, <2>3 DEF HalRec
    <3>2. Shape(hal')
      BY <2>1, <2>3 DEF HalRec, Shape, Waiting
    <3>3. /\ Keeps(h, hal', {"job", "todo", "pc"})
          /\ hal'.job = "none"
      BY <2>1, <2>3 DEF HalRec, Keeps
    <3> QED
      BY <3>1, <3>2, <3>3
  <2> QED
    BY <2>1, <2>2 DEF Typed, Retried
<1>2. CASE ~(h.core > MaxInit)
  <2> DEFINE t == <<"RESET", "INIT">> \o ConfSteps
                                 \o (IF h.recover THEN <<"LAST">> ELSE <<>>)
  <2>1. hal' = [h EXCEPT !.pc = "enable", !.todo = t] /\ ResetDevice
    BY <1>2 DEF RetryCoreInit
  <2>2. t \in Seq(Steps) /\ t # <<>> /\ (h.recover => t[Len(t)] = "LAST")
    <3> DEFINE a == <<"RESET", "INIT">>
               c == ConfSteps
               b == IF h.recover THEN <<"LAST">> ELSE <<>>
    <3>0. "RESET" \in Steps /\ "INIT" \in Steps /\ "LAST" \in Steps
      BY DEF Steps
    <3>1. a \in Seq(Steps) /\ Len(a) = 2 /\ b \in Seq(Steps)
      BY <3>0
    <3>2. c \in Seq(Steps)
      BY Lists, Parts
    <3>3. t = a \o c \o b /\ (h.recover => b = <<"LAST">>)
      OBVIOUS
    <3> HIDE DEF a, b, c, t
    <3>4. t \in Seq(Steps) /\ t # <<>>
      BY <3>1, <3>2, <3>3, ThreeLists
    <3>5. ASSUME h.recover PROVE t[Len(t)] = "LAST"
      <4>1. t = a \o c \o <<"LAST">>
        BY <3>3, <3>5
      <4>2. (a \o c \o <<"LAST">>)[Len(a \o c \o <<"LAST">>)] = "LAST"
        <5> DEFINE x == "LAST"
        <5>1. x \in Steps
          BY <3>0
        <5> HIDE DEF x
        <5>2. (a \o c \o <<x>>)[Len(a \o c \o <<x>>)] = x
          BY <3>1, <3>2, <5>1, LastOfThree
        <5> QED
          BY <5>2 DEF x
      <4> QED
        BY <4>1, <4>2, Zenon
    <3> QED
      BY <3>4, <3>5
  <2> HIDE DEF t
  <2>3. /\ hal' \in HalRec /\ Shape(hal') /\ Keeps(h, hal', {"job", "todo", "pc"})
        /\ hal'.pc = "enable" /\ hal'.todo = t /\ hal'.job = "core"
    <3>1. hal' \in HalRec
      BY <2>1, <2>2 DEF HalRec
    <3>2. Shape(hal')
      BY <2>1, <2>2 DEF HalRec, Shape, Waiting
    <3>3. /\ Keeps(h, hal', {"job", "todo", "pc"})
          /\ hal'.pc = "enable" /\ hal'.todo = t /\ hal'.job = "core"
      BY <2>1, <2>2 DEF HalRec, Keeps
    <3> QED
      BY <3>1, <3>2, <3>3
  <2> QED
    BY <2>1, <2>2, <2>3, ResetTyped DEF Retried, Emptied
<1> QED
  BY <1>1, <1>2

\* The recovery begins a call that ends with the stack's command, or gives up.
LEMMA TRecoverLast ==
  ASSUME Typed, RecoverLast
  PROVE  /\ Typed'
         /\ Keeps(hal, hal', {"job", "todo", "pc", "recover"})
         /\ \/ hal'.job = "none" /\ nfcc' = nfcc
            \/ /\ hal'.job = "core" /\ hal'.pc = "enable" /\ hal'.recover /\ Emptied
               /\ hal'.todo[Len(hal'.todo)] = "LAST"
<1> DEFINE h == [hal EXCEPT !.job = "core", !.recover = TRUE]
<1>1. hal \in HalRec /\ Shape(hal) /\ hal.pc = "idle" /\ hal.job = "none"
  BY DEF Typed, RecoverLast, Usable, Idle
<1>2. /\ h \in HalRec /\ h.job = "core" /\ ~h.ext /\ (h.cb \/ h.closing)
      /\ Keeps(hal, h, {"job", "recover"}) /\ h.recover
  BY <1>1 DEF HalRec, Shape, Waiting, Keeps
<1>3. RetryCoreInit(h)
  BY DEF RecoverLast
<1> HIDE DEF h
<1>4. /\ hal' \in HalRec /\ Shape(hal') /\ Retried(h)
      /\ nfcc' \in NfccRec /\ Len(nfcc'.out) <= nfcc'.sent
  BY <1>2, <1>3, RetryTyped
<1>5. used' \in UsedRec
  BY Parts, UsedTyped DEF RecoverLast
<1>6. Keeps(hal, hal', {"job", "todo", "pc", "recover"}) /\ hal'.recover
  BY Zenon, <1>2, <1>4 DEF Retried, Keeps
<1>7. \/ hal'.job = "none" /\ nfcc' = nfcc
      \/ /\ hal'.job = "core" /\ hal'.pc = "enable" /\ Emptied
         /\ hal'.todo[Len(hal'.todo)] = "LAST"
  BY <1>2, <1>4 DEF Retried
<1> QED
  BY <1>4, <1>5, <1>6, <1>7 DEF RecoverLast, Typed

\* phNxpNciHal_write begins a call with a new command.
LEMMA TWrite ==
  ASSUME Typed, Write
  PROVE  /\ Typed'
         /\ Keeps(hal, hal', {"job", "pc", "id", "cmd", "wdone"})
         /\ hal'.job = "write"
         /\ hal'.pc = "request"
         /\ hal'.wdone = "no"
         /\ hal'.cmd = hal'.id
         /\ hal'.id # 0
<1> DEFINE n == used.ids + 1
<1>1. n \in Nat /\ n # 0
  BY Parts, UsedFields
<1>2. /\ hal' = [hal EXCEPT !.job = "write", !.pc = "request", !.retry = 0, !.wdone = "no",
                           !.id = n, !.cmd = n]
      /\ up' = [up EXCEPT !.due = n]
  BY DEF Write
<1>3. hal \in HalRec /\ Shape(hal) /\ up \in UpRec /\ hal.pc = "idle" /\ hal.job = "none"
  BY DEF Typed, Write, Usable, Idle
<1> HIDE DEF n
<1>4. /\ hal' \in HalRec /\ Shape(hal')
      /\ Keeps(hal, hal', {"job", "pc", "id", "cmd", "wdone"})
      /\ hal'.job = "write"
      /\ hal'.pc = "request"
      /\ hal'.wdone = "no"
      /\ hal'.cmd = hal'.id
      /\ hal'.id # 0
  <2>1. hal' \in HalRec
    BY <1>1, <1>2, <1>3 DEF HalRec
  <2>2. Shape(hal')
    BY <1>1, <1>2, <1>3 DEF HalRec, Shape, Waiting
  <2>3. /\ Keeps(hal, hal', {"job", "pc", "id", "cmd", "wdone"})
        /\ hal'.job = "write"
        /\ hal'.pc = "request"
        /\ hal'.wdone = "no"
        /\ hal'.cmd = hal'.id
        /\ hal'.id # 0
    BY <1>1, <1>2, <1>3 DEF HalRec, Keeps
  <2> QED
    BY <2>1, <2>2, <2>3
<1>5. up' \in UpRec
  BY <1>1, <1>2, <1>3 DEF UpRec
<1>6. used' \in UsedRec
  BY Parts, UsedTyped DEF Write
<1> QED
  BY <1>4, <1>5, <1>6 DEF Write, Typed

\* phNxpNciHal_close begins a call.
LEMMA TClose ==
  ASSUME Typed, Close
  PROVE  /\ Typed'
         /\ Keeps(hal, hal', {"job", "todo", "pc"})
         /\ hal'.job = "close"
         /\ hal'.pc = "enable"
<1> DEFINE t == <<"DISC", "RESET">>
<1>1. hal' = [hal EXCEPT !.job = "close", !.todo = t, !.pc = "enable"]
  BY DEF Close
<1>2. t \in Seq(Steps) /\ t # <<>> /\ Len(t) = 2
  BY Lists
<1> HIDE DEF t
<1>3. hal \in HalRec /\ Shape(hal) /\ hal.pc = "idle" /\ hal.job = "none"
  BY DEF Typed, Close, Usable, Idle
<1>4. /\ hal' \in HalRec /\ Shape(hal')
      /\ Keeps(hal, hal', {"job", "todo", "pc"})
      /\ hal'.job = "close"
      /\ hal'.pc = "enable"
  <2>1. hal' \in HalRec
    BY <1>1, <1>2, <1>3 DEF HalRec
  <2>2. Shape(hal')
    BY <1>1, <1>2, <1>3 DEF HalRec, Shape, Waiting
  <2>3. /\ Keeps(hal, hal', {"job", "todo", "pc"})
        /\ hal'.job = "close"
        /\ hal'.pc = "enable"
    BY <1>1, <1>2, <1>3 DEF HalRec, Keeps
  <2> QED
    BY <2>1, <2>2, <2>3
<1> QED
  BY <1>4 DEF Close, Typed

\* HAL_ENABLE_EXT: the next command, the stack's when it is the last of a recovery.
LEMMA TEnableExt ==
  ASSUME Typed, EnableExt
  PROVE  /\ Typed'
         /\ Keeps(hal, hal', {"pc", "ext", "id", "cmd"})
         /\ hal'.pc = "init"
         /\ hal'.cmd = hal'.id
         /\ (Head(hal.todo) = "LAST" => hal'.id = up.due)
<1> DEFINE n == IF Head(hal.todo) = "LAST" THEN up.due ELSE used.ids + 1
<1>1. n \in Nat /\ (Head(hal.todo) = "LAST" => n = up.due)
  BY Parts, UsedFields, UpFields
<1>2. hal' = [hal EXCEPT !.pc = "init", !.ext = TRUE, !.id = n, !.cmd = n]
  BY DEF EnableExt
<1>3. used' \in UsedRec
  <2>1. used' = used \/ used' = [used EXCEPT !.ids = n]
    BY DEF EnableExt
  <2> HIDE DEF n
  <2> QED
    BY <1>1, <2>1, Parts, UsedTyped
<1>4. hal \in HalRec /\ Shape(hal) /\ hal.pc = "enable"
  BY DEF Typed, EnableExt
<1> HIDE DEF n
<1>5. /\ hal' \in HalRec /\ Shape(hal')
      /\ Keeps(hal, hal', {"pc", "ext", "id", "cmd"})
      /\ hal'.pc = "init"
      /\ hal'.cmd = hal'.id
      /\ (Head(hal.todo) = "LAST" => hal'.id = up.due)
  <2>1. hal' \in HalRec
    BY <1>1, <1>2, <1>4 DEF HalRec
  <2>2. Shape(hal')
    BY <1>1, <1>2, <1>4 DEF HalRec, Shape, Waiting
  <2>3. /\ Keeps(hal, hal', {"pc", "ext", "id", "cmd"})
        /\ hal'.pc = "init"
        /\ hal'.cmd = hal'.id
        /\ (Head(hal.todo) = "LAST" => hal'.id = up.due)
    BY <1>1, <1>2, <1>4 DEF HalRec, Keeps
  <2> QED
    BY <2>1, <2>2, <2>3
<1> QED
  BY <1>3, <1>5 DEF EnableExt, Typed

\* The semaphore of the response is initialised.
LEMMA TInitCbData ==
  ASSUME Typed, InitCbData
  PROVE  /\ Typed'
         /\ Keeps(hal, hal', {"pc", "sem", "stat", "got", "wdone"})
         /\ hal'.pc = "request"
         /\ hal'.sem = 0
         /\ hal'.wdone = "no"
<1>1. hal \in HalRec /\ Shape(hal)
  BY DEF Typed
<1>2. /\ hal' \in HalRec /\ Shape(hal')
      /\ Keeps(hal, hal', {"pc", "sem", "stat", "got", "wdone"})
      /\ hal'.pc = "request"
      /\ hal'.sem = 0
      /\ hal'.wdone = "no"
  <2>1. hal' \in HalRec
    BY <1>1 DEF InitCbData, HalRec
  <2>2. Shape(hal')
    BY <1>1 DEF InitCbData, HalRec, Shape, Waiting
  <2>3. /\ Keeps(hal, hal', {"pc", "sem", "stat", "got", "wdone"})
        /\ hal'.pc = "request"
        /\ hal'.sem = 0
        /\ hal'.wdone = "no"
    BY <1>1 DEF InitCbData, HalRec, Keeps
  <2> QED
    BY <2>1, <2>2, <2>3
<1> QED
  BY <1>2 DEF InitCbData, Typed

\* phTmlNfc_Write refuses, or the writer is asked.
LEMMA TRequest ==
  ASSUME Typed, Request
  PROVE  /\ Typed'
         /\ \/ /\ tml' = tml /\ hal'.closing = hal.closing
               /\ (hal.wdone = "no" => Unwritten(hal, hal'))
            \/ /\ Keeps(hal, hal', {"pc"}) /\ hal'.pc = "writing"
               /\ KeepsTml(tml, tml', {"wenable"}) /\ tml'.wenable
<1> DEFINE n == tml.wsem + 1
           t == [tml EXCEPT !.wbusy = TRUE, !.wenable = TRUE, !.wsem = n]
           h == [hal EXCEPT !.pc = "writing"]
<1>1. hal \in HalRec /\ Shape(hal) /\ tml \in TmlRec /\ n \in Nat
  BY TmlFields DEF Typed
<1>2. /\ hal.pc = "request"
      /\ (tml' = tml /\ hal' = NotWritten(hal)) \/ (tml' = t /\ hal' = h)
  BY DEF Request
<1> HIDE DEF n
<1>3. t \in TmlRec /\ KeepsTml(tml, t, {"wenable"}) /\ t.wenable
  BY <1>1 DEF TmlRec, KeepsTml
<1>4. h \in HalRec /\ Shape(h) /\ Keeps(hal, h, {"pc"}) /\ h.pc = "writing"
  <2>1. h \in HalRec
    BY <1>1, <1>2 DEF HalRec
  <2>2. Shape(h)
    BY <1>1, <1>2 DEF HalRec, Shape, Waiting
  <2>3. /\ Keeps(hal, h, {"pc"}) /\ h.pc = "writing"
    BY <1>1, <1>2 DEF HalRec, Keeps
  <2> QED
    BY <2>1, <2>2, <2>3
<1>5. LET g == NotWritten(hal)
      IN  g \in HalRec /\ Shape(g) /\ g.closing = hal.closing
          /\ (hal.wdone = "no" => Unwritten(hal, g))
  <2> DEFINE w == [hal EXCEPT !.job = "none", !.pc = "idle"]
             d == [hal EXCEPT !.ret = "failed", !.pc = "disable"]
  <2>1. NotWritten(hal) = (IF hal.job = "write" THEN w ELSE d)
    BY DEF NotWritten
  <2>2. CASE hal.job = "write"
    <3>1. /\ w \in HalRec /\ Shape(w)
          /\ w.closing = hal.closing /\ (hal.wdone = "no" => Unwritten(hal, w))
      <4>1. w \in HalRec
        BY <1>1, <1>2, <2>2 DEF HalRec
      <4>2. Shape(w)
        BY <1>1, <1>2, <2>2 DEF HalRec, Shape, Waiting
      <4>3. w.closing = hal.closing /\ (hal.wdone = "no" => Unwritten(hal, w))
        BY <1>1, <1>2, <2>2 DEF HalRec, Keeps, Unwritten
      <4> QED
        BY <4>1, <4>2, <4>3
    <3> QED
      BY <2>1, <2>2, <3>1
  <2>3. CASE hal.job # "write"
    <3>1. /\ d \in HalRec /\ Shape(d)
          /\ d.closing = hal.closing /\ (hal.wdone = "no" => Unwritten(hal, d))
      <4>1. d \in HalRec
        BY <1>1, <1>2, <2>3 DEF HalRec
      <4>2. Shape(d)
        BY <1>1, <1>2, <2>3 DEF HalRec, Shape, Waiting
      <4>3. d.closing = hal.closing /\ (hal.wdone = "no" => Unwritten(hal, d))
        BY <1>1, <1>2, <2>3 DEF HalRec, Keeps, Unwritten
      <4> QED
        BY <4>1, <4>2, <4>3
    <3> QED
      BY <2>1, <2>3, <3>1
  <2> QED
    BY <2>2, <2>3
<1> HIDE DEF t, h
<1> QED
  BY <1>1, <1>2, <1>3, <1>4, <1>5 DEF Request, Typed

\* The write is done: a call of the stack ends, others start the timer.
LEMMA TWritten ==
  ASSUME Typed, Written
  PROVE  /\ Typed'
         /\ Keeps(hal, hal', {"job", "pc", "wdone"})
         /\ hal'.wdone = "no"
         /\ hal.job = "write" => hal'.job = "none"
         /\ hal.job # "write" => hal'.job = hal.job /\ hal'.pc = "timer"
<1>1. hal \in HalRec /\ Shape(hal)
  BY DEF Typed
<1>2. CASE hal.job = "write"
  <2>1. hal' = [hal EXCEPT !.job = "none", !.pc = "idle", !.wdone = "no"]
    BY <1>2 DEF Written
  <2>a. hal \in HalRec
    BY <1>1
  <2>2. hal' \in HalRec
    BY ZenonT(60), <2>1, <2>a DEF HalRec
  <2>3. Shape(hal')
    BY <1>1, <1>2, <2>1 DEF HalRec, Shape, Waiting
  <2>4. Keeps(hal, hal', {"job", "pc", "wdone"}) /\ hal'.wdone = "no" /\ hal'.job = "none"
    BY <1>1, <2>1 DEF HalRec, Keeps
  <2> QED
    BY <1>2, <2>2, <2>3, <2>4 DEF Written, Typed
<1>3. CASE hal.job # "write"
  <2>1. hal' = [hal EXCEPT !.pc = "timer", !.wdone = "no"] /\ hal.pc = "writing"
    BY <1>3 DEF Written
  <2>2. hal' \in HalRec
    BY <1>1, <2>1 DEF HalRec
  <2>3. Shape(hal')
    BY <1>1, <1>3, <2>1 DEF HalRec, Shape, Waiting
  <2>4. /\ Keeps(hal, hal', {"job", "pc", "wdone"}) /\ hal'.wdone = "no"
        /\ hal'.job = hal.job /\ hal'.pc = "timer"
    BY <1>1, <2>1 DEF HalRec, Keeps
  <2> QED
    BY <1>3, <2>2, <2>3, <2>4 DEF Written, Typed
<1> QED
  BY <1>2, <1>3

\* A write that failed is asked for again.
LEMMA TWriteAgain ==
  ASSUME Typed, WriteAgain
  PROVE  /\ Typed'
         /\ Keeps(hal, hal', {"pc", "wdone"})
         /\ hal'.pc = "request"
         /\ hal'.wdone = "no"
<1> DEFINE n == hal.retry + 1
<1>1. hal' = [hal EXCEPT !.pc = "request", !.wdone = "no", !.retry = n] /\ hal.pc = "writing"
  BY DEF WriteAgain
<1>2. hal \in HalRec /\ Shape(hal)
  BY DEF Typed
<1>3. n \in Nat
  BY <1>2, HalFields
<1> HIDE DEF n
<1>4. /\ hal' \in HalRec /\ Shape(hal')
      /\ Keeps(hal, hal', {"pc", "wdone"})
      /\ hal'.pc = "request"
      /\ hal'.wdone = "no"
  <2>1. hal' \in HalRec
    BY <1>1, <1>2, <1>3 DEF HalRec
  <2>2. Shape(hal')
    BY <1>1, <1>2, <1>3 DEF HalRec, Shape, Waiting
  <2>3. /\ Keeps(hal, hal', {"pc", "wdone"})
        /\ hal'.pc = "request"
        /\ hal'.wdone = "no"
    BY <1>1, <1>2, <1>3 DEF HalRec, Keeps
  <2> QED
    BY <2>1, <2>2, <2>3
<1> QED
  BY <1>4 DEF WriteAgain, Typed

\* A write that failed too often resets the NFCC and may tell the stack.
LEMMA TWriteGivenUp ==
  ASSUME Typed, WriteGivenUp
  PROVE  /\ Typed'
         /\ Unwritten(hal, hal')
         /\ \/ tml' = tml /\ up' = up
            \/ KeepsTml(tml, tml', {"buf"}) /\ KeepsUp(up, up', {"resets"})
               /\ up'.resets = up.resets + 1
         /\ Emptied
<1> DEFINE n == hal.retry + 1
           p == Packet("reset_ntf", 0, 0)
           t == [tml EXCEPT !.buf = p]
           w == [hal EXCEPT !.wdone = "no", !.retry = n, !.job = "none", !.pc = "idle"]
           d == [hal EXCEPT !.wdone = "no", !.retry = n, !.ret = "failed", !.pc = "disable"]
<1>1. hal \in HalRec /\ Shape(hal) /\ tml \in TmlRec /\ up \in UpRec /\ hal.pc = "writing"
      /\ ResetDevice
  BY DEF Typed, WriteGivenUp
<1>2. hal' = IF hal.job = "write" THEN w ELSE d
  <2> DEFINE h == [hal EXCEPT !.wdone = "no", !.retry = n]
  <2>1. hal' = NotWritten(h) /\ h.job = hal.job
    BY <1>1 DEF WriteGivenUp, HalRec
  <2> QED
    BY <1>1, <2>1 DEF NotWritten, HalRec
<1>3. n \in Nat /\ p \in Packets /\ p.k = "reset_ntf"
  BY <1>1, HalFields, Constants
<1>4. \/ tml' = tml /\ up' = up
      \/ tml' = t /\ up' = Heard(up, tml'.buf)
  BY DEF WriteGivenUp
<1> HIDE DEF n, p
<1>5. t \in TmlRec /\ KeepsTml(tml, t, {"buf"}) /\ t.buf = p
  BY <1>1, <1>3 DEF TmlRec, KeepsTml
<1>6. hal' \in HalRec /\ Shape(hal') /\ Unwritten(hal, hal')
  <2>1. CASE hal.job = "write"
    <3>1. w \in HalRec /\ Shape(w) /\ Unwritten(hal, w)
      <4>1. w \in HalRec
        BY <1>1, <1>3, <2>1 DEF HalRec
      <4>2. Shape(w)
        BY <1>1, <1>3, <2>1 DEF HalRec, Shape, Waiting
      <4>3. /\ Unwritten(hal, w)
        BY <1>1, <1>3, <2>1 DEF HalRec, Keeps, Unwritten
      <4> QED
        BY <4>1, <4>2, <4>3
    <3> QED
      BY <1>2, <2>1, <3>1
  <2>2. CASE hal.job # "write"
    <3>1. d \in HalRec /\ Shape(d) /\ Unwritten(hal, d)
      <4>1. d \in HalRec
        BY <1>1, <1>3, <2>2 DEF HalRec
      <4>2. Shape(d)
        BY <1>1, <1>3, <2>2 DEF HalRec, Shape, Waiting
      <4>3. /\ Unwritten(hal, d)
        BY <1>1, <1>3, <2>2 DEF HalRec, Keeps, Unwritten
      <4> QED
        BY <4>1, <4>2, <4>3
    <3> QED
      BY <1>2, <2>2, <3>1
  <2> QED
    BY <2>1, <2>2
<1> HIDE DEF t
<1>7. Heard(up, p) \in UpRec /\ KeepsUp(up, Heard(up, p), {"resets"})
      /\ Heard(up, p).resets = up.resets + 1
  BY <1>1, <1>3, HeardTyped DEF KeepsUp
<1>8. \/ tml' = tml /\ up' = up
      \/ /\ tml' \in TmlRec /\ KeepsTml(tml, tml', {"buf"})
         /\ up' \in UpRec /\ KeepsUp(up, up', {"resets"}) /\ up'.resets = up.resets + 1
  BY <1>4, <1>5, <1>7
<1> QED
  BY <1>1, <1>6, <1>8, ResetTyped DEF WriteGivenUp, Typed, Emptied

\* The timer of the response is started.
LEMMA TStartTimer ==
  ASSUME Typed, StartTimer
  PROVE  /\ Typed'
         /\ Keeps(hal, hal', {"pc", "timer"})
         /\ hal'.pc = "wait"
         /\ hal'.timer = "running"
<1>1. hal \in HalRec /\ Shape(hal)
  BY DEF Typed
<1>2. /\ hal' \in HalRec /\ Shape(hal')
      /\ Keeps(hal, hal', {"pc", "timer"})
      /\ hal'.pc = "wait"
      /\ hal'.timer = "running"
  <2>1. hal' \in HalRec
    BY <1>1 DEF StartTimer, HalRec
  <2>2. Shape(hal')
    BY <1>1 DEF StartTimer, HalRec, Shape, Waiting
  <2>3. /\ Keeps(hal, hal', {"pc", "timer"})
        /\ hal'.pc = "wait"
        /\ hal'.timer = "running"
    BY <1>1 DEF StartTimer, HalRec, Keeps
  <2> QED
    BY <2>1, <2>2, <2>3
<1> QED
  BY <1>2 DEF StartTimer, Typed

\* The semaphore is taken and the timer stopped.
LEMMA TWake ==
  ASSUME Typed, Wake
  PROVE  /\ Typed'
         /\ Keeps(hal, hal', {"pc", "sem", "timer"})
         /\ hal'.pc = "stop"
         /\ hal'.timer = "stopped"
         /\ hal'.sem = hal.sem - 1
<1> DEFINE n == hal.sem - 1
<1>1. /\ hal' = [hal EXCEPT !.pc = "stop", !.sem = n, !.timer = "stopped"]
      /\ hal.pc = "wait" /\ hal.sem > 0
  BY DEF Wake
<1>2. hal \in HalRec /\ Shape(hal)
  BY DEF Typed
<1>3. n \in Nat
  BY <1>1, <1>2, HalFields
<1> HIDE DEF n
<1>4. /\ hal' \in HalRec /\ Shape(hal')
      /\ Keeps(hal, hal', {"pc", "sem", "timer"})
      /\ hal'.pc = "stop"
      /\ hal'.timer = "stopped"
      /\ hal'.sem = n
  <2>1. hal' \in HalRec
    BY <1>1, <1>2, <1>3 DEF HalRec
  <2>2. Shape(hal')
    BY <1>1, <1>2, <1>3 DEF HalRec, Shape, Waiting
  <2>3. /\ Keeps(hal, hal', {"pc", "sem", "timer"})
        /\ hal'.pc = "stop"
        /\ hal'.timer = "stopped"
        /\ hal'.sem = n
    BY <1>1, <1>2, <1>3 DEF HalRec, Keeps
  <2> QED
    BY <2>1, <2>2, <2>3
<1> QED
  BY <1>4 DEF Wake, Typed, n

\* The call returns the status of the answer or of the timer.
LEMMA TCheckStatus ==
  ASSUME Typed, CheckStatus
  PROVE  /\ Typed'
         /\ Keeps(hal, hal', {"pc", "ret"})
         /\ hal'.pc = "disable"
         /\ hal'.ret = hal.stat
<1>1. hal \in HalRec /\ Shape(hal)
  BY DEF Typed
<1>2. /\ hal' \in HalRec /\ Shape(hal')
      /\ Keeps(hal, hal', {"pc", "ret"})
      /\ hal'.pc = "disable"
      /\ hal'.ret = hal.stat
  <2>1. hal' \in HalRec
    BY <1>1 DEF CheckStatus, HalRec
  <2>2. Shape(hal')
    BY <1>1 DEF CheckStatus, HalRec, Shape, Waiting
  <2>3. /\ Keeps(hal, hal', {"pc", "ret"})
        /\ hal'.pc = "disable"
        /\ hal'.ret = hal.stat
    BY <1>1 DEF CheckStatus, HalRec, Keeps
  <2> QED
    BY <2>1, <2>2, <2>3
<1> QED
  BY <1>2 DEF CheckStatus, Typed

\* What the call leaves behind when it ends, and before it starts over.
LEMMA EndTyped ==
  ASSUME Typed, hal.pc = "disable"
  PROVE  /\ Done \in HalRec /\ Shape(Done) /\ Disabled \in HalRec
         /\ Keeps(hal, Disabled, {"ext"})
         /\ \A b \in BOOLEAN : LET e == [Done EXCEPT !.open = b]
              IN e \in HalRec /\ Shape(e) /\ Keeps(hal, e, {"job", "pc", "ext", "todo"})
                 /\ e.job = "none"
         /\ LET e == [Done EXCEPT !.core = 0]
            IN e \in HalRec /\ Shape(e) /\ Keeps(hal, e, {"job", "pc", "ext", "todo"})
               /\ e.job = "none"
         /\ Disabled.job = hal.job /\ ~Disabled.ext /\ Disabled.pc = "disable"
         /\ Disabled.cb = hal.cb /\ Disabled.closing = hal.closing
         /\ Disabled.todo = hal.todo /\ hal.job # "write" /\ hal.job # "none" /\ hal.todo # <<>>
<1> DEFINE e == <<>>
           d == [hal EXCEPT !.ext = FALSE]
           f == [d EXCEPT !.job = "none", !.pc = "idle", !.todo = e]
<1>1. e \in Seq(Steps)
  OBVIOUS
<1>2. hal \in HalRec /\ Shape(hal)
  BY DEF Typed
<1>3. Disabled = d /\ Done = f
  BY DEF Disabled, Done
<1> HIDE DEF e
<1>4. /\ d \in HalRec /\ d.job = hal.job /\ ~d.ext /\ d.pc = "disable" /\ d.cb = hal.cb
      /\ d.closing = hal.closing /\ d.todo = hal.todo
      /\ hal.job # "write" /\ hal.job # "none" /\ hal.todo # <<>>
      /\ Keeps(hal, d, {"ext"})
  BY <1>2 DEF HalRec, Shape, Waiting, Keeps
<1> HIDE DEF d
<1>5. /\ f \in HalRec /\ f.job = "none" /\ f.pc = "idle" /\ ~f.ext /\ (f.cb \/ f.closing)
      /\ Keeps(hal, f, {"job", "pc", "ext", "todo"})
  <2>1. f \in HalRec
    BY <1>1, <1>2, <1>4 DEF HalRec
  <2>2. Keeps(hal, f, {"job", "pc", "ext", "todo"})
    BY <1>1, <1>2, <1>4 DEF HalRec, Keeps
  <2>3. f.job = "none" /\ f.pc = "idle" /\ ~f.ext /\ (f.cb \/ f.closing)
    BY <1>1, <1>2, <1>4 DEF HalRec, Shape
  <2> QED
    BY <2>1, <2>2, <2>3
<1> HIDE DEF f
<1>6. Shape(f)
  BY <1>5 DEF Shape, Waiting
<1>7. ASSUME NEW b \in BOOLEAN
      PROVE  LET g == [f EXCEPT !.open = b]
             IN g \in HalRec /\ Shape(g) /\ Keeps(hal, g, {"job", "pc", "ext", "todo"})
                /\ g.job = "none"
  BY <1>5, <1>6 DEF HalRec, Shape, Waiting, Keeps
<1>8. LET g == [f EXCEPT !.core = 0]
      IN g \in HalRec /\ Shape(g) /\ Keeps(hal, g, {"job", "pc", "ext", "todo"})
         /\ g.job = "none"
  BY <1>5, <1>6 DEF HalRec, Shape, Waiting, Keeps
<1> QED
  BY <1>3, <1>4, <1>5, <1>6, <1>7, <1>8

\* HAL_DISABLE_EXT, and the next command of the call.
LEMMA TNextStep ==
  ASSUME Typed, NextStep
  PROVE  /\ Typed'
         /\ Keeps(hal, hal', {"pc", "ext", "todo", "closing"})
         /\ hal'.pc = "enable"
         /\ hal'.todo = Tail(hal.todo)
         /\ (hal.closing => hal'.closing)
<1> DEFINE t == Tail(hal.todo)
           c == hal.closing \/ hal.job = "close"
           d == Disabled
<1>1. hal' = [d EXCEPT !.pc = "enable", !.todo = t, !.closing = c]
  <2>1. d.todo = hal.todo /\ d.closing = hal.closing
    BY EndTyped DEF NextStep
  <2> HIDE DEF d
  <2>2. hal' = [d EXCEPT !.pc = "enable", !.todo = Tail(@),
                         !.closing = @ \/ hal.job = "close"]
    BY DEF NextStep, d
  <2> QED
    BY <2>1, <2>2
<1>2. hal \in HalRec /\ Shape(hal) /\ hal.pc = "disable" /\ Len(hal.todo) > 1
  BY DEF Typed, NextStep
<1>3. hal.todo \in Seq(Steps) /\ hal.closing \in BOOLEAN
  BY <1>2, HalFields
<1>4. t \in Seq(Steps) /\ t # <<>>
  <2>1. t \in Seq(Steps) /\ Len(t) = Len(hal.todo) - 1
    BY <1>2, <1>3, TailSeq
  <2>2. Len(t) > 0
    BY <1>2, <1>3, <2>1
  <2> HIDE DEF t
  <2> QED
    BY <2>1, <2>2
<1>7. c \in BOOLEAN /\ (hal.job = "close" => c) /\ (hal.closing => c)
  BY <1>3, Zenon
<1>5. d \in HalRec /\ d.job = hal.job /\ ~d.ext /\ d.cb = hal.cb /\ Keeps(hal, d, {"ext"})
      /\ hal.job # "write" /\ hal.job # "none" /\ (hal.cb \/ hal.closing)
  BY <1>2, EndTyped DEF Shape
<1> HIDE DEF t, c, d
<1>6. /\ hal' \in HalRec /\ Shape(hal')
      /\ Keeps(hal, hal', {"pc", "ext", "todo", "closing"})
      /\ hal'.pc = "enable"
      /\ hal'.todo = t
      /\ (hal.closing => hal'.closing)
  <2>1. hal' \in HalRec
    BY <1>1, <1>4, <1>5, <1>7 DEF HalRec
  <2>2. Shape(hal')
    BY <1>1, <1>4, <1>5, <1>7 DEF HalRec, Shape, Waiting
  <2>3. /\ Keeps(hal, hal', {"pc", "ext", "todo", "closing"})
        /\ hal'.pc = "enable"
        /\ hal'.todo = t
        /\ (hal.closing => hal'.closing)
    BY <1>1, <1>4, <1>5, <1>7 DEF HalRec, Keeps
  <2> QED
    BY <2>1, <2>2, <2>3
<1> QED
  BY <1>6 DEF NextStep, Typed, t

\* A message for the client thread.
LEMMA PostTyped ==
  ASSUME Typed, NEW m \in Message, Post(m)
  PROVE  q' \in Seq(Message)
BY DEF Typed, Post

\* The HAL is open.
LEMMA TOpenDone ==
  ASSUME Typed, OpenDone
  PROVE  /\ Typed'
         /\ Keeps(hal, hal', {"job", "pc", "ext", "todo"})
         /\ hal'.job = "none"
<1> DEFINE d == Done
<1>1. hal' = [d EXCEPT !.open = TRUE] /\ hal.pc = "disable" /\ Post("open_cplt")
  BY DEF OpenDone, LastStep
<1> HIDE DEF d
<1>2. /\ hal' \in HalRec /\ Shape(hal')
      /\ Keeps(hal, hal', {"job", "pc", "ext", "todo"})
      /\ hal'.job = "none"
  BY <1>1, EndTyped DEF d
<1>3. q' \in Seq(Message)
  BY <1>1, PostTyped DEF Message
<1> QED
  BY <1>2, <1>3 DEF OpenDone, Typed

\* The configuration is done, or the stack gets the packet read last.
LEMMA TCoreDone ==
  ASSUME Typed, CoreDone
  PROVE  /\ Typed'
         /\ IF hal.recover THEN up' = Heard(up, tml.buf) /\ q' = q
                           ELSE up' = up /\ q' = Append(q, "post_init_cplt")
         /\ Keeps(hal, hal', {"job", "pc", "ext", "todo"})
         /\ hal'.job = "none"
<1>1. hal' = [Done EXCEPT !.core = 0] /\ hal.pc = "disable"
  BY DEF CoreDone, LastStep
<1>2. /\ hal' \in HalRec /\ Shape(hal')
      /\ Keeps(hal, hal', {"job", "pc", "ext", "todo"})
      /\ hal'.job = "none"
  BY <1>1, EndTyped
<1>3. /\ q' = q \/ Post("post_init_cplt")
      /\ up' = up \/ up' = Heard(up, tml.buf)
  BY DEF CoreDone
<1>4. q' \in Seq(Message) /\ up' \in UpRec
  BY <1>3, PostTyped, HeardTyped, Parts DEF Message
<1> QED
  BY <1>2, <1>4 DEF CoreDone, Typed, Post

\* An open that failed resets the NFCC and starts over.
LEMMA TOpenAgain ==
  ASSUME Typed, OpenAgain
  PROVE  /\ Typed' /\ Emptied
         /\ Keeps(hal, hal', {"pc", "ext", "todo"})
         /\ hal'.pc = "enable"
<1> DEFINE d == Disabled
           n == d.tries + 1
           t == <<"RESET", "INIT">>
<1>1. /\ hal' = [d EXCEPT !.tries = n, !.pc = "enable", !.todo = t]
      /\ hal.pc = "disable" /\ hal.job = "open" /\ ResetDevice /\ Post("open_cplt")
  BY DEF OpenAgain
<1>2. /\ d \in HalRec /\ d.job = hal.job /\ ~d.ext /\ d.cb = hal.cb
      /\ d.closing = hal.closing /\ Keeps(hal, d, {"ext"})
  BY <1>1, EndTyped
<1>3. hal \in HalRec /\ Shape(hal)
  BY DEF Typed
<1>4. n \in Nat /\ t \in Seq(Steps) /\ t # <<>>
  BY <1>2, HalFields, Lists
<1> HIDE DEF d, n, t
<1>5. /\ hal' \in HalRec /\ Shape(hal')
      /\ Keeps(hal, hal', {"pc", "ext", "todo"})
      /\ hal'.pc = "enable"
  <2>1. hal' \in HalRec
    BY <1>1, <1>2, <1>3, <1>4 DEF HalRec
  <2>2. Shape(hal')
    BY <1>1, <1>2, <1>3, <1>4 DEF HalRec, Shape, Waiting
  <2>3. /\ Keeps(hal, hal', {"pc", "ext", "todo"})
        /\ hal'.pc = "enable"
    BY <1>1, <1>2, <1>3, <1>4 DEF HalRec, Keeps
  <2> QED
    BY <2>1, <2>2, <2>3
<1>6. q' \in Seq(Message)
  BY <1>1, PostTyped DEF Message
<1> QED
  BY <1>1, <1>5, <1>6, ResetTyped DEF OpenAgain, Typed, Emptied

\* The firmware is downloaded by force, and the open ends either way.
LEMMA TForceDownload ==
  ASSUME Typed, ForceDownload
  PROVE  /\ Typed'
         /\ Keeps(hal, hal', {"job", "pc", "ext", "todo"})
         /\ hal'.job = "none"
<1>1. hal.pc = "disable" /\ /\ hal' \in HalRec /\ Shape(hal')
      /\ Keeps(hal, hal', {"job", "pc", "ext", "todo"})
      /\ hal'.job = "none"
  BY EndTyped DEF ForceDownload
<1>2. Post("open_cplt") \/ Post("error")
  BY DEF ForceDownload
<1>3. q' \in Seq(Message)
  BY <1>2, PostTyped DEF Message
<1> QED
  BY <1>1, <1>3 DEF ForceDownload, Typed

\* An open that failed too often shuts the TML down.
LEMMA TOpenFailed ==
  ASSUME Typed, OpenFailed
  PROVE  /\ Typed'
         /\ ~tml'.run /\ KeepsTml(tml, tml', {"run", "rsem"})
         /\ Keeps(hal, hal', {"pc", "ext", "todo"})
         /\ hal'.pc = "join"
<1> DEFINE d == Disabled
           e == <<>>
<1>1. /\ hal' = [d EXCEPT !.pc = "join", !.todo = e]
      /\ hal.pc = "disable" /\ hal.job = "open" /\ tml' = Shutdown(tml)
  BY DEF OpenFailed
<1>2. /\ d \in HalRec /\ d.job = hal.job /\ ~d.ext /\ d.cb = hal.cb
      /\ d.closing = hal.closing /\ Keeps(hal, d, {"ext"})
  BY <1>1, EndTyped
<1>3. hal \in HalRec /\ Shape(hal)
  BY DEF Typed
<1>4. e \in Seq(Steps)
  OBVIOUS
<1> HIDE DEF d, e
<1>5. /\ hal' \in HalRec /\ Shape(hal')
      /\ Keeps(hal, hal', {"pc", "ext", "todo"})
      /\ hal'.pc = "join"
  <2>1. hal' \in HalRec
    BY <1>1, <1>2, <1>3, <1>4 DEF HalRec
  <2>2. Shape(hal')
    BY <1>1, <1>2, <1>3, <1>4 DEF HalRec, Shape, Waiting
  <2>3. /\ Keeps(hal, hal', {"pc", "ext", "todo"})
        /\ hal'.pc = "join"
    BY <1>1, <1>2, <1>3, <1>4 DEF HalRec, Keeps
  <2> QED
    BY <2>1, <2>2, <2>3
<1>6. tml' \in TmlRec /\ ~tml'.run /\ KeepsTml(tml, tml', {"run", "rsem"})
  BY <1>1, Parts, ShutdownTyped
<1> QED
  BY <1>5, <1>6 DEF OpenFailed, Typed

\* A configuration that failed starts over or gives up.
LEMMA TCoreAgain ==
  ASSUME Typed, CoreAgain
  PROVE  /\ Typed'
         /\ Keeps(hal, hal', {"job", "todo", "pc", "ext"})
         /\ \/ hal'.job = "none" /\ nfcc' = nfcc
            \/ /\ hal'.job = "core" /\ hal'.pc = "enable" /\ Emptied
               /\ hal.recover => hal'.todo[Len(hal'.todo)] = "LAST"
<1> DEFINE d == Disabled
           n == d.core + 1
           h == [d EXCEPT !.core = n]
<1>1. hal.pc = "disable" /\ hal.job = "core" /\ RetryCoreInit(h)
  BY DEF CoreAgain
<1>2. /\ d \in HalRec /\ d.job = hal.job /\ ~d.ext /\ d.cb = hal.cb
      /\ d.closing = hal.closing /\ Keeps(hal, d, {"ext"})
  BY <1>1, EndTyped
<1>3. hal.cb \/ hal.closing
  BY DEF Typed, Shape
<1>4. n \in Nat
  BY <1>2, HalFields
<1> HIDE DEF d, n
<1>5. /\ h \in HalRec /\ h.job = "core" /\ ~h.ext /\ (h.cb \/ h.closing)
      /\ Keeps(hal, h, {"ext"})
  BY <1>1, <1>2, <1>3, <1>4 DEF HalRec, Keeps
<1> HIDE DEF h
<1>6. /\ hal' \in HalRec /\ Shape(hal') /\ Retried(h)
      /\ nfcc' \in NfccRec /\ Len(nfcc'.out) <= nfcc'.sent
  BY <1>1, <1>5, RetryTyped
<1>7. Keeps(hal, hal', {"job", "todo", "pc", "ext"}) /\ h.recover = hal.recover
  BY <1>5, <1>6 DEF Retried, Keeps
<1>8. \/ hal'.job = "none" /\ nfcc' = nfcc
      \/ /\ hal'.job = "core" /\ hal'.pc = "enable" /\ Emptied
         /\ hal.recover => hal'.todo[Len(hal'.todo)] = "LAST"
  BY <1>6, <1>7 DEF Retried
<1> QED
  BY <1>6, <1>7, <1>8 DEF CoreAgain, Typed

\* A close that sent its commands ends the reads and the writes.
LEMMA TCloseDone ==
  ASSUME Typed, CloseDone
  PROVE  /\ Typed'
         /\ hal'.closing
         /\ KeepsTml(tml, tml', {"rbusy", "renable", "wenable"})
         /\ ~tml'.renable /\ ~tml'.rbusy /\ ~tml'.wenable
         /\ Keeps(hal, hal', {"pc", "ext", "todo", "timer"})
         /\ hal'.pc = "shutdown"
         /\ hal'.timer = "off"
<1> DEFINE d == Disabled
           e == <<>>
<1>1. /\ hal' = [d EXCEPT !.pc = "shutdown", !.todo = e, !.timer = "off"]
      /\ hal.pc = "disable" /\ hal.job = "close" /\ Post("close_cplt")
      /\ tml' = [tml EXCEPT !.renable = FALSE, !.rbusy = FALSE, !.wenable = FALSE,
                            !.wbusy = FALSE]
      /\ Len(hal.todo) = 1
  BY DEF CloseDone, LastStep
<1>2. /\ d \in HalRec /\ d.job = hal.job /\ ~d.ext /\ d.cb = hal.cb
      /\ d.closing = hal.closing /\ Keeps(hal, d, {"ext"})
  BY <1>1, EndTyped
<1>3. hal \in HalRec /\ Shape(hal) /\ tml \in TmlRec
  BY DEF Typed
<1>4. e \in Seq(Steps)
  OBVIOUS
<1> HIDE DEF d, e
<1>8. hal.closing
  BY <1>1, <1>3 DEF Shape
<1>5. /\ hal' \in HalRec /\ Shape(hal')
      /\ Keeps(hal, hal', {"pc", "ext", "todo", "timer"})
      /\ hal'.pc = "shutdown"
      /\ hal'.timer = "off"
  <2>1. hal' \in HalRec
    <3>1. hal' = [d EXCEPT !.pc = "shutdown", !.todo = e, !.timer = "off"]
      BY <1>1
    <3>2. d \in HalRec
      BY <1>2
    <3> QED
      BY ZenonT(60), <1>4, <3>1, <3>2 DEF HalRec
  <2>2. Shape(hal')
    BY <1>1, <1>2, <1>4, <1>8 DEF HalRec, Shape, Waiting
  <2>3. /\ Keeps(hal, hal', {"pc", "ext", "todo", "timer"})
        /\ hal'.pc = "shutdown"
        /\ hal'.timer = "off"
    BY <1>1, <1>2, <1>4 DEF HalRec, Keeps
  <2> QED
    BY <2>1, <2>2, <2>3
<1>6. /\ tml' \in TmlRec /\ KeepsTml(tml, tml', {"rbusy", "renable", "wenable"})
      /\ ~tml'.renable /\ ~tml'.rbusy /\ ~tml'.wenable
  BY <1>1, <1>3 DEF TmlRec, KeepsTml
<1>9. hal'.closing
  BY <1>5, <1>8 DEF Keeps
<1>7. q' \in Seq(Message)
  BY <1>1, PostTyped DEF Message
<1> QED
  BY <1>5, <1>6, <1>7, <1>9 DEF CloseDone, Typed

\* A close shuts the TML down.
LEMMA TCloseShutdown ==
  ASSUME Typed, CloseShutdown
  PROVE  /\ Typed'
         /\ ~tml'.run /\ KeepsTml(tml, tml', {"run", "rsem"})
         /\ Keeps(hal, hal', {"pc"})
         /\ hal'.pc = "join"
<1>1. hal \in HalRec /\ Shape(hal)
  BY DEF Typed
<1>2. /\ hal' \in HalRec /\ Shape(hal')
      /\ Keeps(hal, hal', {"pc"})
      /\ hal'.pc = "join"
  <2>1. hal' \in HalRec
    BY <1>1 DEF CloseShutdown, HalRec
  <2>2. Shape(hal')
    BY <1>1 DEF CloseShutdown, HalRec, Shape, Waiting
  <2>3. /\ Keeps(hal, hal', {"pc"})
        /\ hal'.pc = "join"
    BY <1>1 DEF CloseShutdown, HalRec, Keeps
  <2> QED
    BY <2>1, <2>2, <2>3
<1>3. tml' \in TmlRec /\ ~tml'.run /\ KeepsTml(tml, tml', {"run", "rsem"})
  BY Parts, ShutdownTyped DEF CloseShutdown
<1> QED
  BY <1>2, <1>3 DEF CloseShutdown, Typed

\* Both threads of the TML ended, and the call returns.
LEMMA TJoin ==
  ASSUME Typed, Join
  PROVE  /\ Typed'
         /\ hal'.job = "none" /\ hal'.closing /\ hal'.wdone = "no" /\ hal'.timer = "off"
         /\ ~tml'.on /\ ~tml'.run /\ ~tml'.renable /\ ~tml'.wenable
         /\ tml'.rd = "off" /\ tml'.wr = "off"
         /\ KeepsUp(up, up', {}) /\ q' = <<>>
<1> DEFINE n == hal.core
<1>1. hal' = [HalClosed EXCEPT !.core = n] /\ tml' = TmlOff /\ q' = <<>>
  BY DEF Join
<1>2. n \in Nat /\ HalClosed \in HalRec
  BY Parts, HalFields, Constants
<1> HIDE DEF n
<1>3. hal' \in HalRec
  BY <1>1, <1>2 DEF HalRec
<1>4. /\ Shape(hal') /\ hal'.job = "none" /\ hal'.closing /\ hal'.wdone = "no"
      /\ hal'.timer = "off"
  BY <1>1 DEF HalClosed, Shape, Waiting
<1>5. up' \in UpRec /\ KeepsUp(up, up', {})
  <2> DEFINE b == up.failed \/ hal.job = "open"
  <2>1. up' = [up EXCEPT !.failed = b]
    BY DEF Join
  <2>2. b \in BOOLEAN /\ up \in UpRec
    BY DEF Typed
  <2> HIDE DEF b
  <2> QED
    BY <2>1, <2>2 DEF UpRec, KeepsUp
<1>6. /\ ~tml'.on /\ ~tml'.run /\ ~tml'.renable /\ ~tml'.wenable
      /\ tml'.rd = "off" /\ tml'.wr = "off"
  BY <1>1 DEF TmlOff
<1> QED
  BY <1>1, <1>3, <1>4, <1>5, <1>6, Constants DEF Join, Typed

-------------------------------------------------------------------------------
(* The client thread, the timer, the reader and writer, and the NFCC.        *)

\* The client thread takes the message at the head of its queue.
LEMMA TakeTyped ==
  ASSUME Typed, NEW m, Takes(m)
  PROVE  q' \in Seq(Message) /\ q # <<>> /\ q' = Tail(q) /\ Head(q) = m
BY TailSeq DEF Takes, Typed

\* A packet goes to the semaphore of the HAL or up, and no read is pending.
LEMMA TTakeRead ==
  ASSUME Typed, TakeRead
  PROVE  /\ Typed' /\ Takes("read")
         /\ IF hal.ext /\ HasBit40(tml.buf) /\ SemExists
              THEN /\ Keeps(hal, hal', {"sem", "got", "stat"})
                   /\ hal'.sem = hal.sem + 1 /\ hal'.got = tml.buf.id
                   /\ hal'.stat = IF tml.buf.k = "bad_rsp" THEN "failed" ELSE hal.stat
              ELSE Keeps(hal, hal', {})
         /\ nfcc'.seen = tml.buf.n /\ nfcc'.out = nfcc.out /\ nfcc'.held = nfcc.held
         /\ nfcc'.sent = nfcc.sent
         /\ up' = up \/ up' = Heard(up, tml.buf)
         /\ hal.ext /\ HasBit40(tml.buf) => up' = up
         /\ KeepsTml(tml, tml', {"rbusy"}) /\ ~tml'.rbusy /\ client' = "taken"
<1> DEFINE p == tml.buf
           n == hal.sem + 1
           i == p.id
           s == IF p.k = "bad_rsp" THEN "failed" ELSE hal.stat
           r == p.n
           c == hal.ext /\ HasBit40(p) /\ SemExists
<1>1. /\ hal' = IF c THEN [hal EXCEPT !.rx = TRUE, !.sem = n, !.got = i, !.stat = s]
                     ELSE [hal EXCEPT !.rx = TRUE]
      /\ nfcc' = [nfcc EXCEPT !.seen = r] /\ Takes("read")
      /\ up' = up \/ up' = Heard(up, p)
      /\ tml' = [tml EXCEPT !.rbusy = FALSE] /\ client' = "taken"
  BY DEF TakeRead
<1>a. hal.ext /\ HasBit40(p) => up' = up
  BY DEF TakeRead
<1>2. hal \in HalRec /\ Shape(hal) /\ tml \in TmlRec /\ nfcc \in NfccRec /\ up \in UpRec
      /\ Len(nfcc.out) <= nfcc.sent
  BY DEF Typed
<1>3. n \in Nat /\ s \in {"ok", "failed"} /\ p \in Packets
  BY <1>2, HalFields, TmlFields
<1>4. i \in Nat /\ r \in Nat
  BY <1>3 DEF Packets
<1> HIDE DEF p, n, i, s, r, c
<1>5. /\ hal' \in HalRec /\ Shape(hal')
      /\ IF c THEN /\ Keeps(hal, hal', {"sem", "got", "stat"})
                   /\ hal'.sem = n /\ hal'.got = i /\ hal'.stat = s
              ELSE Keeps(hal, hal', {})
  <2>1. hal \in HalRec /\ Shape(hal)
    BY <1>2
  <2>2. CASE c
    <3>1. hal' = [hal EXCEPT !.rx = TRUE, !.sem = n, !.got = i, !.stat = s]
      BY <1>1, <2>2
    <3>2. hal' \in HalRec
      BY <1>3, <1>4, <2>1, <3>1 DEF HalRec
    <3>3. Shape(hal')
      BY <2>1, <3>1 DEF HalRec, Shape
    <3>4. /\ Keeps(hal, hal', {"sem", "got", "stat"})
          /\ hal'.sem = n /\ hal'.got = i /\ hal'.stat = s
      BY <2>1, <3>1 DEF HalRec, Keeps
    <3> QED
      BY <2>2, <3>2, <3>3, <3>4
  <2>3. CASE ~c
    <3>1. hal' = [hal EXCEPT !.rx = TRUE]
      BY <1>1, <2>3
    <3>2. hal' \in HalRec
      BY <2>1, <3>1 DEF HalRec
    <3>3. Shape(hal')
      BY <2>1, <3>1 DEF HalRec, Shape
    <3>4. Keeps(hal, hal', {})
      BY <2>1, <3>1 DEF HalRec, Keeps
    <3> QED
      BY <2>3, <3>2, <3>3, <3>4
  <2> QED
    BY <2>2, <2>3
<1>7. /\ nfcc' \in NfccRec /\ nfcc'.out = nfcc.out /\ nfcc'.sent = nfcc.sent
      /\ nfcc'.held = nfcc.held /\ nfcc'.seen = r
  BY <1>1, <1>2, <1>4 DEF NfccRec
<1>8. tml' \in TmlRec /\ KeepsTml(tml, tml', {"rbusy"}) /\ ~tml'.rbusy
  BY <1>1, <1>2 DEF TmlRec, KeepsTml
<1>9. up' \in UpRec /\ q' \in Seq(Message)
  BY <1>1, <1>2, HeardTyped, TakeTyped
<1>c. Typed' /\ Takes("read")
  BY <1>1, <1>2, <1>5, <1>7, <1>8, <1>9 DEF TakeRead, Typed
<1> QED
  BY <1>1, <1>5, <1>7, <1>8, <1>a, <1>c DEF p, n, i, s, r, c

\* The next read begins, unless the HAL is closing.
LEMMA TReadAgain ==
  ASSUME Typed, TestClosing \/ ReadAgain
  PROVE  /\ Typed' /\ hal' = hal /\ q' = q /\ nfcc' = nfcc /\ up' = up
         /\ \/ /\ client = "taken" /\ tml' = tml
               /\ client' = IF hal.closing THEN "on" ELSE "rearm"
            \/ /\ client = "rearm" /\ client' = "on"
               /\ KeepsTml(tml, tml', {"rbusy", "renable", "rsem"})
               /\ tml'.rbusy /\ tml'.renable /\ tml'.rsem = tml.rsem + 1
<1>1. CASE TestClosing
  BY <1>1 DEF TestClosing, Typed
<1>2. CASE ReadAgain
  <2> DEFINE d == "rx"
  <2>1. d \in {"rx", "cmd"} /\ tml' = ReadInto(tml, d) /\ tml \in TmlRec
    BY <1>2 DEF ReadAgain, Typed
  <2> HIDE DEF d
  <2>2. /\ tml' \in TmlRec /\ KeepsTml(tml, tml', {"rbusy", "renable", "rsem"})
        /\ tml'.rbusy /\ tml'.renable /\ tml'.rsem = tml.rsem + 1
    BY <2>1, ReadIntoTyped
  <2> QED
    BY <1>2, <2>2 DEF ReadAgain, Typed
<1> QED
  BY <1>1, <1>2

\* The stack is told that reads fail.
LEMMA TTakeComError ==
  ASSUME Typed, TakeComError
  PROVE  /\ Typed' /\ KeepsTml(tml, tml', {"rbusy"}) /\ KeepsUp(up, up', {"error"})
         /\ (hal.cb \/ up.error => up'.error)
<1> DEFINE b == up.error \/ hal.cb
<1>1. /\ tml' = [tml EXCEPT !.rbusy = FALSE] /\ up' = [up EXCEPT !.error = b]
      /\ Takes("com_error")
  BY DEF TakeComError
<1>2. tml \in TmlRec /\ up \in UpRec /\ b \in BOOLEAN
  BY DEF Typed
<1>a. hal.cb \/ up.error => b
  OBVIOUS
<1> HIDE DEF b
<1>3. tml' \in TmlRec /\ KeepsTml(tml, tml', {"rbusy"})
  BY <1>1, <1>2 DEF TmlRec, KeepsTml
<1>4. up' \in UpRec /\ KeepsUp(up, up', {"error"}) /\ up'.error = b
  BY <1>1, <1>2 DEF UpRec, KeepsUp
<1> QED
  BY <1>1, <1>3, <1>4, <1>a, TakeTyped DEF TakeComError, Typed

\* The call that waits for the write learns how it went.
LEMMA TTakeWritten ==
  ASSUME Typed, TakeWritten
  PROVE  /\ Typed' /\ KeepsTml(tml, tml', {}) /\ Keeps(hal, hal', {"wdone"})
         /\ \/ Takes("written") /\ hal'.wdone = "ok"
            \/ Takes("unwritten") /\ hal'.wdone = "failed"
<1> DEFINE w == IF Head(q) = "written" THEN "ok" ELSE "failed"
<1>1. /\ tml' = [tml EXCEPT !.wbusy = FALSE] /\ hal' = [hal EXCEPT !.wdone = w]
      /\ Takes("written") \/ Takes("unwritten")
      /\ (Takes("written") => w = "ok") /\ (Takes("unwritten") => w = "failed")
  BY DEF TakeWritten, Takes
<1>2. hal \in HalRec /\ Shape(hal) /\ tml \in TmlRec /\ w \in {"no", "ok", "failed"}
  BY DEF Typed
<1> HIDE DEF w
<1>3. tml' \in TmlRec /\ KeepsTml(tml, tml', {})
  BY <1>1, <1>2 DEF TmlRec, KeepsTml
<1>4. /\ hal' \in HalRec /\ Shape(hal') /\ Keeps(hal, hal', {"wdone"})
      /\ hal'.wdone = w
  <2>1. hal' \in HalRec
    BY <1>1, <1>2 DEF HalRec
  <2>2. Shape(hal')
    BY <1>1, <1>2 DEF HalRec, Shape, Waiting
  <2>3. /\ Keeps(hal, hal', {"wdone"})
        /\ hal'.wdone = w
    BY <1>1, <1>2 DEF HalRec, Keeps
  <2> QED
    BY <2>1, <2>2, <2>3
<1>5. q' \in Seq(Message)
  BY <1>1, TakeTyped
<1> QED
  BY <1>1, <1>3, <1>4, <1>5 DEF TakeWritten, Typed

\* The callback of a timer that is not gone sets the status.
LEMMA TTakeExpired ==
  ASSUME Typed, TakeExpired
  PROVE  /\ Typed' /\ Keeps(hal, hal', {"stat"})
         /\ IF hal.timer = "off" THEN hal' = hal /\ client' = client
              ELSE hal'.stat = "failed" /\ client' = "posting"
<1>1. hal \in HalRec /\ Shape(hal) /\ client \in {"on", "posting", "taken", "rearm", "off"}
  BY DEF Typed
<1>2. /\ IF hal.timer = "off" THEN hal' = hal /\ client' = client
           ELSE hal' = [hal EXCEPT !.stat = "failed"] /\ client' = "posting"
      /\ Takes("expired")
  BY DEF TakeExpired
<1>3. /\ hal' \in HalRec /\ Shape(hal') /\ Keeps(hal, hal', {"stat"})
      /\ IF hal.timer = "off" THEN hal' = hal /\ client' = client
           ELSE hal'.stat = "failed" /\ client' = "posting"
  <2>1. hal' \in HalRec
    BY <1>1, <1>2 DEF HalRec
  <2>2. Shape(hal')
    BY <1>1, <1>2 DEF HalRec, Shape, Waiting
  <2>3. /\ Keeps(hal, hal', {"stat"})
        /\ IF hal.timer = "off" THEN hal' = hal /\ client' = client
             ELSE hal'.stat = "failed" /\ client' = "posting"
    BY <1>1, <1>2 DEF HalRec, Keeps
  <2> QED
    BY <2>1, <2>2, <2>3
<1> QED
  BY <1>1, <1>2, <1>3, TakeTyped DEF TakeExpired, Typed

\* The callback of the timer posts the semaphore, if there is one.
LEMMA TPostExpired ==
  ASSUME Typed, PostExpired
  PROVE  /\ Typed' /\ Keeps(hal, hal', {"sem"})
         /\ hal'.sem = (IF SemExists THEN hal.sem + 1 ELSE hal.sem)
<1> DEFINE n == hal.sem + 1
<1>1. hal' = IF SemExists THEN [hal EXCEPT !.sem = n] ELSE hal
  BY DEF PostExpired
<1>2. hal \in HalRec /\ Shape(hal)
  BY DEF Typed
<1>3. n \in Nat
  BY <1>2, HalFields
<1> HIDE DEF n
<1>4. /\ hal' \in HalRec /\ Shape(hal') /\ Keeps(hal, hal', {"sem"})
      /\ hal'.sem = (IF SemExists THEN n ELSE hal.sem)
  <2>1. hal' \in HalRec
    BY <1>1, <1>2, <1>3 DEF HalRec
  <2>2. Shape(hal')
    BY <1>1, <1>2, <1>3 DEF HalRec, Shape, Waiting
  <2>3. /\ Keeps(hal, hal', {"sem"})
        /\ hal'.sem = (IF SemExists THEN n ELSE hal.sem)
    BY <1>1, <1>2, <1>3 DEF HalRec, Keeps
  <2> QED
    BY <2>1, <2>2, <2>3
<1> QED
  BY <1>4 DEF PostExpired, Typed, n

\* The stack is told what a call came to.
LEMMA TTakeEvent ==
  ASSUME Typed, TakeEvent
  PROVE  /\ Typed' /\ KeepsUp(up, up', {"error"}) /\ (up.error => up'.error)
         /\ Takes("open_cplt") \/ Takes("post_init_cplt") \/ Takes("error")
<1> DEFINE o == up.opened \/ hal.cb
           i == up.inited \/ hal.cb
           b == up.error \/ hal.cb
<1>1. /\ \/ Takes("open_cplt") /\ up' = [up EXCEPT !.opened = o]
         \/ Takes("post_init_cplt") /\ up' = [up EXCEPT !.inited = i]
         \/ Takes("error") /\ up' = [up EXCEPT !.error = b]
  BY DEF TakeEvent
<1>2. up \in UpRec /\ o \in BOOLEAN /\ i \in BOOLEAN /\ b \in BOOLEAN
  BY DEF Typed
<1>a. up.error => b
  OBVIOUS
<1> HIDE DEF o, i, b
<1>3. up' \in UpRec /\ KeepsUp(up, up', {"error"}) /\ (up.error => up'.error)
  <2>1. CASE up' = [up EXCEPT !.opened = o]
    BY <1>2, <2>1 DEF UpRec, KeepsUp
  <2>2. CASE up' = [up EXCEPT !.inited = i]
    BY <1>2, <2>2 DEF UpRec, KeepsUp
  <2>3. CASE up' = [up EXCEPT !.error = b]
    BY <1>2, <1>a, <2>3 DEF UpRec, KeepsUp
  <2> QED
    BY <1>1, <2>1, <2>2, <2>3
<1>4. q' \in Seq(Message)
  BY <1>1, TakeTyped
<1> QED
  BY <1>1, <1>3, <1>4 DEF TakeEvent, Typed

\* The client thread ends; the completion of a close is only on its way when the HAL
\* is closing.
LEMMA TTakeClosed ==
  ASSUME Typed, TakeClosed, hal.closing
  PROVE  /\ Typed' /\ Keeps(hal, hal', {"cb"}) /\ KeepsUp(up, up', {})
<1>1. hal \in HalRec /\ Shape(hal) /\ up \in UpRec
  BY DEF Typed
<1>2. hal' \in HalRec /\ Shape(hal') /\ Keeps(hal, hal', {"cb"})
  <2>1. hal' \in HalRec
    BY <1>1 DEF TakeClosed, HalRec
  <2>2. Shape(hal')
    BY <1>1 DEF TakeClosed, HalRec, Shape, Waiting
  <2>3. /\ Keeps(hal, hal', {"cb"})
    BY <1>1 DEF TakeClosed, HalRec, Keeps
  <2> QED
    BY <2>1, <2>2, <2>3
<1>3. up' \in UpRec /\ KeepsUp(up, up', {})
  BY <1>1 DEF TakeClosed, UpRec, KeepsUp
<1>4. q' \in Seq(Message)
  BY TakeTyped DEF TakeClosed
<1> QED
  BY <1>2, <1>3, <1>4 DEF TakeClosed, Typed

\* The timer expires and leaves a message.
LEMMA TTimerExpires ==
  ASSUME Typed, TimerExpires
  PROVE  /\ Typed' /\ Keeps(hal, hal', {"timer"}) /\ hal'.timer = "stopped"
<1>1. hal \in HalRec /\ Shape(hal)
  BY DEF Typed
<1>2. /\ hal' \in HalRec /\ Shape(hal') /\ Keeps(hal, hal', {"timer"})
      /\ hal'.timer = "stopped"
  <2>1. hal' \in HalRec
    BY <1>1 DEF TimerExpires, HalRec
  <2>2. Shape(hal')
    BY <1>1 DEF TimerExpires, HalRec, Shape, Waiting
  <2>3. /\ Keeps(hal, hal', {"timer"})
        /\ hal'.timer = "stopped"
    BY <1>1 DEF TimerExpires, HalRec, Keeps
  <2> QED
    BY <2>1, <2>2, <2>3
<1>3. used' \in UsedRec
  BY Parts, UsedTyped DEF TimerExpires
<1>4. q' \in Seq(Message)
  BY PostTyped DEF TimerExpires, Message
<1> QED
  BY <1>2, <1>3, <1>4 DEF TimerExpires, Typed

\* The reader begins a read that is enabled, or ends on shutdown.
LEMMA TReaderWakes ==
  ASSUME Typed, ReaderWakes
  PROVE  /\ Typed' /\ KeepsTml(tml, tml', {"rsem", "rd"})
         /\ tml'.rd = (IF tml.renable THEN "read" ELSE IF tml.run THEN tml.rd ELSE "off")
<1> DEFINE n == tml.rsem - 1
           r == IF tml.renable THEN "read" ELSE IF tml.run THEN tml.rd ELSE "off"
<1>1. tml' = [tml EXCEPT !.rsem = n, !.rd = r] /\ tml.rsem > 0
  BY DEF ReaderWakes
<1>2. tml \in TmlRec
  BY DEF Typed
<1>3. n \in Nat /\ r \in {"off", "wait", "read"}
  BY <1>1, <1>2, TmlFields
<1> HIDE DEF n, r
<1>4. tml' \in TmlRec /\ KeepsTml(tml, tml', {"rsem", "rd"}) /\ tml'.rd = r
  BY <1>1, <1>2, <1>3 DEF TmlRec, KeepsTml
<1> QED
  BY <1>4 DEF ReaderWakes, Typed, r

\* A packet is read, and the next read waits until it is enabled.
LEMMA TReaderGets ==
  ASSUME Typed, ReaderGets
  PROVE  /\ Typed' /\ Keeps(hal, hal', {"cmd"}) /\ hal'.cmd \in {hal.cmd, 0}
         /\ KeepsTml(tml, tml', {"rd", "renable", "buf"})
         /\ tml'.rd # "read" /\ ~tml'.renable /\ tml'.buf = Head(nfcc.out)
         /\ nfcc'.out = Tail(nfcc.out) /\ nfcc'.held = nfcc.held /\ nfcc'.seen = nfcc.seen
         /\ nfcc'.sent = nfcc.sent
<1> DEFINE l == Looping
           b == Head(nfcc.out)
           o == Tail(nfcc.out)
<1>1. /\ tml' = [tml EXCEPT !.errs = 0, !.rd = l, !.renable = FALSE, !.buf = b]
      /\ hal' = [hal EXCEPT !.cmd = 0] \/ hal' = hal
      /\ nfcc' = [nfcc EXCEPT !.out = o] /\ nfcc.out # <<>> /\ Post("read")
  BY DEF ReaderGets
<1>2. hal \in HalRec /\ Shape(hal) /\ tml \in TmlRec /\ nfcc \in NfccRec
      /\ Len(nfcc.out) <= nfcc.sent
  BY DEF Typed
<1>3. nfcc.out \in Seq(Packets) /\ nfcc.sent \in Nat
  BY <1>2, NfccFields
<1>4. l \in {"off", "wait"} /\ b \in Packets /\ o \in Seq(Packets)
      /\ Len(o) <= nfcc.sent
  BY <1>1, <1>2, <1>3, TailSeq DEF Looping
<1> HIDE DEF l, b, o
<1>5. /\ hal' \in HalRec /\ Shape(hal') /\ Keeps(hal, hal', {"cmd"})
      /\ hal'.cmd \in {hal.cmd, 0}
  <2>1. hal' \in HalRec
    BY <1>1, <1>2 DEF HalRec
  <2>2. Shape(hal')
    BY <1>1, <1>2 DEF HalRec, Shape, Waiting
  <2>3. /\ Keeps(hal, hal', {"cmd"})
        /\ hal'.cmd \in {hal.cmd, 0}
    BY <1>1, <1>2 DEF HalRec, Keeps
  <2> QED
    BY <2>1, <2>2, <2>3
<1>6. /\ tml' \in TmlRec /\ KeepsTml(tml, tml', {"rd", "renable", "buf"})
      /\ tml'.rd = l /\ ~tml'.renable /\ tml'.buf = b
  BY <1>1, <1>2, <1>4 DEF TmlRec, KeepsTml
<1>7. /\ nfcc' \in NfccRec /\ nfcc'.out = o /\ nfcc'.sent = nfcc.sent
      /\ nfcc'.held = nfcc.held /\ nfcc'.seen = nfcc.seen
  BY <1>1, <1>2, <1>4 DEF NfccRec
<1>8. q' \in Seq(Message)
  BY <1>1, PostTyped DEF Message
<1>9. Typed'
  BY <1>4, <1>5, <1>6, <1>7, <1>8 DEF ReaderGets, Typed
<1> QED
  BY <1>4, <1>5, <1>6, <1>7, <1>9 DEF b, o

\* A read that failed is repeated, or reported and not taken up again.
LEMMA ReaderErrorTyped ==
  ASSUME Typed, ReaderError
  PROVE  /\ tml' \in TmlRec /\ q' \in Seq(Message)
         /\ \/ /\ KeepsTml(tml, tml', {"rsem", "rd"}) /\ tml'.rsem = tml.rsem + 1
               /\ tml'.rd # "read" /\ q' = q
            \/ /\ KeepsTml(tml, tml', {"renable", "rd"}) /\ ~tml'.renable
               /\ tml'.rd # "read" /\ q' = Append(q, "com_error")
<1> DEFINE l == Looping
           e == tml.errs + 1
           n == tml.rsem + 1
<1>1. \/ tml' = [tml EXCEPT !.errs = e, !.rsem = n, !.rd = l] /\ q' = q
      \/ tml' = [tml EXCEPT !.errs = 0, !.renable = FALSE, !.rd = l] /\ Post("com_error")
  BY DEF ReaderError
<1>2. tml \in TmlRec
  BY DEF Typed
<1>3. l \in {"off", "wait"} /\ e \in Nat /\ n \in Nat
  BY <1>2, TmlFields DEF Looping
<1> HIDE DEF l, e, n
<1>4. /\ tml' \in TmlRec
      /\ \/ /\ KeepsTml(tml, tml', {"rsem", "rd"}) /\ tml'.rsem = n
            /\ tml'.rd # "read" /\ q' = q
         \/ /\ KeepsTml(tml, tml', {"renable", "rd"}) /\ ~tml'.renable
            /\ tml'.rd # "read" /\ Post("com_error")
  <2>1. CASE tml' = [tml EXCEPT !.errs = e, !.rsem = n, !.rd = l] /\ q' = q
    <3>1. tml' \in TmlRec /\ KeepsTml(tml, tml', {"rsem", "rd"}) /\ tml'.rsem = n
          /\ tml'.rd = l
      BY <1>2, <1>3, <2>1 DEF TmlRec, KeepsTml
    <3> QED
      BY <1>3, <2>1, <3>1
  <2>2. CASE /\ tml' = [tml EXCEPT !.errs = 0, !.renable = FALSE, !.rd = l]
            /\ Post("com_error")
    <3>1. tml' \in TmlRec /\ KeepsTml(tml, tml', {"renable", "rd"}) /\ ~tml'.renable
          /\ tml'.rd = l
      BY <1>2, <1>3, <2>2 DEF TmlRec, KeepsTml
    <3> QED
      BY <1>3, <2>2, <3>1
  <2> QED
    BY <1>1, <2>1, <2>2
<1>5. q' \in Seq(Message)
  BY <1>1, PostTyped DEF Message, Typed
<1> QED
  BY <1>4, <1>5 DEF n, Post

\* A read failed.
LEMMA TReaderFails ==
  ASSUME Typed, ReaderFails
  PROVE  /\ Typed'
         /\ \/ /\ KeepsTml(tml, tml', {"rsem", "rd"}) /\ tml'.rsem = tml.rsem + 1
               /\ tml'.rd # "read" /\ q' = q
            \/ /\ KeepsTml(tml, tml', {"renable", "rd"}) /\ ~tml'.renable
               /\ tml'.rd # "read" /\ q' = Append(q, "com_error")
<1>1. used' \in UsedRec
  BY Parts, UsedTyped DEF ReaderFails
<1> QED
  BY <1>1, ReaderErrorTyped DEF ReaderFails, Typed

\* A read that was under way at shutdown ends.
LEMMA TReaderTimesOut ==
  ASSUME Typed, ReaderTimesOut
  PROVE  /\ Typed'
         /\ \/ /\ KeepsTml(tml, tml', {"rsem", "rd"}) /\ tml'.rsem = tml.rsem + 1
               /\ tml'.rd # "read" /\ q' = q
            \/ /\ KeepsTml(tml, tml', {"renable", "rd"}) /\ ~tml'.renable
               /\ tml'.rd # "read" /\ q' = Append(q, "com_error")
BY ReaderErrorTyped DEF ReaderTimesOut, Typed

\* The writer hands over the command that is in the buffer, or fails.
LEMMA TWriterWrites ==
  ASSUME Typed, WriterWrites
  PROVE  /\ Typed' /\ KeepsTml(tml, tml', {"wenable", "wr"}) /\ ~tml'.wenable
         /\ nfcc'.out = nfcc.out /\ nfcc'.sent = nfcc.sent /\ nfcc'.seen = nfcc.seen
         /\ \/ /\ tml'.wr = "written"
               /\ nfcc'.held = (IF hal.cmd = 0 THEN nfcc.held ELSE Append(nfcc.held, hal.cmd))
            \/ tml'.wr = "unwritten" /\ nfcc'.held = nfcc.held
<1> DEFINE n == tml.wsem - 1
           w == Append(nfcc.held, hal.cmd)
<1>1. /\ \/ /\ tml' = [tml EXCEPT !.wsem = n, !.wenable = FALSE, !.wr = "written"]
            /\ nfcc' = IF hal.cmd = 0 THEN nfcc ELSE [nfcc EXCEPT !.held = w]
         \/ /\ tml' = [tml EXCEPT !.wsem = n, !.wenable = FALSE, !.wr = "unwritten"]
            /\ nfcc' = nfcc
      /\ tml.wsem > 0
  BY DEF WriterWrites
<1>2. hal \in HalRec /\ tml \in TmlRec /\ nfcc \in NfccRec /\ Len(nfcc.out) <= nfcc.sent
  BY DEF Typed
<1>3. n \in Nat /\ w \in Seq(Nat)
  BY <1>1, <1>2, HalFields, TmlFields, NfccFields, AppendSeq
<1> HIDE DEF n, w
<1>4. /\ [tml EXCEPT !.wsem = n, !.wenable = FALSE, !.wr = "written"] \in TmlRec
      /\ [tml EXCEPT !.wsem = n, !.wenable = FALSE, !.wr = "unwritten"] \in TmlRec
      /\ KeepsTml(tml, tml', {"wenable", "wr"}) /\ ~tml'.wenable
      /\ \/ /\ tml'.wr = "written"
            /\ nfcc' = IF hal.cmd = 0 THEN nfcc ELSE [nfcc EXCEPT !.held = w]
         \/ tml'.wr = "unwritten" /\ nfcc' = nfcc
  BY <1>1, <1>2, <1>3 DEF TmlRec, KeepsTml
<1>7. LET m == [nfcc EXCEPT !.held = w]
      IN  m \in NfccRec /\ m.out = nfcc.out /\ m.sent = nfcc.sent /\ m.seen = nfcc.seen
          /\ m.held = w
  BY <1>2, <1>3 DEF NfccRec
<1>5. /\ nfcc' \in NfccRec /\ nfcc'.out = nfcc.out /\ nfcc'.sent = nfcc.sent
      /\ nfcc'.seen = nfcc.seen
      /\ \/ tml'.wr = "written" /\ nfcc'.held = (IF hal.cmd = 0 THEN nfcc.held ELSE w)
         \/ tml'.wr = "unwritten" /\ nfcc'.held = nfcc.held
  BY <1>2, <1>4, <1>7
<1>6. used' \in UsedRec
  BY Parts, UsedTyped DEF WriterWrites
<1>8. tml' \in TmlRec
  BY <1>1, <1>4
<1> QED
  BY <1>2, <1>4, <1>5, <1>6, <1>8 DEF WriterWrites, Typed, w

\* The writer was woken for nothing.
LEMMA TWriterIdles ==
  ASSUME Typed, WriterIdles
  PROVE  /\ Typed' /\ KeepsTml(tml, tml', {"wr"}) /\ tml'.wr = Looping
<1> DEFINE n == tml.wsem - 1
           l == Looping
<1>1. tml' = [tml EXCEPT !.wsem = n, !.wr = l] /\ tml.wsem > 0
  BY DEF WriterIdles
<1>2. tml \in TmlRec
  BY DEF Typed
<1>3. n \in Nat /\ l \in {"off", "wait", "written", "unwritten"}
  BY <1>1, <1>2, TmlFields DEF Looping
<1> HIDE DEF n, l
<1>4. tml' \in TmlRec /\ KeepsTml(tml, tml', {"wr"}) /\ tml'.wr = l
  BY <1>1, <1>2, <1>3 DEF TmlRec, KeepsTml
<1> QED
  BY <1>4 DEF WriterIdles, Typed, l

\* The writer tells the client thread how the write went.
LEMMA TWriterPosts ==
  ASSUME Typed, WriterPosts
  PROVE  /\ Typed' /\ KeepsTml(tml, tml', {"wr"}) /\ tml'.wr = Looping
<1> DEFINE l == Looping
<1>1. tml' = [tml EXCEPT !.wr = l] /\ tml.wr \in {"written", "unwritten"} /\ Post(tml.wr)
  BY DEF WriterPosts
<1>2. tml \in TmlRec
  BY DEF Typed
<1>3. l \in {"off", "wait", "written", "unwritten"}
  BY DEF Looping
<1> HIDE DEF l
<1>4. tml' \in TmlRec /\ KeepsTml(tml, tml', {"wr"}) /\ tml'.wr = l
  BY <1>1, <1>2, <1>3 DEF TmlRec, KeepsTml
<1>5. q' \in Seq(Message)
  BY <1>1, PostTyped DEF Message
<1> QED
  BY <1>4, <1>5 DEF WriterPosts, Typed, l

\* The NFCC sends a packet.
LEMMA SendsTyped ==
  ASSUME NEW n \in NfccRec, Len(n.out) <= n.sent, NEW i \in Nat,
         NEW k \in {"rsp", "bad_rsp", "ntf", "data"}
  PROVE  /\ Sends(n, k, i) \in NfccRec
         /\ Sends(n, k, i).out = Append(n.out, Packet(k, i, n.sent + 1))
         /\ Sends(n, k, i).sent = n.sent + 1 /\ Sends(n, k, i).seen = n.seen
         /\ Sends(n, k, i).held = n.held
         /\ Len(Sends(n, k, i).out) <= Sends(n, k, i).sent
<1> DEFINE m == n.sent + 1
           p == Packet(k, i, m)
           o == Append(n.out, p)
           r == Sends(n, k, i)
<1>1. n.out \in Seq(Packets) /\ m \in Nat /\ n.sent \in Nat
  BY NfccFields
<1>2. p \in Packets
  BY <1>1, Constants
<1>3. r = [n EXCEPT !.out = o, !.sent = m]
  BY DEF Sends
<1> HIDE DEF p
<1>4. o \in Seq(Packets) /\ Len(o) = Len(n.out) + 1 /\ Len(n.out) \in Nat
  BY <1>1, <1>2, AppendSeq
<1>5. Len(o) <= m
  BY <1>1, <1>4
<1> HIDE DEF m, o, r
<1>6. r \in NfccRec /\ r.out = o /\ r.sent = m /\ r.seen = n.seen /\ r.held = n.held
  BY <1>1, <1>3, <1>4 DEF NfccRec
<1> QED
  BY <1>5, <1>6 DEF m, o, p, r

\* The NFCC takes up a command.
LEMMA HeldTyped ==
  ASSUME Typed, nfcc.held # <<>>
  PROVE  /\ Head(nfcc.held) \in Nat
         /\ [nfcc EXCEPT !.held = Tail(@)] \in NfccRec
         /\ [nfcc EXCEPT !.held = Tail(@)].out = nfcc.out
         /\ [nfcc EXCEPT !.held = Tail(@)].sent = nfcc.sent
         /\ [nfcc EXCEPT !.held = Tail(@)].seen = nfcc.seen
         /\ [nfcc EXCEPT !.held = Tail(@)].held = Tail(nfcc.held)
<1> DEFINE t == Tail(nfcc.held)
<1>1. nfcc \in NfccRec
  BY DEF Typed
<1>2. Head(nfcc.held) \in Nat /\ t \in Seq(Nat)
  BY <1>1, NfccFields, TailSeq
<1> HIDE DEF t
<1>3. LET e == [nfcc EXCEPT !.held = t]
      IN  e \in NfccRec /\ e.out = nfcc.out /\ e.sent = nfcc.sent /\ e.seen = nfcc.seen
          /\ e.held = t
  BY <1>1, <1>2 DEF NfccRec
<1> QED
  BY <1>2, <1>3 DEF t

\* The NFCC takes up a command, and answers it or not.
LEMMA TAnswer ==
  ASSUME Typed, Answer
  PROVE  /\ Typed' /\ nfcc'.seen = nfcc.seen /\ nfcc'.held = Tail(nfcc.held)
         /\ \/ nfcc'.out = nfcc.out /\ nfcc'.sent = nfcc.sent
            \/ \E k \in {"rsp", "bad_rsp"} :
                 /\ nfcc'.out = Append(nfcc.out, Packet(k, Head(nfcc.held), nfcc.sent + 1))
                 /\ nfcc'.sent = nfcc.sent + 1
<1> DEFINE h == [nfcc EXCEPT !.held = Tail(@)]
           i == Head(nfcc.held)
<1>1. /\ nfcc.held # <<>>
      /\ nfcc' = Sends(h, "rsp", i) \/ nfcc' = h \/ nfcc' = Sends(h, "bad_rsp", i)
      /\ used' = used \/ used' = [used EXCEPT !.mute = @ + 1]
  BY DEF Answer
<1>2. /\ h \in NfccRec /\ Len(h.out) <= h.sent /\ i \in Nat /\ h.out = nfcc.out
      /\ h.sent = nfcc.sent /\ h.seen = nfcc.seen /\ h.held = Tail(nfcc.held)
  BY <1>1, HeldTyped DEF Typed
<1> HIDE DEF h, i
<1>5. ASSUME NEW k \in {"rsp", "bad_rsp"}, nfcc' = Sends(h, k, i)
      PROVE  /\ nfcc' \in NfccRec /\ Len(nfcc'.out) <= nfcc'.sent
             /\ nfcc'.seen = nfcc.seen /\ nfcc'.held = Tail(nfcc.held)
             /\ nfcc'.out = Append(nfcc.out, Packet(k, i, nfcc.sent + 1))
             /\ nfcc'.sent = nfcc.sent + 1
  <2>1. Sends(h, k, i) \in NfccRec /\ Len(Sends(h, k, i).out) <= Sends(h, k, i).sent
    BY <1>2, SendsTyped
  <2>2. /\ Sends(h, k, i).out = Append(h.out, Packet(k, i, h.sent + 1))
        /\ Sends(h, k, i).sent = h.sent + 1 /\ Sends(h, k, i).seen = h.seen
        /\ Sends(h, k, i).held = h.held
    BY SMTT(20), <1>2, SendsTyped
  <2> QED
    BY <1>2, <1>5, <2>1, <2>2
<1>3. /\ nfcc' \in NfccRec /\ Len(nfcc'.out) <= nfcc'.sent
      /\ nfcc'.seen = nfcc.seen /\ nfcc'.held = Tail(nfcc.held)
      /\ \/ nfcc'.out = nfcc.out /\ nfcc'.sent = nfcc.sent
         \/ \E k \in {"rsp", "bad_rsp"} :
              /\ nfcc'.out = Append(nfcc.out, Packet(k, i, nfcc.sent + 1))
              /\ nfcc'.sent = nfcc.sent + 1
  BY <1>1, <1>2, <1>5
<1>4. used' \in UsedRec
  BY <1>1, Parts, UsedTyped
<1> QED
  BY <1>3, <1>4 DEF Answer, Typed, i

\* The NFCC sends a notification or data.
LEMMA TSendUnasked ==
  ASSUME Typed, SendUnasked
  PROVE  /\ Typed' /\ nfcc'.seen = nfcc.seen /\ nfcc'.held = nfcc.held
         /\ nfcc'.sent = nfcc.sent + 1
         /\ \E k \in {"ntf", "data"} \cap lim.cases :
              nfcc'.out = Append(nfcc.out, Packet(k, 0, nfcc.sent + 1))
<1>1. PICK k \in {"ntf", "data"} \cap lim.cases : nfcc' = Sends(nfcc, k, 0)
  BY DEF SendUnasked
<1>2. nfcc \in NfccRec /\ Len(nfcc.out) <= nfcc.sent
  BY DEF Typed
<1>3. /\ nfcc' \in NfccRec /\ Len(nfcc'.out) <= nfcc'.sent
      /\ nfcc'.seen = nfcc.seen /\ nfcc'.held = nfcc.held /\ nfcc'.sent = nfcc.sent + 1
      /\ nfcc'.out = Append(nfcc.out, Packet(k, 0, nfcc.sent + 1))
  BY <1>1, <1>2, SendsTyped
<1>4. used' \in UsedRec
  BY Parts, UsedTyped DEF SendUnasked
<1> QED
  BY <1>3, <1>4 DEF SendUnasked, Typed

-------------------------------------------------------------------------------
(* The queue of the client thread.                                           *)

\* What is queued after a message was added.
LEMMA HasAppend ==
  ASSUME NEW S, NEW s \in Seq(S), NEW e \in S, NEW m
  PROVE  Contains(Append(s, e), m) <=> Contains(s, m) \/ m = e
BY AppendSeq DEF Contains

\* What is queued before the head was taken.
LEMMA HasTail ==
  ASSUME NEW S, NEW s \in Seq(S), s # <<>>, NEW m
  PROVE  Contains(s, m) <=> Head(s) = m \/ Contains(Tail(s), m)
<1>1. ASSUME Contains(s, m) PROVE Head(s) = m \/ Contains(Tail(s), m)
  <2>1. PICK i \in 1..Len(s) : s[i] = m
    BY <1>1 DEF Contains
  <2>2. CASE i = 1
    BY <2>1, <2>2, TailSeq
  <2>3. CASE i # 1
    <3>1. i - 1 \in 1..Len(Tail(s)) /\ Tail(s)[i - 1] = m
      BY <2>1, <2>3, TailSeq
    <3> QED
      BY <3>1 DEF Contains
  <2> QED
    BY <2>2, <2>3
<1>2. ASSUME Contains(Tail(s), m) PROVE Contains(s, m)
  <2>1. PICK i \in 1..Len(Tail(s)) : Tail(s)[i] = m
    BY <1>2 DEF Contains
  <2>2. i + 1 \in 1..Len(s) /\ s[i + 1] = m
    BY <2>1, TailSeq
  <2> QED
    BY <2>2 DEF Contains
<1>3. ASSUME Head(s) = m PROVE Contains(s, m)
  BY <1>3, TailSeq DEF Contains
<1> QED
  BY <1>1, <1>2, <1>3

\* A message is queued at most once.
Once(s, m) == \A i, j \in 1..Len(s) : s[i] = m /\ s[j] = m => i = j

\* A message that is not queued may be added once.
LEMMA OnceAppend ==
  ASSUME NEW S, NEW s \in Seq(S), NEW e \in S, NEW m, Once(s, m), e # m \/ ~Contains(s, m)
  PROVE  Once(Append(s, e), m)
BY AppendSeq DEF Contains, Once

\* A message that is queued once is not queued when it was taken.
LEMMA OnceTail ==
  ASSUME NEW S, NEW s \in Seq(S), s # <<>>, NEW m, Once(s, m)
  PROVE  Once(Tail(s), m) /\ (Head(s) = m => ~Contains(Tail(s), m))
<1>1. Once(Tail(s), m)
  <2>1. SUFFICES ASSUME NEW i \in 1..Len(Tail(s)), NEW j \in 1..Len(Tail(s)),
                        Tail(s)[i] = m, Tail(s)[j] = m
                 PROVE  i = j
    BY DEF Once
  <2>2. i + 1 \in 1..Len(s) /\ s[i + 1] = m /\ j + 1 \in 1..Len(s) /\ s[j + 1] = m
    BY <2>1, TailSeq
  <2>3. i + 1 = j + 1
    BY <2>2 DEF Once
  <2> QED
    BY <2>1, <2>3
<1>2. ASSUME Head(s) = m, Contains(Tail(s), m) PROVE FALSE
  <2>1. PICK i \in 1..Len(Tail(s)) : Tail(s)[i] = m
    BY <1>2 DEF Contains
  <2>2. i + 1 \in 1..Len(s) /\ s[i + 1] = m /\ 1 \in 1..Len(s) /\ s[1] = m
    BY <1>2, <2>1, TailSeq
  <2>3. i + 1 = 1
    BY <2>2 DEF Once
  <2> QED
    BY <2>1, <2>3
<1> QED
  BY <1>1, <1>2

\* An empty queue holds nothing.
LEMMA NothingQueued ==
  ASSUME NEW m
  PROVE  ~Contains(<<>>, m) /\ Once(<<>>, m)
BY DEF Contains, Once

-------------------------------------------------------------------------------
(* Reading.                                                                  *)

\* A packet that was read is with the client thread before the next read begins; the
\* completion of a close comes behind everything the stack is still told of.
Reader ==
  /\ InQueue("close_cplt") => hal.closing
  /\ Once(q, "read")
  /\ tml.renable \/ tml.rd = "read" => ~InQueue("read") /\ ~Rearming
  /\ Rearming => ~InQueue("read")
  /\ Listening

\* Packets are numbered in the order the NFCC sent them: those the client took, the
\* one it was told of, and those on their way.
Counted ==
  LET told == IF InQueue("read") THEN 1 ELSE 0
  IN  /\ nfcc.sent = nfcc.seen + told + Len(nfcc.out)
      /\ InQueue("read") => tml.buf.n = nfcc.seen + 1
      /\ \A i \in 1..Len(nfcc.out) : nfcc.out[i].n = nfcc.seen + told + i

\* Until the HAL puts a packet of its own in the buffer, of a TML that is on.
Numbered == tml.on /\ up.resets = 0 => Counted

\* What the invariants say of the reader is the same.
SameReader(t, u) ==
  /\ u.on = t.on /\ u.run = t.run /\ u.rbusy = t.rbusy /\ u.renable = t.renable
  /\ u.rsem = t.rsem /\ u.rd = t.rd /\ u.buf = t.buf

\* What the NFCC has on its way is the same.
SameOut ==
  nfcc'.out = nfcc.out /\ nfcc'.sent = nfcc.sent /\ nfcc'.seen = nfcc.seen

\* A close that began, an error that was told and a reset are not taken back, and no
\* packet is taken and no read begun by the client thread.
Later ==
  /\ Rearming' <=> Rearming
  /\ hal.closing => hal'.closing
  /\ up.error => up'.error
  /\ up'.resets = 0 => up.resets = 0

\* Steps of others, which may leave a message for the client thread.
LEMMA OtherStep ==
  ASSUME Typed, Typed', Reader, Numbered, SameReader(tml, tml'), Later, SameOut \/ Emptied,
         \/ q' = q
         \/ \E m \in Message \ {"read"} :
              q' = Append(q, m) /\ (m = "close_cplt" => hal'.closing)
  PROVE  Reader' /\ Numbered'
<1>1. /\ InQueue("read")' <=> InQueue("read")
      /\ InQueue("com_error") => InQueue("com_error")'
      /\ InQueue("close_cplt")' => InQueue("close_cplt") \/ hal'.closing
      /\ Once(q', "read")
  <2>1. CASE q' = q
    BY <2>1 DEF Reader, InQueue
  <2>2. CASE \E m \in Message \ {"read"} :
              q' = Append(q, m) /\ (m = "close_cplt" => hal'.closing)
    <3>1. PICK m \in Message \ {"read"} :
              q' = Append(q, m) /\ (m = "close_cplt" => hal'.closing)
      BY <2>2
    <3>2. q \in Seq(Message)
      BY Parts
    <3>3. \A x : Contains(q', x) <=> Contains(q, x) \/ x = m
      BY <3>1, <3>2, HasAppend
    <3>4. Once(q', "read")
      BY <3>1, <3>2, OnceAppend DEF Reader
    <3> QED
      BY <3>1, <3>3, <3>4 DEF InQueue
  <2> QED
    BY <2>1, <2>2
<1>2. Reader'
  BY <1>1 DEF Reader, Listening, Rearming, SameReader, Later
<1>3. Numbered'
  <2> SUFFICES ASSUME tml'.on, up'.resets = 0 PROVE Counted'
    BY DEF Numbered
  <2>1. tml.on /\ up.resets = 0
    BY DEF SameReader, Later
  <2>2. CASE SameOut
    BY <1>1, <2>1, <2>2 DEF Numbered, Counted, SameReader, SameOut
  <2>3. CASE Emptied
    <3>1. Len(nfcc'.out) = 0 /\ 1..Len(nfcc'.out) = {}
      BY <2>3 DEF Emptied
    <3>2. nfcc \in NfccRec /\ nfcc.sent \in Nat /\ nfcc.seen \in Nat /\ Len(nfcc.out) \in Nat
      BY Parts, NfccFields
    <3> QED
      BY <1>1, <2>1, <2>3, <3>1, <3>2 DEF Numbered, Counted, SameReader, Emptied
  <2> QED
    BY <2>2, <2>3
<1> QED
  BY <1>2, <1>3

\* The client thread takes a message other than a packet or an error of the reader.
LEMMA TakeStep ==
  ASSUME Typed, Typed', Reader, Numbered, SameReader(tml, tml'), Later, SameOut,
         NEW m \in Message \ {"read", "com_error"}, Takes(m)
  PROVE  Reader' /\ Numbered'
<1>1. q \in Seq(Message) /\ q # <<>> /\ q' = Tail(q) /\ Head(q) = m
  BY Parts DEF Takes
<1>2. \A x : Contains(q, x) <=> x = m \/ Contains(q', x)
  BY <1>1, HasTail
<1>3. Once(q', "read")
  BY <1>1, OnceTail DEF Reader
<1>4. /\ InQueue("read")' <=> InQueue("read")
      /\ InQueue("com_error")' <=> InQueue("com_error")
      /\ InQueue("close_cplt")' => InQueue("close_cplt")
  BY <1>2 DEF InQueue
<1>5. Reader'
  BY <1>3, <1>4 DEF Reader, Listening, Rearming, SameReader, Later
<1>6. Numbered'
  BY <1>4 DEF Numbered, Counted, SameReader, SameOut, Later
<1> QED
  BY <1>5, <1>6

\* The NFCC sends a packet.
LEMMA SentStep ==
  ASSUME Typed, Typed', Reader, Numbered, tml' = tml, q' = q, hal' = hal, up' = up,
         client' = client, NEW p \in Packets, p.n = nfcc.sent + 1, nfcc'.out = Append(nfcc.out, p),
         nfcc'.sent = nfcc.sent + 1, nfcc'.seen = nfcc.seen
  PROVE  Reader' /\ Numbered'
<1>1. Reader'
  BY DEF Reader, Listening, Rearming, InQueue
<1>2. Numbered'
  <2> SUFFICES ASSUME tml.on, up.resets = 0 PROVE Counted'
    BY DEF Numbered
  <2>1. nfcc.out \in Seq(Packets) /\ nfcc.sent \in Nat /\ nfcc.seen \in Nat
    BY Parts, NfccFields
  <2>2. /\ Len(nfcc'.out) = Len(nfcc.out) + 1 /\ Len(nfcc.out) \in Nat
        /\ \A i \in 1..Len(nfcc.out) : nfcc'.out[i] = nfcc.out[i]
        /\ nfcc'.out[Len(nfcc.out) + 1] = p
    BY <2>1, AppendSeq
  <2> DEFINE told == IF InQueue("read") THEN 1 ELSE 0
  <2>3. /\ told \in Nat /\ nfcc.sent = nfcc.seen + told + Len(nfcc.out)
        /\ InQueue("read") => tml.buf.n = nfcc.seen + 1
        /\ \A i \in 1..Len(nfcc.out) : nfcc.out[i].n = nfcc.seen + told + i
    BY DEF Numbered, Counted
  <2>4. told' = told /\ (InQueue("read")' <=> InQueue("read"))
    BY DEF InQueue
  <2> HIDE DEF told, Counted
  <2>5. nfcc'.sent = nfcc'.seen + told + Len(nfcc'.out)
    <3>1. told \in Nat /\ nfcc.sent = nfcc.seen + told + Len(nfcc.out)
      BY <2>3
    <3>2. Len(nfcc'.out) = Len(nfcc.out) + 1 /\ Len(nfcc.out) \in Nat
      BY <2>2
    <3>3. \A a, b, c, d \in Nat : a = b + c + d => a + 1 = b + c + (d + 1)
      OBVIOUS
    <3>4. nfcc.sent + 1 = nfcc.seen + told + (Len(nfcc.out) + 1)
      BY <2>1, <3>1, <3>2, <3>3, Zenon
    <3> QED
      BY <3>2, <3>4, Zenon
  <2>6. \A i \in 1..Len(nfcc'.out) : nfcc'.out[i].n = nfcc'.seen + told + i
    <3>1. SUFFICES ASSUME NEW i \in 1..Len(nfcc'.out)
                   PROVE  nfcc'.out[i].n = nfcc'.seen + told + i
      OBVIOUS
    <3>2. CASE i \in 1..Len(nfcc.out)
      BY <2>2, <2>3, <3>2
    <3>3. CASE i = Len(nfcc.out) + 1
      BY <2>1, <2>2, <2>3, <3>3
    <3> QED
      BY <2>2, <3>1, <3>2, <3>3
  <2> QED
    BY <2>3, <2>4, <2>5, <2>6 DEF told, Counted
<1> QED
  BY <1>1, <1>2

\* A call of the stack begins.
LEMMA ApiStep ==
  ASSUME Typed, Reader, Numbered, ApiNext
  PROVE  Typed' /\ Reader' /\ Numbered'
<1>1. CASE Open
  <2>1. /\ Typed' /\ q = <<>> /\ q' = <<>> /\ tml'.rbusy /\ tml'.renable /\ tml'.rsem = 1
        /\ client' = "on" /\ nfcc'.sent = 0 /\ nfcc'.seen = 0 /\ nfcc'.out = <<>>
    BY <1>1, TOpen DEF Open
  <2>2. \A m : ~InQueue(m)'
    BY <2>1, NothingQueued DEF InQueue
  <2>3. Reader'
    BY <2>1, <2>2, NothingQueued DEF Reader, Listening, Rearming
  <2>4. Numbered'
    <3>1. Len(nfcc'.out) = 0 /\ 1..Len(nfcc'.out) = {}
      BY <2>1
    <3> QED
      BY <2>1, <2>2, <3>1 DEF Numbered, Counted
  <2> QED
    BY <2>1, <2>3, <2>4
<1>2. CASE CoreInitialized
  <2>1. Typed' /\ SameReader(tml, tml') /\ Later /\ (SameOut \/ Emptied)
    BY <1>2, TCoreInitialized DEF CoreInitialized, Keeps, KeepsUp, Later, Rearming,
         SameReader, SameOut
  <2>2. q' = q
    BY <1>2 DEF CoreInitialized
  <2> QED
    BY <2>1, <2>2, OtherStep
<1>3. CASE RecoverLast
  <2>1. Typed' /\ SameReader(tml, tml') /\ Later /\ (SameOut \/ Emptied)
    BY <1>3, TRecoverLast DEF RecoverLast, Keeps, KeepsUp, Later, Rearming, SameReader,
         SameOut
  <2>2. q' = q
    BY <1>3 DEF RecoverLast
  <2> QED
    BY <2>1, <2>2, OtherStep
<1>4. CASE Write
  <2>1. Typed' /\ SameReader(tml, tml') /\ Later /\ (SameOut \/ Emptied)
    BY <1>4, TWrite DEF Write, Keeps, KeepsUp, Later, Rearming, SameReader, SameOut
  <2>2. q' = q
    BY <1>4 DEF Write
  <2> QED
    BY <2>1, <2>2, OtherStep
<1>5. CASE Close
  <2>1. Typed' /\ SameReader(tml, tml') /\ Later /\ (SameOut \/ Emptied)
    BY <1>5, TClose DEF Close, Keeps, KeepsUp, Later, Rearming, SameReader, SameOut
  <2>2. q' = q
    BY <1>5 DEF Close
  <2> QED
    BY <2>1, <2>2, OtherStep
<1> QED
  BY <1>1, <1>2, <1>3, <1>4, <1>5 DEF ApiNext

\* The stack is told of a reset: the packet in the buffer is not the NFCC's.
LEMMA GivenUpStep ==
  ASSUME Typed, Reader, Numbered, WriteGivenUp
  PROVE  Typed' /\ Reader' /\ Numbered'
<1>1. Typed' /\ Emptied /\ q' = q /\ client' = client /\ hal'.closing = hal.closing
  BY TWriteGivenUp DEF Unwritten, Keeps, WriteGivenUp
<1>2. CASE tml' = tml /\ up' = up
  <2>1. SameReader(tml, tml') /\ Later
    BY <1>1, <1>2 DEF SameReader, Later, Rearming
  <2> QED
    BY <1>1, <2>1, OtherStep
<1>3. CASE /\ KeepsTml(tml, tml', {"buf"}) /\ KeepsUp(up, up', {"resets"})
           /\ up'.resets = up.resets + 1
  <2>1. Reader'
    BY <1>1, <1>3 DEF Reader, Listening, Rearming, InQueue, KeepsTml, KeepsUp
  <2>2. up'.resets # 0
    BY <1>3, Parts, UpFields
  <2> QED
    BY <1>1, <2>1, <2>2 DEF Numbered
<1> QED
  BY <1>2, <1>3, TWriteGivenUp

\* The TML is being shut down, its reader may end.
LEMMA ShutStep ==
  ASSUME Reader, Numbered, ~tml'.run, KeepsTml(tml, tml', {"run", "rsem"}),
         hal'.closing = hal.closing, q' = q, client' = client, nfcc' = nfcc, up' = up
  PROVE  Reader' /\ Numbered'
<1>1. Reader'
  BY DEF Reader, Listening, Rearming, InQueue, KeepsTml
<1>2. Numbered'
  BY DEF Numbered, Counted, InQueue, KeepsTml
<1> QED
  BY <1>1, <1>2

\* The HAL is closed: the reads end, and the last message is on its way.
LEMMA CloseDoneStep ==
  ASSUME Typed, Reader, Numbered, CloseDone
  PROVE  Typed' /\ Reader' /\ Numbered'
<1>1. /\ Typed' /\ hal'.closing /\ ~tml'.renable
      /\ tml'.rd = tml.rd /\ tml'.on = tml.on /\ tml'.buf = tml.buf
      /\ client' = client /\ nfcc' = nfcc /\ up' = up
  BY TCloseDone DEF KeepsTml, CloseDone
<1> DEFINE m == "close_cplt"
<1>2. m \in Message /\ q' = Append(q, m) /\ q \in Seq(Message) /\ m # "read"
  BY Parts DEF CloseDone, Post, Message
<1> HIDE DEF m
<1>3. /\ InQueue("read")' <=> InQueue("read")
      /\ Once(q', "read")
  BY <1>2, HasAppend, OnceAppend DEF Reader, InQueue
<1>4. Reader'
  BY <1>1, <1>3 DEF Reader, Listening, Rearming
<1>5. Numbered'
  BY <1>1, <1>3 DEF Numbered, Counted
<1> QED
  BY <1>1, <1>4, <1>5

\* A step of the call that is under way.
LEMMA CallStep ==
  ASSUME Typed, Reader, Numbered, CallNext
  PROVE  Typed' /\ Reader' /\ Numbered'
<1>1. CASE EnableExt
  <2>1. Typed' /\ SameReader(tml, tml') /\ Later /\ (SameOut \/ Emptied)
    BY <1>1, TEnableExt DEF EnableExt, Keeps, KeepsTml, KeepsUp, Later, Rearming,
         SameReader, SameOut
  <2>2. q' = q
    BY <1>1, TEnableExt DEF EnableExt
  <2> QED
    BY <2>1, <2>2, OtherStep
<1>2. CASE InitCbData
  <2>1. Typed' /\ SameReader(tml, tml') /\ Later /\ (SameOut \/ Emptied)
    BY <1>2, TInitCbData DEF InitCbData, Keeps, KeepsTml, KeepsUp, Later, Rearming,
         SameReader, SameOut
  <2>2. q' = q
    BY <1>2, TInitCbData DEF InitCbData
  <2> QED
    BY <2>1, <2>2, OtherStep
<1>3. CASE Request
  <2>1. Typed' /\ SameReader(tml, tml') /\ Later /\ (SameOut \/ Emptied)
    BY <1>3, TRequest DEF Request, Keeps, KeepsTml, KeepsUp, Later, Rearming, SameReader,
         SameOut
  <2>2. q' = q
    BY <1>3, TRequest DEF Request
  <2> QED
    BY <2>1, <2>2, OtherStep
<1>4. CASE Written
  <2>1. Typed' /\ SameReader(tml, tml') /\ Later /\ (SameOut \/ Emptied)
    BY <1>4, TWritten DEF Written, Keeps, KeepsTml, KeepsUp, Later, Rearming, SameReader,
         SameOut
  <2>2. q' = q
    BY <1>4, TWritten DEF Written
  <2> QED
    BY <2>1, <2>2, OtherStep
<1>5. CASE WriteAgain
  <2>1. Typed' /\ SameReader(tml, tml') /\ Later /\ (SameOut \/ Emptied)
    BY <1>5, TWriteAgain DEF WriteAgain, Keeps, KeepsTml, KeepsUp, Later, Rearming,
         SameReader, SameOut
  <2>2. q' = q
    BY <1>5, TWriteAgain DEF WriteAgain
  <2> QED
    BY <2>1, <2>2, OtherStep
<1>6. CASE StartTimer
  <2>1. Typed' /\ SameReader(tml, tml') /\ Later /\ (SameOut \/ Emptied)
    BY <1>6, TStartTimer DEF StartTimer, Keeps, KeepsTml, KeepsUp, Later, Rearming,
         SameReader, SameOut
  <2>2. q' = q
    BY <1>6, TStartTimer DEF StartTimer
  <2> QED
    BY <2>1, <2>2, OtherStep
<1>7. CASE Wake
  <2>1. Typed' /\ SameReader(tml, tml') /\ Later /\ (SameOut \/ Emptied)
    BY <1>7, TWake DEF Wake, Keeps, KeepsTml, KeepsUp, Later, Rearming, SameReader, SameOut
  <2>2. q' = q
    BY <1>7, TWake DEF Wake
  <2> QED
    BY <2>1, <2>2, OtherStep
<1>8. CASE CheckStatus
  <2>1. Typed' /\ SameReader(tml, tml') /\ Later /\ (SameOut \/ Emptied)
    BY <1>8, TCheckStatus DEF CheckStatus, Keeps, KeepsTml, KeepsUp, Later, Rearming,
         SameReader, SameOut
  <2>2. q' = q
    BY <1>8, TCheckStatus DEF CheckStatus
  <2> QED
    BY <2>1, <2>2, OtherStep
<1>9. CASE NextStep
  <2>1. Typed' /\ SameReader(tml, tml') /\ Later /\ (SameOut \/ Emptied)
    BY <1>9, TNextStep DEF NextStep, Keeps, KeepsTml, KeepsUp, Later, Rearming,
         SameReader, SameOut
  <2>2. q' = q
    BY <1>9, TNextStep DEF NextStep
  <2> QED
    BY <2>1, <2>2, OtherStep
<1>10. CASE OpenDone
  <2>1. Typed' /\ SameReader(tml, tml') /\ Later /\ (SameOut \/ Emptied)
    BY <1>10, TOpenDone DEF OpenDone, Keeps, KeepsTml, KeepsUp, Later, Rearming,
         SameReader, SameOut
  <2>2. \E m \in Message \ {"read"} : q' = Append(q, m) /\ m # "close_cplt"
    BY <1>10, TOpenDone DEF OpenDone, Post, Message
  <2> QED
    BY <2>1, <2>2, OtherStep
<1>11. CASE CoreDone
  <2>1. /\ Typed' /\ SameReader(tml, tml') /\ SameOut /\ hal'.closing = hal.closing
        /\ Rearming' <=> Rearming
    BY <1>11, TCoreDone DEF CoreDone, Keeps, SameReader, SameOut, Rearming
  <2>2. Later
    <3>1. CASE hal.recover
      <4>1. up' = Heard(up, tml.buf)
        BY <1>11, <3>1, TCoreDone
      <4>2. up'.error = up.error
        BY <4>1, Parts, HeardTyped DEF KeepsUp
      <4>3. up'.resets = 0 => up.resets = 0
        BY <4>1, Parts, HeardResets
      <4> QED
        BY <2>1, <4>2, <4>3 DEF Later
    <3>2. CASE ~hal.recover
      BY <1>11, <2>1, <3>2, TCoreDone DEF Later
    <3> QED
      BY <3>1, <3>2
  <2>3. \/ q' = q
        \/ \E m \in Message \ {"read"} : q' = Append(q, m) /\ m # "close_cplt"
    <3>1. q' = q \/ q' = Append(q, "post_init_cplt")
      BY <1>11, TCoreDone
    <3> QED
      BY <3>1 DEF Message
  <2> QED
    BY <2>1, <2>2, <2>3, OtherStep
<1>12. CASE OpenAgain
  <2>1. Typed' /\ SameReader(tml, tml') /\ Later /\ (SameOut \/ Emptied)
    BY <1>12, TOpenAgain DEF OpenAgain, Keeps, KeepsTml, KeepsUp, Later, Rearming,
         SameReader, SameOut
  <2>2. \E m \in Message \ {"read"} : q' = Append(q, m) /\ m # "close_cplt"
    BY <1>12, TOpenAgain DEF OpenAgain, Post, Message
  <2> QED
    BY <2>1, <2>2, OtherStep
<1>13. CASE ForceDownload
  <2>1. Typed' /\ SameReader(tml, tml') /\ Later /\ (SameOut \/ Emptied)
    BY <1>13, TForceDownload DEF ForceDownload, Keeps, Later, Rearming, SameReader, SameOut
  <2>2. \E m \in Message \ {"read"} : q' = Append(q, m) /\ m # "close_cplt"
    BY <1>13, TForceDownload DEF ForceDownload, Post, Message
  <2> QED
    BY <2>1, <2>2, OtherStep
<1>14. CASE CoreAgain
  <2>1. Typed' /\ SameReader(tml, tml') /\ Later /\ (SameOut \/ Emptied)
    BY <1>14, TCoreAgain DEF CoreAgain, Keeps, KeepsTml, KeepsUp, Later, Rearming,
         SameReader, SameOut
  <2>2. q' = q
    BY <1>14, TCoreAgain DEF CoreAgain
  <2> QED
    BY <2>1, <2>2, OtherStep
<1>15. CASE OpenFailed
  <2>1. /\ Typed' /\ ~tml'.run /\ KeepsTml(tml, tml', {"run", "rsem"})
        /\ hal'.closing = hal.closing /\ q' = q /\ client' = client /\ nfcc' = nfcc /\ up' = up
    BY <1>15, TOpenFailed DEF OpenFailed, Keeps
  <2> QED
    BY <2>1, ShutStep
<1>16. CASE CloseShutdown
  <2>1. /\ Typed' /\ ~tml'.run /\ KeepsTml(tml, tml', {"run", "rsem"})
        /\ hal'.closing = hal.closing /\ q' = q /\ client' = client /\ nfcc' = nfcc /\ up' = up
    BY <1>16, TCloseShutdown DEF CloseShutdown, Keeps
  <2> QED
    BY <2>1, ShutStep
<1>17. CASE Join
  <2>1. Typed' /\ q' = <<>> /\ ~tml'.run /\ ~tml'.on /\ ~Rearming'
    BY <1>17, TJoin DEF Join, Rearming
  <2>2. \A m : ~InQueue(m)'
    BY <2>1, NothingQueued DEF InQueue
  <2> QED
    BY <2>1, <2>2, NothingQueued DEF Reader, Listening, Rearming, Numbered
<1> QED
  BY <1>1, <1>2, <1>3, <1>4, <1>5, <1>6, <1>7, <1>8, <1>9, <1>10, <1>11, <1>12,
     <1>13, <1>14, <1>15, <1>16, <1>17, GivenUpStep, CloseDoneStep
  DEF CallNext

\* The client thread takes the packet that was read.
LEMMA TakeReadStep ==
  ASSUME Typed, Reader, Numbered, TakeRead
  PROVE  Typed' /\ Reader' /\ Numbered'
<1>1. /\ Typed' /\ Takes("read") /\ hal'.closing = hal.closing
      /\ tml'.on = tml.on
      /\ tml'.renable = tml.renable /\ tml'.rd = tml.rd /\ client' = "taken"
      /\ nfcc'.seen = tml.buf.n /\ nfcc'.out = nfcc.out /\ nfcc'.sent = nfcc.sent
  BY TTakeRead DEF Keeps, KeepsTml
<1>2. q \in Seq(Message) /\ q # <<>> /\ q' = Tail(q) /\ Head(q) = "read"
  BY <1>1, Parts DEF Takes
<1>3. Once(q', "read") /\ ~InQueue("read")' /\ InQueue("read")
  BY <1>2, OnceTail, HasTail DEF Reader, InQueue
<1>4. InQueue("close_cplt")' => hal'.closing
  BY <1>1, <1>2, HasTail DEF Reader, InQueue
<1>5. ~(tml.renable \/ tml.rd = "read")
  BY <1>3 DEF Reader
<1>6. Reader'
  BY <1>1, <1>3, <1>4, <1>5 DEF Reader, Listening, Rearming
<1>7. ASSUME tml'.on, up'.resets = 0 PROVE Counted'
  <2>1. up.resets = 0
    <3>1. CASE up' = up
      BY <1>7, <3>1
    <3>2. CASE up' = Heard(up, tml.buf)
      BY <1>7, <3>2, Parts, HeardResets
    <3> QED
      BY <3>1, <3>2, TTakeRead
  <2>2. Counted
    BY <1>1, <1>7, <2>1 DEF Numbered
  <2>3. /\ nfcc.sent = nfcc.seen + 1 + Len(nfcc.out) /\ tml.buf.n = nfcc.seen + 1
        /\ \A i \in 1..Len(nfcc.out) : nfcc.out[i].n = nfcc.seen + 1 + i
    BY <1>3, <2>2 DEF Counted
  <2>4. nfcc.seen \in Nat /\ Len(nfcc.out) \in Nat
    BY Parts, NfccFields
  <2> DEFINE s == nfcc.seen + 1
  <2>5. /\ nfcc'.seen = s /\ nfcc'.sent = s + Len(nfcc'.out) /\ s \in Nat
        /\ \A i \in 1..Len(nfcc'.out) : nfcc'.out[i].n = s + i
    BY <1>1, <2>3, <2>4
  <2> HIDE DEF s
  <2>6. \A a, b \in Nat : a + 0 + b = a + b
    OBVIOUS
  <2>7. Len(nfcc'.out) \in Nat
    BY <1>1, <2>4
  <2>8. nfcc'.sent = nfcc'.seen + 0 + Len(nfcc'.out)
    BY <2>5, <2>6, <2>7
  <2>9. \A i \in 1..Len(nfcc'.out) : nfcc'.out[i].n = nfcc'.seen + 0 + i
    BY <2>5, <2>7
  <2> QED
    BY <1>3, <2>8, <2>9 DEF Counted
<1> QED
  BY <1>1, <1>6, <1>7 DEF Numbered

\* The client thread starts the next read, unless the HAL is closing.
LEMMA ReadAgainStep ==
  ASSUME Typed, Reader, Numbered, TestClosing \/ ReadAgain
  PROVE  Typed' /\ Reader' /\ Numbered'
<1>1. Typed' /\ hal' = hal /\ q' = q /\ nfcc' = nfcc /\ up' = up
  BY TReadAgain
<1>2. CASE /\ client = "taken" /\ tml' = tml
           /\ client' = IF hal.closing THEN "on" ELSE "rearm"
  <2>1. Reader'
    BY <1>1, <1>2 DEF Reader, Listening, Rearming, InQueue
  <2>2. Numbered'
    BY <1>1, <1>2 DEF Numbered, Counted, InQueue
  <2> QED
    BY <1>1, <2>1, <2>2
<1>3. CASE /\ client = "rearm" /\ client' = "on"
           /\ KeepsTml(tml, tml', {"rbusy", "renable", "rsem"})
           /\ tml'.rbusy /\ tml'.renable /\ tml'.rsem = tml.rsem + 1
  <2>1. tml'.rsem > 0
    BY <1>3, Parts, TmlFields
  <2>2. Reader'
    BY <1>1, <1>3, <2>1 DEF Reader, Listening, Rearming, InQueue
  <2>3. Numbered'
    BY <1>1, <1>3 DEF Numbered, Counted, InQueue, KeepsTml
  <2> QED
    BY <1>1, <2>2, <2>3
<1> QED
  BY <1>2, <1>3, TReadAgain

\* The client thread takes the error of the reader: the stack, or nobody, is told.
LEMMA TakeErrorStep ==
  ASSUME Typed, Reader, Numbered, TakeComError
  PROVE  Typed' /\ Reader' /\ Numbered'
<1>1. /\ Typed' /\ Takes("com_error") /\ hal' = hal /\ client' = client /\ nfcc' = nfcc
      /\ KeepsTml(tml, tml', {"rbusy"}) /\ up'.resets = up.resets
      /\ up'.error \/ hal'.closing
  BY TTakeComError DEF TakeComError, KeepsUp, Typed, Shape
<1>2. q \in Seq(Message) /\ q # <<>> /\ q' = Tail(q) /\ Head(q) = "com_error"
  BY <1>1, Parts DEF Takes
<1>3. /\ InQueue("read")' <=> InQueue("read")
      /\ InQueue("close_cplt")' => InQueue("close_cplt")
      /\ Once(q', "read")
  BY <1>2, HasTail, OnceTail DEF Reader, InQueue
<1>4. Reader'
  BY <1>1, <1>3 DEF Reader, Listening, Rearming, KeepsTml
<1>5. Numbered'
  BY <1>1, <1>3 DEF Numbered, Counted, KeepsTml
<1> QED
  BY <1>1, <1>4, <1>5

\* A step of the client thread.
LEMMA ClientStep ==
  ASSUME Typed, Reader, Numbered, ClientNext
  PROVE  Typed' /\ Reader' /\ Numbered'
<1>1. CASE TakeWritten
  <2>1. Typed' /\ SameReader(tml, tml') /\ Later /\ SameOut
    BY <1>1, TTakeWritten DEF TakeWritten, Keeps, KeepsTml, Later, Rearming, SameReader,
         SameOut
  <2>2. \E m \in Message \ {"read", "com_error"} : Takes(m)
    BY <1>1, TTakeWritten DEF Message
  <2> QED
    BY <2>1, <2>2, TakeStep
<1>2. CASE TakeExpired
  <2>1. Typed' /\ SameReader(tml, tml') /\ Later /\ SameOut
    BY <1>2, TTakeExpired DEF TakeExpired, Takes, Keeps, Later, Rearming, SameReader,
         SameOut
  <2>2. \E m \in Message \ {"read", "com_error"} : Takes(m)
    BY <1>2 DEF TakeExpired, Message
  <2> QED
    BY <2>1, <2>2, TakeStep
<1>3. CASE PostExpired
  <2>1. Typed' /\ SameReader(tml, tml') /\ Later /\ SameOut /\ q' = q
    BY <1>3, TPostExpired DEF PostExpired, Keeps, Later, Rearming, SameReader, SameOut
  <2> QED
    BY <2>1, OtherStep
<1>4. CASE TakeEvent
  <2>1. Typed' /\ SameReader(tml, tml') /\ Later /\ SameOut
    BY <1>4, TTakeEvent DEF TakeEvent, KeepsUp, Later, Rearming, SameReader, SameOut
  <2>2. \E m \in Message \ {"read", "com_error"} : Takes(m)
    BY <1>4, TTakeEvent DEF Message
  <2> QED
    BY <2>1, <2>2, TakeStep
<1>5. CASE TakeClosed
  <2>1. Takes("close_cplt") /\ q \in Seq(Message)
    BY <1>5, Parts DEF TakeClosed
  <2>2. InQueue("close_cplt")
    BY <2>1, HasTail DEF Takes, InQueue
  <2>3. hal.closing
    BY <2>2 DEF Reader
  <2>4. Typed' /\ SameReader(tml, tml') /\ Later /\ SameOut
    BY <1>5, <2>3, TTakeClosed DEF TakeClosed, Takes, Keeps, KeepsUp, Later, Rearming,
       SameReader, SameOut
  <2>5. \E m \in Message \ {"read", "com_error"} : Takes(m)
    BY <2>1 DEF Message
  <2> QED
    BY <2>4, <2>5, TakeStep
<1> QED
  BY <1>1, <1>2, <1>3, <1>4, <1>5, TakeReadStep, ReadAgainStep, TakeErrorStep DEF ClientNext

\* The reader was woken: it reads, waits on, or ends.
LEMMA WakesStep ==
  ASSUME Typed, Reader, Numbered, ReaderWakes
  PROVE  Typed' /\ Reader' /\ Numbered'
<1>1. /\ Typed' /\ KeepsTml(tml, tml', {"rsem", "rd"})
      /\ hal' = hal /\ q' = q /\ client' = client /\ nfcc' = nfcc /\ up' = up
      /\ tml.rd = "wait" /\ (tml'.rd = "read" <=> tml.renable)
  BY TReaderWakes DEF ReaderWakes
<1>2. Reader'
  BY <1>1 DEF Reader, Listening, Rearming, InQueue, KeepsTml
<1>3. Numbered'
  BY <1>1 DEF Numbered, Counted, InQueue, KeepsTml
<1> QED
  BY <1>1, <1>2, <1>3

\* The reader has a packet: the next read waits for the client thread.
LEMMA GetsStep ==
  ASSUME Typed, Reader, Numbered, ReaderGets
  PROVE  Typed' /\ Reader' /\ Numbered'
<1>1. /\ Typed' /\ hal'.closing = hal.closing /\ client' = client /\ up' = up
      /\ tml.rd = "read" /\ nfcc.out # <<>>
      /\ KeepsTml(tml, tml', {"rd", "renable", "buf"})
      /\ tml'.rd # "read" /\ ~tml'.renable /\ tml'.buf = Head(nfcc.out)
      /\ nfcc'.out = Tail(nfcc.out) /\ nfcc'.seen = nfcc.seen /\ nfcc'.sent = nfcc.sent
  BY TReaderGets DEF ReaderGets, Keeps
<1> DEFINE m == "read"
<1>2. m \in Message /\ q' = Append(q, m) /\ q \in Seq(Message) /\ m = "read"
  BY Parts DEF ReaderGets, Post, Message
<1> HIDE DEF m
<1>3. ~InQueue("read")
  BY <1>1 DEF Reader
<1>4. /\ InQueue("read")' /\ Once(q', "read")
      /\ InQueue("close_cplt")' => InQueue("close_cplt")
      /\ InQueue("com_error") => InQueue("com_error")'
  BY <1>2, <1>3, HasAppend, OnceAppend DEF Reader, InQueue
<1>5. Reader'
  BY <1>1, <1>4 DEF Reader, Listening, Rearming, KeepsTml
<1>6. ASSUME tml'.on, up'.resets = 0 PROVE Counted'
  <2>1. Counted
    BY <1>1, <1>6 DEF Numbered, KeepsTml
  <2>2. nfcc.out \in Seq(Packets) /\ nfcc.sent \in Nat /\ nfcc.seen \in Nat
    BY Parts, NfccFields
  <2>3. /\ Len(nfcc'.out) = Len(nfcc.out) - 1 /\ Len(nfcc.out) \in Nat /\ Len(nfcc.out) > 0
        /\ tml'.buf = nfcc.out[1]
        /\ \A i \in 1..Len(nfcc'.out) : nfcc'.out[i] = nfcc.out[i + 1]
    BY <1>1, <2>2, TailSeq
  <2>4. /\ nfcc.sent = nfcc.seen + 0 + Len(nfcc.out)
        /\ \A i \in 1..Len(nfcc.out) : nfcc.out[i].n = nfcc.seen + 0 + i
    BY <1>3, <2>1 DEF Counted
  <2>5. nfcc'.sent = nfcc'.seen + 1 + Len(nfcc'.out)
    BY <1>1, <2>2, <2>3, <2>4
  <2>6. tml'.buf.n = nfcc'.seen + 1
    BY <1>1, <2>2, <2>3, <2>4
  <2>7. \A i \in 1..Len(nfcc'.out) : nfcc'.out[i].n = nfcc'.seen + 1 + i
    <3> SUFFICES ASSUME NEW i \in 1..Len(nfcc'.out)
                 PROVE  nfcc'.out[i].n = nfcc'.seen + 1 + i
      OBVIOUS
    <3>1. i + 1 \in 1..Len(nfcc.out) /\ nfcc'.out[i] = nfcc.out[i + 1] /\ i \in Nat
      BY <2>3
    <3>2. nfcc'.out[i].n = nfcc.seen + 0 + (i + 1)
      BY <2>4, <3>1
    <3> QED
      BY <1>1, <2>2, <3>1, <3>2
  <2> QED
    BY <1>4, <2>5, <2>6, <2>7 DEF Counted
<1> QED
  BY <1>1, <1>5, <1>6 DEF Numbered

\* A read failed: it is repeated, or the client thread is told.
LEMMA FailStep ==
  ASSUME Typed, Reader, Numbered, tml.rd = "read", hal' = hal, client' = client, nfcc' = nfcc,
         up' = up,
         \/ /\ KeepsTml(tml, tml', {"rsem", "rd"}) /\ tml'.rsem = tml.rsem + 1
            /\ tml'.rd # "read" /\ q' = q
         \/ /\ KeepsTml(tml, tml', {"renable", "rd"}) /\ ~tml'.renable
            /\ tml'.rd # "read" /\ q' = Append(q, "com_error")
  PROVE  Reader' /\ Numbered'
<1>1. CASE /\ KeepsTml(tml, tml', {"rsem", "rd"}) /\ tml'.rsem = tml.rsem + 1
           /\ tml'.rd # "read" /\ q' = q
  <2>1. tml'.rsem > 0
    BY <1>1, Parts, TmlFields
  <2>2. Reader'
    BY <1>1, <2>1 DEF Reader, Listening, Rearming, InQueue, KeepsTml
  <2>3. Numbered'
    BY <1>1 DEF Numbered, Counted, InQueue, KeepsTml
  <2> QED
    BY <2>2, <2>3
<1>2. CASE /\ KeepsTml(tml, tml', {"renable", "rd"}) /\ ~tml'.renable
           /\ tml'.rd # "read" /\ q' = Append(q, "com_error")
  <2> DEFINE m == "com_error"
  <2>1. m \in Message /\ q' = Append(q, m) /\ q \in Seq(Message) /\ m = "com_error"
    BY <1>2, Parts DEF Message
  <2> HIDE DEF m
  <2>2. /\ InQueue("read")' <=> InQueue("read")
        /\ InQueue("close_cplt")' => InQueue("close_cplt")
        /\ InQueue("com_error")' /\ Once(q', "read")
    BY <2>1, HasAppend, OnceAppend DEF Reader, InQueue
  <2>3. Reader'
    BY <1>2, <2>2 DEF Reader, Listening, Rearming
  <2>4. Numbered'
    BY <1>2, <2>2 DEF Numbered, Counted, KeepsTml
  <2> QED
    BY <2>3, <2>4
<1> QED
  BY <1>1, <1>2

\* A step of the timer, the reader, the writer or the NFCC.
LEMMA DeviceStep ==
  ASSUME Typed, Reader, Numbered,
         TimerExpires \/ ReaderNext \/ ReaderFails \/ WriterNext \/ Answer \/ SendUnasked
  PROVE  Typed' /\ Reader' /\ Numbered'
<1>1. CASE TimerExpires
  <2>1. Typed' /\ SameReader(tml, tml') /\ Later /\ SameOut
    BY <1>1, TTimerExpires DEF TimerExpires, Keeps, Later, Rearming, SameReader, SameOut
  <2>2. \E m \in Message \ {"read"} : q' = Append(q, m) /\ m # "close_cplt"
    BY <1>1 DEF TimerExpires, Post, Message
  <2> QED
    BY <2>1, <2>2, OtherStep
<1>2. CASE ReaderFails
  BY <1>2, TReaderFails, FailStep DEF ReaderFails
<1>3. CASE ReaderTimesOut
  BY <1>3, TReaderTimesOut, FailStep DEF ReaderTimesOut
<1>4. CASE WriterWrites
  <2>1. Typed' /\ SameReader(tml, tml') /\ Later /\ SameOut /\ q' = q
    BY <1>4, TWriterWrites DEF WriterWrites, KeepsTml, Later, Rearming, SameReader, SameOut
  <2> QED
    BY <2>1, OtherStep
<1>5. CASE WriterIdles
  <2>1. Typed' /\ SameReader(tml, tml') /\ Later /\ SameOut /\ q' = q
    BY <1>5, TWriterIdles DEF WriterIdles, KeepsTml, Later, Rearming, SameReader, SameOut
  <2> QED
    BY <2>1, OtherStep
<1>6. CASE WriterPosts
  <2>1. Typed' /\ SameReader(tml, tml') /\ Later /\ SameOut
    BY <1>6, TWriterPosts DEF WriterPosts, KeepsTml, Later, Rearming, SameReader, SameOut
  <2>2. \E m \in Message \ {"read"} : q' = Append(q, m) /\ m # "close_cplt"
    BY <1>6 DEF WriterPosts, Post, Message
  <2> QED
    BY <2>1, <2>2, OtherStep
<1>7. CASE Answer
  <2>1. /\ Typed' /\ tml' = tml /\ q' = q /\ hal' = hal /\ client' = client /\ up' = up
        /\ nfcc'.seen = nfcc.seen
    BY <1>7, TAnswer DEF Answer
  <2>2. CASE nfcc'.out = nfcc.out /\ nfcc'.sent = nfcc.sent
    BY <2>1, <2>2, OtherStep DEF SameReader, Later, Rearming, SameOut
  <2>3. CASE \E k \in {"rsp", "bad_rsp"} :
               /\ nfcc'.out = Append(nfcc.out, Packet(k, Head(nfcc.held), nfcc.sent + 1))
               /\ nfcc'.sent = nfcc.sent + 1
    <3>1. PICK k \in {"rsp", "bad_rsp"} :
               /\ nfcc'.out = Append(nfcc.out, Packet(k, Head(nfcc.held), nfcc.sent + 1))
               /\ nfcc'.sent = nfcc.sent + 1
      BY <2>3
    <3> DEFINE p == Packet(k, Head(nfcc.held), nfcc.sent + 1)
    <3>2. Head(nfcc.held) \in Nat /\ nfcc.sent + 1 \in Nat
      BY <1>7, HeldTyped, Parts, NfccFields DEF Answer
    <3>3. p \in Packets /\ p.n = nfcc.sent + 1
      BY <3>2, Constants
    <3>4. nfcc'.out = Append(nfcc.out, p)
      BY <3>1
    <3> HIDE DEF p
    <3> QED
      BY <2>1, <3>1, <3>3, <3>4, SentStep
  <2> QED
    BY <1>7, <2>2, <2>3, TAnswer
<1>8. CASE SendUnasked
  <2>1. /\ Typed' /\ tml' = tml /\ q' = q /\ hal' = hal /\ client' = client /\ up' = up
        /\ nfcc'.seen = nfcc.seen
        /\ nfcc'.sent = nfcc.sent + 1
    BY <1>8, TSendUnasked DEF SendUnasked
  <2>2. PICK k \in {"ntf", "data"} : nfcc'.out = Append(nfcc.out, Packet(k, 0, nfcc.sent + 1))
    BY <1>8, TSendUnasked
  <2> DEFINE p == Packet(k, 0, nfcc.sent + 1)
  <2>3. nfcc.sent + 1 \in Nat
    BY Parts, NfccFields
  <2>4. p \in Packets /\ p.n = nfcc.sent + 1
    BY <2>3, Constants
  <2>5. nfcc'.out = Append(nfcc.out, p)
    BY <2>2
  <2> HIDE DEF p
  <2> QED
    BY <2>1, <2>4, <2>5, SentStep
<1> QED
  BY <1>1, <1>2, <1>3, <1>4, <1>5, <1>6, <1>7, <1>8, WakesStep, GetsStep
  DEF ReaderNext, WriterNext

-------------------------------------------------------------------------------
(* The theorems.                                                             *)

\* The inductive invariant.
Holds == Typed /\ Reader /\ Numbered

\* The invariant holds before the HAL is opened.
LEMMA InitHolds ==
  ASSUME Init
  PROVE  Holds
<1>1. hal = HalClosed /\ tml = TmlOff /\ q = <<>> /\ up = Silence /\ client = "off"
  BY DEF Init
<1>2. hal \in HalRec /\ tml \in TmlRec /\ up \in UpRec
  BY <1>1, Constants
<1>3. Shape(hal)
  BY <1>1 DEF HalClosed, Shape, Waiting
<1>4. nfcc \in NfccRec /\ Len(nfcc.out) <= nfcc.sent
  <2> DEFINE e == <<>>
  <2>1. nfcc = [held |-> e, out |-> e, sent |-> 0, seen |-> 0]
    BY DEF Init
  <2>2. e \in Seq(Nat) /\ e \in Seq(Packets) /\ Len(e) = 0
    OBVIOUS
  <2> HIDE DEF e
  <2> QED
    BY <2>1, <2>2 DEF NfccRec
<1>5. used \in UsedRec
  BY DEF Init, UsedRec
<1>6. q \in Seq(Message)
  BY <1>1
<1>7. Typed
  BY <1>1, <1>2, <1>3, <1>4, <1>5, <1>6 DEF Typed
<1>8. ~tml.run /\ ~tml.on
  BY <1>1 DEF TmlOff
<1>9. \A m : ~InQueue(m)
  BY <1>1, NothingQueued DEF InQueue
<1> QED
  BY <1>1, <1>7, <1>8, <1>9, NothingQueued DEF Holds, Reader, Listening, Rearming, Numbered

\* Every step keeps the invariant.
LEMMA StepHolds ==
  ASSUME Holds, [Next]_vars
  PROVE  Holds'
<1>1. CASE Next
  BY <1>1, ApiStep, CallStep, ClientStep, DeviceStep DEF Next, Holds
<1>2. CASE UNCHANGED vars
  <2>1. Typed'
    BY <1>2, Zenon DEF Holds, Typed, vars
  <2>2. hal' = hal /\ tml' = tml /\ q' = q /\ client' = client /\ nfcc' = nfcc /\ up' = up
    BY <1>2 DEF vars
  <2>3. Reader' /\ Numbered'
    BY <2>2 DEF Holds, Reader, Numbered, Counted, Listening, Rearming, InQueue
  <2> QED
    BY <2>1, <2>3 DEF Holds
<1> QED
  BY <1>1, <1>2

\* Every variable keeps its type and the call its shape, whatever the faults, the
\* retries and the order in which the five threads run.
THEOREM HalTypes == Spec => []Typed
<1>1. Holds => Typed
  BY DEF Holds
<1> QED
  BY <1>1, InitHolds, StepHolds, PTL DEF Spec

\* "read must be pending always" (phNxpNciHal_read_complete, phTmlNfc_Read): until the
\* HAL is closing or the stack is told that it cannot read, a read is under way, the
\* reader has been woken for one, or the client thread is about to take a packet or on
\* its way from there to the next read.
THEOREM AlwaysListening == Spec => []Listening
<1>1. Holds => Listening
  BY DEF Holds, Reader
<1> QED
  BY <1>1, InitHolds, StepHolds, PTL DEF Spec

\* phTmlNfc_TmlThread reads into one buffer: it never overwrites a packet that
\* phNxpNciHal_read_complete has not taken, and the client thread takes every packet of
\* the NFCC once and in order.
THEOREM PacketsOnce == Spec => []EachPacketOnce
<1>1. ASSUME Holds PROVE EachPacketOnce
  <2> DEFINE told == InQueue("read")
             due == (IF told THEN <<tml.buf>> ELSE <<>>) \o nfcc.out
  <2>1. SUFFICES ASSUME up.resets = 0, tml.on
                 PROVE  \A i \in DOMAIN due : due[i].n = nfcc.seen + i
    BY DEF EachPacketOnce
  <2>2. /\ told => tml.buf.n = nfcc.seen + 1
        /\ \A i \in 1..Len(nfcc.out) :
             nfcc.out[i].n = nfcc.seen + (IF told THEN 1 ELSE 0) + i
    BY <1>1, <2>1 DEF Holds, Numbered, Counted
  <2>3. nfcc.out \in Seq(Packets) /\ tml.buf \in Packets /\ nfcc.seen \in Nat
    BY <1>1, Parts, NfccFields, TmlFields DEF Holds
  <2> HIDE DEF told
  <2> DEFINE out == nfcc.out
             b == tml.buf
             n == nfcc.seen
  <2> HIDE DEF out, b, n
  <2>a. out \in Seq(Packets) /\ Len(out) \in Nat /\ b \in Packets /\ n \in Nat
    BY <2>3 DEF out, b, n
  <2>4. CASE told
    <3>1. due = <<b>> \o out
      BY <2>4 DEF b, out
    <3> HIDE DEF due
    <3>2. /\ DOMAIN due = 1..(1 + Len(out)) /\ due[1] = b
          /\ \A i \in 1..Len(out) : due[1 + i] = out[i]
      BY <2>a, <3>1, OneBefore
    <3>3. b.n = n + 1 /\ \A i \in 1..Len(out) : out[i].n = n + 1 + i
      BY <2>2, <2>4 DEF b, n, out
    <3>4. ASSUME NEW i \in DOMAIN due PROVE due[i].n = n + i
      <4>1. CASE i = 1
        BY <3>2, <3>3, <4>1
      <4>2. CASE i # 1
        <5> DEFINE j == i - 1
        <5>1. j \in 1..Len(out) /\ i = 1 + j
          BY <2>a, <3>2, <3>4, <4>2
        <5> HIDE DEF j
        <5>2. due[1 + j].n = n + 1 + j
          BY <3>2, <3>3, <5>1
        <5>3. n + 1 + j = n + (1 + j)
          BY <2>a, <5>1
        <5> QED
          BY <5>1, <5>2, <5>3, Zenon
      <4> QED
        BY <4>1, <4>2
    <3> QED
      BY <3>4 DEF n
  <2>5. CASE ~told
    <3>1. due = out
      <4>1. due = <<>> \o out
        BY <2>5 DEF out
      <4> QED
        BY <2>a, <4>1, ConcatEmptySeq
    <3> HIDE DEF due
    <3>2. \A i \in 1..Len(out) : out[i].n = n + 0 + i
      BY <2>2, <2>5 DEF n, out
    <3>3. ASSUME NEW i \in DOMAIN due PROVE due[i].n = n + i
      <4>1. i \in 1..Len(out) /\ due[i] = out[i]
        BY <2>a, <3>1, <3>3
      <4>2. n + 0 + i = n + i
        BY <2>a, <4>1
      <4> QED
        BY <3>2, <4>1, <4>2, Zenon
    <3> QED
      BY <3>3 DEF n
  <2> QED
    BY <2>4, <2>5
<1> QED
  BY <1>1, InitHolds, StepHolds, PTL DEF Spec
--------------------------------------------------------------------------------
(***************************************************************************)
(* Proof that the HAL takes its own responses and only these (OwnAnswer of *)
(* HalTml), for every number of retries and commands and all write and     *)
(* read failures and commands that stay unanswered.                        *)
(*                                                                         *)
(* OnWay is the core: of the commands the NFCC holds, the responses on     *)
(* their way and the packet the client thread is told of, at most one is   *)
(* there, and it belongs to the command that is owed a response (Owed).    *)
(* When a call stops waiting its timer expired, and then none was there.   *)
(* Always says which thread has the write and the read in hand, Takings    *)
(* what the semaphore and the status of a call mean.                       *)
(***************************************************************************)

\* A response to a command.
Carried(p) == p.k \in {"rsp", "bad_rsp"}

\* Of what the NFCC n holds or has on its way, and of the packet b when the client
\* thread is told of it (r), at most one is a command or its response, and one of C.
Sole(C, n, r, b) ==
  /\ Len(n.held) <= 1 /\ \A i \in 1..Len(n.held) : n.held[i] \in C
  /\ \A i \in 1..Len(n.out) : Carried(n.out[i]) => n.out[i].id \in C /\ n.held = <<>>
  /\ \A i, j \in 1..Len(n.out) : Carried(n.out[i]) /\ Carried(n.out[j]) => i = j
  /\ r /\ Carried(b) =>
       b.id \in C /\ n.held = <<>> /\ \A i \in 1..Len(n.out) : ~Carried(n.out[i])

\* Nothing will be read any more.
Dead == ~tml.renable /\ tml.rd # "read" /\ ~InQueue("read") /\ ~Rearming

\* The bytes of the command went to the NFCC, and the call does not know yet.
Sent == tml.wr = "written" \/ InQueue("written") \/ hal.wdone = "ok"

\* The timer expired, and the call does not know yet.
Expired == InQueue("expired") \/ client = "posting"

\* The command whose response is to come.
Owed ==
  IF hal.job = "none" \/ (hal.job = "write" /\ Sent) THEN {up.due} \ {0}
  ELSE IF /\ hal.job # "write" /\ hal.sem = 0 /\ ~Expired
          /\ hal.pc \in {"timer", "wait"} \/ (hal.pc = "writing" /\ Sent)
         THEN {hal.id} ELSE {}

\* Only that response can still be taken.
OnWay == Dead \/ Sole(Owed, nfcc, InQueue("read"), tml.buf)

\* After an error of the reader nothing is read.
Ending == InQueue("com_error") => Dead

\* While it may still read, a read is pending or about to be, or the HAL is going down.
Busy == tml.rbusy \/ Rearming \/ Dead \/ hal.pc \in {"shutdown", "join"}

\* A write is asked for, done, reported or known to the call: one of these at a time,
\* and only while the call waits for it.
Tried == tml.wr \in {"written", "unwritten"}
Reported == InQueue("written") \/ InQueue("unwritten")

Writes ==
  /\ Once(q, "written") /\ Once(q, "unwritten")
  /\ tml.wenable => ~Tried /\ ~Reported /\ hal.wdone = "no"
  /\ Tried => ~Reported /\ hal.wdone = "no"
  /\ Reported => hal.wdone = "no" /\ ~(InQueue("written") /\ InQueue("unwritten"))
  /\ tml.wenable \/ Tried \/ Reported \/ hal.wdone # "no" => hal.pc = "writing"

\* The timer runs and expires only for the call that waits, which nobody else wakes.
Timing ==
  /\ hal.timer = "running" => hal.pc = "wait"
  /\ Expired => hal.pc = "wait" /\ hal.sem = 0 /\ hal.timer = "stopped"
  /\ Once(q, "expired") /\ (InQueue("expired") => client # "posting")
  /\ client = "posting" => hal.stat = "failed"

\* The call has the response to its command, and no other came after it.
Got == hal.got = hal.id /\ (Carried(tml.buf) => tml.buf.id = hal.id)

Takings ==
  /\ /\ hal.job # "write" /\ hal.sem > 0 /\ hal.stat = "ok"
     /\ hal.pc \in {"writing", "timer", "wait"}
     => Got
  /\ hal.pc = "stop" /\ hal.stat = "ok" => Got
  /\ hal.pc = "disable" /\ hal.ret = "ok" => Got

\* No response came before the command went out.
Fresh ==
  hal.job # "write" /\ (hal.pc = "request" \/ (hal.pc = "writing" /\ ~Sent)) => hal.sem = 0

\* The command in the buffer is the one under way, the stack's in a write and at the
\* end of a recovery.
Command ==
  /\ hal.job = "write" /\ ~Sent => hal.id = up.due
  /\ hal.pc \in Waiting \cup {"init"} => hal.cmd \in {0, hal.id}
  /\ hal.job = "core" /\ hal.recover =>
       /\ up.due # 0 /\ hal.todo[Len(hal.todo)] = "LAST"
       /\ Len(hal.todo) = 1 /\ hal.pc # "enable" => hal.id = up.due

\* Nothing came unasked but data.
Answers == {"rsp", "bad_rsp", "data"}
Kinds ==
  /\ tml.buf.k \in Answers
  /\ \A i \in 1..Len(nfcc.out) : nfcc.out[i].k \in Answers

\* What OwnAnswer supposes; the rest holds without it.
Calm == Undisturbed /\ up.resets = 0
Always == Ending /\ Busy /\ Writes
Ours == OnWay /\ Timing /\ Takings /\ Fresh /\ Command /\ Kinds /\ ~up.wrong
Own == Calm => Ours

-------------------------------------------------------------------------------
(* What is on its way.                                                       *)

\* What is allowed of a few commands is allowed of more.
LEMMA SoleMore ==
  ASSUME NEW C, NEW D, C \subseteq D, NEW n, NEW r, NEW b, Sole(C, n, r, b)
  PROVE  Sole(D, n, r, b)
BY DEF Sole

\* A reset of the NFCC leaves no command and no response there.
LEMMA SoleEmpty ==
  ASSUME NEW C, NEW n, NEW m, NEW r, NEW b, Sole(C, n, r, b), m.held = <<>>, m.out = <<>>
  PROVE  Sole(C, m, r, b)
<1>1. Len(m.held) = 0 /\ Len(m.out) = 0 /\ 1..0 = {}
  OBVIOUS
<1>2. 1..Len(m.held) = {} /\ 1..Len(m.out) = {} /\ Len(m.held) <= 1
  BY <1>1
<1> QED
  BY <1>2 DEF Sole

\* Only what the NFCC holds and has on its way counts.
LEMMA SoleSame ==
  ASSUME NEW C, NEW n, NEW m, NEW r, NEW b, Sole(C, n, r, b), m.held = n.held, m.out = n.out
  PROVE  Sole(C, m, r, b)
BY DEF Sole

\* With nothing held, on its way or told, no response can come.
LEMMA Settle ==
  ASSUME NEW C, NEW n, NEW r, NEW b, ~r, n.held = <<>>, n.out = <<>>
  PROVE  Sole({}, n, r, b)
<1>1. Len(n.held) = 0 /\ Len(n.out) = 0 /\ 1..0 = {}
  OBVIOUS
<1>2. 1..Len(n.held) = {} /\ 1..Len(n.out) = {} /\ Len(n.held) <= 1
  BY <1>1
<1> QED
  BY <1>2 DEF Sole

\* A packet that is no response changes nothing.
LEMMA SoleSend ==
  ASSUME NEW C, NEW n \in NfccRec, NEW m, NEW r, NEW b, Sole(C, n, r, b), NEW p \in Packets,
         ~Carried(p), m.held = n.held, m.out = Append(n.out, p)
  PROVE  Sole(C, m, r, b)
<1>1. n.out \in Seq(Packets)
  BY NfccFields
<1>2. /\ Len(m.out) = Len(n.out) + 1 /\ Len(n.out) \in Nat
      /\ \A i \in 1..Len(n.out) : m.out[i] = n.out[i]
      /\ m.out[Len(n.out) + 1] = p
  BY <1>1, AppendSeq
<1>3. \A i \in 1..Len(m.out) : Carried(m.out[i]) => i \in 1..Len(n.out) /\ m.out[i] = n.out[i]
  BY <1>2
<1> QED
  BY <1>3 DEF Sole

\* The only one of a list is taken.
LEMMA LastHeld ==
  ASSUME NEW h \in Seq(Nat), h # <<>>, Len(h) <= 1, NEW t, t = Tail(h)
  PROVE  /\ Head(h) = h[1] /\ 1 \in 1..Len(h)
         /\ t = <<>> /\ Len(t) = 0 /\ 1..Len(t) = {}
<1>1. t \in Seq(Nat) /\ Len(t) = Len(h) - 1 /\ Len(h) \in Nat \ {0} /\ Head(h) = h[1]
  BY TailSeq
<1>2. Len(h) = 1 /\ Len(t) = 0
  BY <1>1
<1> QED
  BY <1>1, <1>2

\* A response takes the place of its command.
LEMMA SoleAnswer ==
  ASSUME NEW C, NEW n \in NfccRec, NEW m, NEW r, NEW b, Sole(C, n, r, b), NEW p \in Packets,
         n.held # <<>>, p.id = Head(n.held), m.held = Tail(n.held),
         m.out = n.out \/ m.out = Append(n.out, p)
  PROVE  Sole(C, m, r, b)
<1>1. n.out \in Seq(Packets) /\ n.held \in Seq(Nat)
  BY NfccFields
<1>2. Len(n.held) <= 1 /\ (\A i \in 1..Len(n.held) : n.held[i] \in C)
  BY DEF Sole
<1>3. /\ Head(n.held) = n.held[1] /\ 1 \in 1..Len(n.held)
      /\ m.held = <<>> /\ Len(m.held) = 0 /\ 1..Len(m.held) = {}
  BY <1>1, <1>2, LastHeld
<1>4. /\ \A i \in 1..Len(n.out) : ~Carried(n.out[i])
      /\ ~(r /\ Carried(b))
  BY DEF Sole
<1>5. CASE m.out = n.out
  BY <1>3, <1>4, <1>5 DEF Sole
<1>6. CASE m.out = Append(n.out, p)
  <2> DEFINE o == n.out
  <2>0. o \in Seq(Packets) /\ m.out = Append(o, p)
    BY <1>1, <1>6
  <2> HIDE DEF o
  <2>1. /\ Len(m.out) = Len(o) + 1 /\ Len(o) \in Nat
        /\ \A i \in 1..Len(o) : m.out[i] = o[i]
        /\ m.out[Len(o) + 1] = p
    BY <2>0, AppendSeq
  <2> USE DEF o
  <2>2. \A i \in 1..Len(m.out) : Carried(m.out[i]) => i = Len(n.out) + 1 /\ m.out[i] = p
    BY <1>4, <2>1
  <2> QED
    BY <1>2, <1>3, <1>4, <2>2 DEF Sole
<1> QED
  BY <1>5, <1>6

\* A command that goes out when no response can come is the only one.
LEMMA SoleWrite ==
  ASSUME NEW c, NEW n \in NfccRec, NEW m, NEW r, NEW b, Sole({}, n, r, b), c \in Nat,
         m.held = Append(n.held, c), m.out = n.out
  PROVE  Sole({c}, m, r, b)
<1>1. n.held \in Seq(Nat)
  BY NfccFields
<1>2. Len(n.held) = 0
  BY <1>1 DEF Sole
<1>3. Len(m.held) = 1 /\ m.held[1] = c
  BY <1>1, <1>2, AppendSeq
<1>4. /\ \A i \in 1..Len(n.out) : ~Carried(n.out[i])
      /\ ~(r /\ Carried(b))
  BY DEF Sole
<1> QED
  BY <1>3, <1>4 DEF Sole

\* A packet that is read is told of next, a response only if one was to come.
LEMMA SoleGet ==
  ASSUME NEW C, NEW n \in NfccRec, NEW m, NEW b, NEW a, Sole(C, n, FALSE, b), n.out # <<>>,
         m.held = n.held, m.out = Tail(n.out), a = Head(n.out)
  PROVE  Sole(C, m, TRUE, a) /\ (C = {} => ~Carried(a))
<1>1. n.out \in Seq(Packets)
  BY NfccFields
<1>2. /\ Len(m.out) = Len(n.out) - 1 /\ Len(n.out) \in Nat /\ Len(n.out) > 0
      /\ a = n.out[1]
      /\ \A i \in 1..Len(m.out) : m.out[i] = n.out[i + 1]
  BY <1>1, TailSeq
<1>3. \A i \in 1..Len(m.out) : i + 1 \in 1..Len(n.out) /\ m.out[i] = n.out[i + 1] /\ i + 1 # 1
  BY <1>2
<1>4. 1 \in 1..Len(n.out)
  BY <1>2
<1>5. \A i, j \in 1..Len(m.out) : Carried(m.out[i]) /\ Carried(m.out[j]) => i = j
  <2>1. \A i, j \in 1..Len(m.out) : i + 1 = j + 1 => i = j
    BY <1>2
  <2> QED
    BY <1>3, <2>1 DEF Sole
<1>6. Carried(a) => /\ a.id \in C /\ m.held = <<>>
                    /\ \A i \in 1..Len(m.out) : ~Carried(m.out[i])
  BY <1>2, <1>3, <1>4 DEF Sole
<1>7. /\ Len(m.held) <= 1 /\ \A i \in 1..Len(m.held) : m.held[i] \in C
      /\ \A i \in 1..Len(m.out) : Carried(m.out[i]) => m.out[i].id \in C /\ m.held = <<>>
  BY <1>3 DEF Sole
<1>8. C = {} => ~Carried(a)
  BY <1>6
<1> QED
  BY <1>5, <1>6, <1>7, <1>8 DEF Sole

\* Once the response is taken no other can come.
LEMMA SoleTake ==
  ASSUME NEW C, NEW n, NEW m, NEW b, NEW a, Sole(C, n, TRUE, b), m.held = n.held, m.out = n.out
  PROVE  /\ Sole(C, m, FALSE, a)
         /\ Carried(b) => b.id \in C /\ Sole({}, m, FALSE, a)
<1>1. Sole(C, m, FALSE, a)
  BY DEF Sole
<1>2. ASSUME Carried(b) PROVE b.id \in C /\ Sole({}, m, FALSE, a)
  <2>1. b.id \in C /\ m.held = <<>> /\ \A i \in 1..Len(m.out) : ~Carried(m.out[i])
    BY <1>2 DEF Sole
  <2>2. Len(m.held) = 0 /\ 1..Len(m.held) = {}
    BY <2>1
  <2> QED
    BY <2>1, <2>2 DEF Sole
<1> QED
  BY <1>1, <1>2

-------------------------------------------------------------------------------
(* Steps that leave the device and its threads alone.                        *)

\* What is queued for the client thread is the same, but for the messages in S.
KeepsQueue(S) ==
  /\ "read" \in S \/ (InQueue("read")' <=> InQueue("read"))
  /\ "com_error" \in S \/ (InQueue("com_error")' <=> InQueue("com_error"))
  /\ "written" \in S \/ /\ InQueue("written")' <=> InQueue("written")
                        /\ Once(q, "written") => Once(q', "written")
  /\ "unwritten" \in S \/ /\ InQueue("unwritten")' <=> InQueue("unwritten")
                          /\ Once(q, "unwritten") => Once(q', "unwritten")
  /\ "expired" \in S \/ /\ InQueue("expired")' <=> InQueue("expired")
                        /\ Once(q, "expired") => Once(q', "expired")

\* The queue of the client thread is left alone.
LEMMA Kept ==
  ASSUME q' = q
  PROVE  KeepsQueue({})
BY DEF KeepsQueue, InQueue

\* A message is posted to the client thread.
LEMMA Posted ==
  ASSUME Typed, NEW m \in Message, q' = Append(q, m)
  PROVE  /\ KeepsQueue({m}) /\ InQueue(m)'
         /\ Once(q, m) /\ ~InQueue(m) => Once(q', m)
<1>1. q \in Seq(Message)
  BY Parts
<1>2. /\ \A x : Contains(q', x) <=> Contains(q, x) \/ x = m
      /\ \A x : Once(q, x) /\ (m # x \/ ~Contains(q, x)) => Once(q', x)
  BY <1>1, HasAppend, OnceAppend
<1> QED
  BY <1>2 DEF KeepsQueue, InQueue

\* The client thread takes a message.
LEMMA Taken ==
  ASSUME Typed, NEW m, Takes(m)
  PROVE  /\ KeepsQueue({m}) /\ InQueue(m)
         /\ Once(q, m) => ~InQueue(m)' /\ Once(q', m)
<1>1. q \in Seq(Message) /\ q # <<>> /\ q' = Tail(q) /\ Head(q) = m
  BY Parts DEF Takes
<1>2. /\ \A x : Contains(q, x) <=> m = x \/ Contains(q', x)
      /\ \A x : Once(q, x) => Once(q', x) /\ (m = x => ~Contains(q', x))
  BY <1>1, HasTail, OnceTail
<1> QED
  BY <1>2 DEF KeepsQueue, InQueue

\* The bounds stay.
LEMMA SameBounds ==
  ASSUME Typed, Next
  PROVE  lim' = lim
<1>1. /\ [used EXCEPT !.opens = @ + 1].lim = used.lim
      /\ [used EXCEPT !.calls = @ + 1].lim = used.lim
      /\ [used EXCEPT !.calls = @ + 1, !.ids = @ + 1].lim = used.lim
      /\ \A i : [used EXCEPT !.ids = i].lim = used.lim
      /\ [used EXCEPT !.late = @ + 1].lim = used.lim
      /\ [used EXCEPT !.sends = @ + 1].lim = used.lim
      /\ [used EXCEPT !.mute = @ + 1].lim = used.lim
      /\ [used EXCEPT !.fail = @ + 1].lim = used.lim
      /\ [used EXCEPT !.err = @ + 1].lim = used.lim
  BY Parts DEF UsedRec
<1>2. CASE ApiNext
  BY <1>1, <1>2 DEF ApiNext, Open, CoreInitialized, RecoverLast, Write, Close, lim
<1>3. CASE CallNext
  <2>1. used' = used \/ EnableExt
    BY <1>3 DEF CallNext, InitCbData, Request, Written, WriteAgain, WriteGivenUp,
      StartTimer, Wake, CheckStatus, NextStep, OpenDone, CoreDone, OpenAgain, ForceDownload,
      OpenFailed, CoreAgain, CloseDone, CloseShutdown, Join
  <2>2. ASSUME EnableExt PROVE lim' = lim
    BY <1>1, <2>2 DEF EnableExt, lim
  <2> QED
    BY <2>1, <2>2 DEF lim
<1>4. CASE ClientNext
  BY <1>4 DEF ClientNext, TakeRead, TestClosing, ReadAgain, TakeComError, TakeWritten,
    TakeExpired, PostExpired, TakeEvent, TakeClosed, lim
<1>5. CASE TimerExpires
  BY <1>1, <1>5 DEF TimerExpires, lim
<1>6. CASE ReaderNext \/ ReaderFails
  BY <1>1, <1>6 DEF ReaderNext, ReaderWakes, ReaderGets, ReaderTimesOut, ReaderFails, lim
<1>7. CASE WriterNext
  BY <1>1, <1>7 DEF WriterNext, WriterWrites, WriterIdles, WriterPosts, lim
<1>8. CASE Answer
  BY <1>1, <1>8 DEF Answer, lim
<1>9. CASE SendUnasked
  BY <1>1, <1>9 DEF SendUnasked, lim
<1> QED
  BY <1>2, <1>3, <1>4, <1>5, <1>6, <1>7, <1>8, <1>9 DEF Next

\* A step of the stack's thread: it may ask for a write, end a read or a write, or take
\* what came of a write; its timer runs only while it waits.
Moved ==
  /\ tml'.rd = tml.rd /\ tml'.wr = tml.wr
  /\ tml'.renable => tml.renable
  /\ tml'.wenable => tml.wenable \/ (hal.pc = "request" /\ hal'.pc = "writing")
  /\ tml.rbusy => tml'.rbusy \/ hal'.pc \in {"shutdown", "join"}
  /\ hal.pc \in {"shutdown", "join"} => hal'.pc \in {"shutdown", "join"}
  /\ tml'.buf = tml.buf \/ up'.resets # 0
  /\ up'.resets = 0 => up.resets = 0
  /\ (nfcc'.held = nfcc.held /\ nfcc'.out = nfcc.out) \/ Emptied
  /\ client' = client /\ lim' = lim /\ KeepsQueue({})
  /\ \/ hal.pc # "writing" /\ hal'.wdone = hal.wdone
     \/ hal.pc = "writing" /\ hal.wdone # "no" /\ hal'.wdone = "no"
  /\ hal.pc = "wait" => hal.sem > 0 /\ hal'.timer # "running"
  /\ hal'.timer = "running" => hal.timer = "running" \/ hal'.pc = "wait"

\* What is left to show of such a step.
Rest == (Owed \subseteq Owed' \/ OnWay') /\ Takings' /\ Fresh' /\ Command' /\ ~up'.wrong

\* Such a step brings no response on its way and has nobody write or wait.
LEMMA MovedStep ==
  ASSUME Typed, Typed', Always, Own, Moved, Calm' /\ Calm /\ Ours => Rest
  PROVE  Always' /\ Own'
<1>1. /\ InQueue("read")' <=> InQueue("read")
      /\ InQueue("com_error")' <=> InQueue("com_error")
      /\ InQueue("written")' <=> InQueue("written")
      /\ InQueue("unwritten")' <=> InQueue("unwritten")
      /\ InQueue("expired")' <=> InQueue("expired")
      /\ Once(q, "written") => Once(q', "written")
      /\ Once(q, "unwritten") => Once(q', "unwritten")
      /\ Once(q, "expired") => Once(q', "expired")
  BY DEF Moved, KeepsQueue
<1>2. Dead => Dead'
  BY <1>1 DEF Dead, Rearming, Moved
<1>3. Ending' /\ Busy'
  BY <1>1, <1>2 DEF Always, Ending, Busy, Rearming, Moved
<1>4. Writes'
  BY <1>1 DEF Always, Writes, Tried, Reported, Moved
<1>5. ASSUME Calm' PROVE Ours'
  <2>1. Calm /\ Ours
    BY <1>5 DEF Calm, Undisturbed, Moved, Own
  <2>2. Rest
    BY <1>5, <2>1
  <2>3. ~Expired /\ (hal.timer = "running" => hal.pc = "wait")
    BY <1>1, <2>1, Parts, HalFields DEF Ours, Timing, Expired, Moved
  <2>4. Timing'
    BY <1>1, <2>1, <2>3 DEF Ours, Timing, Expired, Moved
  <2>5. tml'.buf = tml.buf
    BY <1>5 DEF Moved, Calm
  <2>6. Kinds'
    <3>1. CASE nfcc'.out = nfcc.out
      BY <2>1, <2>5, <3>1 DEF Ours, Kinds
    <3>2. CASE Emptied
      <4>1. 1..Len(nfcc'.out) = {}
        BY <3>2 DEF Emptied
      <4> QED
        BY <2>1, <2>5, <4>1 DEF Ours, Kinds
    <3> QED
      BY <3>1, <3>2 DEF Moved
  <2>7. ASSUME Owed \subseteq Owed' PROVE OnWay'
    <3>1. CASE Dead
      BY <1>2, <3>1 DEF OnWay
    <3>2. CASE Sole(Owed, nfcc, InQueue("read"), tml.buf)
      <4>1. Sole(Owed, nfcc, InQueue("read")', tml'.buf)
        BY <1>1, <2>5, <3>2 DEF Sole
      <4>2. Sole(Owed', nfcc, InQueue("read")', tml'.buf)
        BY <2>7, <4>1, SoleMore
      <4>3. Sole(Owed', nfcc', InQueue("read")', tml'.buf)
        <5>1. CASE nfcc'.held = nfcc.held /\ nfcc'.out = nfcc.out
          BY <4>2, <5>1, SoleSame
        <5>2. CASE Emptied
          BY <4>2, <5>2, SoleEmpty DEF Emptied
        <5> QED
          BY <5>1, <5>2 DEF Moved
      <4> QED
        BY <4>3 DEF OnWay
    <3> QED
      BY <2>1, <3>1, <3>2 DEF Ours, OnWay
  <2> QED
    BY <2>2, <2>4, <2>6, <2>7 DEF Rest, Ours
<1> QED
  BY <1>3, <1>4, <1>5 DEF Always, Own

\* Between two commands no response is due to a call.
LEMMA NoneOwed ==
  ASSUME Typed, Writes, hal.job # "none", hal.pc \notin {"writing", "timer", "wait"}
  PROVE  Owed = {} /\ ~Sent
<1>1. ~Sent
  BY DEF Writes, Sent, Tried, Reported
<1> QED
  BY <1>1 DEF Owed

\* The stack calls.
LEMMA OwnApi ==
  ASSUME Typed, Always, Own, lim' = lim, CoreInitialized \/ Write \/ Close
  PROVE  Always' /\ Own'
<1>0. Shape(hal) /\ Writes
  BY DEF Typed, Always
<1>1. CASE CoreInitialized
  <2>1. Typed' /\ tml' = tml /\ q' = q /\ client' = client /\ nfcc' = nfcc /\ up' = up
        /\ Keeps(hal, hal', {"job", "todo", "pc", "recover"})
        /\ hal'.job = "core" /\ hal'.pc = "enable" /\ ~hal'.recover
        /\ hal.pc = "idle" /\ hal.job = "none" /\ up.due = 0
    BY <1>1, TCoreInitialized DEF CoreInitialized, Usable, Idle
  <2>2. Moved
    BY <2>1, Kept DEF Moved, Keeps
  <2>3. ASSUME Ours PROVE Rest
    <3>1. Owed = {}
      BY <2>1 DEF Owed
    <3>2. Takings' /\ Fresh' /\ Command'
      BY <2>1 DEF Takings, Fresh, Command, Waiting
    <3> QED
      BY <2>1, <2>3, <3>1, <3>2 DEF Rest, Ours
  <2> QED
    BY <2>1, <2>2, <2>3, MovedStep
<1>2. CASE Write
  <2>1. Typed' /\ tml' = tml /\ q' = q /\ client' = client /\ nfcc' = nfcc
        /\ Keeps(hal, hal', {"job", "pc", "id", "cmd", "wdone"})
        /\ hal'.job = "write" /\ hal'.pc = "request" /\ hal'.wdone = "no"
        /\ hal'.cmd = hal'.id
        /\ hal.pc = "idle" /\ hal.job = "none" /\ up.due = 0
    BY <1>2, TWrite DEF Write, Usable, Idle
  <2>2. hal'.id = used.ids + 1 /\ up'.due = used.ids + 1 /\ up'.resets = up.resets
        /\ up'.wrong = up.wrong
    <3> DEFINE n == used.ids + 1
    <3>1. hal' = [hal EXCEPT !.job = "write", !.pc = "request", !.retry = 0, !.wdone = "no",
                             !.id = n, !.cmd = n]
          /\ up' = [up EXCEPT !.due = n]
      BY <1>2 DEF Write
    <3> HIDE DEF n
    <3>2. hal'.id = n /\ up'.due = n /\ up'.resets = up.resets /\ up'.wrong = up.wrong
      BY <3>1, Parts DEF HalRec, UpRec
    <3> QED
      BY <3>2 DEF n
  <2>3. hal.wdone = "no"
    BY <1>0, <2>1, Parts, HalFields DEF Writes
  <2>4. Moved
    BY <2>1, <2>2, <2>3, Kept DEF Moved, Keeps
  <2>5. ASSUME Ours PROVE Rest
    <3>1. Owed = {}
      BY <2>1 DEF Owed
    <3>2. Takings' /\ Fresh' /\ Command'
      BY <2>1, <2>2 DEF Takings, Fresh, Command, Waiting
    <3> QED
      BY <2>2, <2>5, <3>1, <3>2 DEF Rest, Ours
  <2> QED
    BY <2>1, <2>4, <2>5, MovedStep
<1>3. CASE Close
  <2>1. Typed' /\ tml' = tml /\ q' = q /\ client' = client /\ nfcc' = nfcc /\ up' = up
        /\ Keeps(hal, hal', {"job", "todo", "pc"})
        /\ hal'.job = "close" /\ hal'.pc = "enable"
        /\ hal.pc = "idle" /\ hal.job = "none"
        /\ ("overlap" \in lim.cases \/ up.due = 0)
    BY <1>3, TClose DEF Close, Usable, Idle
  <2>2. Moved
    BY <2>1, Kept DEF Moved, Keeps
  <2>3. ASSUME Calm, Ours PROVE Rest
    <3>1. Owed = {}
      BY <2>1, <2>3 DEF Owed, Calm, Undisturbed
    <3>2. Takings' /\ Fresh' /\ Command'
      BY <2>1 DEF Takings, Fresh, Command, Waiting
    <3> QED
      BY <2>1, <2>3, <3>1, <3>2 DEF Rest, Ours
  <2> QED
    BY <2>1, <2>2, <2>3, MovedStep
<1> QED
  BY <1>1, <1>2, <1>3

\* A command is prepared.
LEMMA PrepareStep ==
  ASSUME Typed, Always, Own, lim' = lim, EnableExt \/ InitCbData
  PROVE  Always' /\ Own'
<1>0. Shape(hal) /\ Writes
  BY DEF Typed, Always
<1>1. CASE EnableExt
  <2>1. Typed' /\ tml' = tml /\ q' = q /\ client' = client /\ nfcc' = nfcc /\ up' = up
        /\ Keeps(hal, hal', {"pc", "ext", "id", "cmd"})
        /\ hal'.pc = "init" /\ hal'.cmd = hal'.id
        /\ (Head(hal.todo) = "LAST" => hal'.id = up.due)
        /\ hal.pc = "enable"
    BY <1>1, TEnableExt DEF EnableExt
  <2>2. Moved
    BY <2>1, Kept DEF Moved, Keeps
  <2>3. ASSUME Ours PROVE Rest
    <3>1. Owed = {}
      BY <1>0, <2>1, NoneOwed DEF Shape
    <3>2. Takings' /\ Fresh'
      BY <2>1 DEF Takings, Fresh
    <3>3. hal.job # "write"
      BY <1>0, <2>1 DEF Shape
    <3>4. Len(hal.todo) = 1 => Head(hal.todo) = hal.todo[Len(hal.todo)]
      BY Parts, HalFields
    <3>5. Command'
      BY <2>1, <2>3, <3>3, <3>4 DEF Command, Ours, Keeps
    <3> QED
      BY <2>1, <2>3, <3>1, <3>2, <3>5 DEF Rest, Ours
  <2> QED
    BY <2>1, <2>2, <2>3, MovedStep
<1>2. CASE InitCbData
  <2>1. Typed' /\ tml' = tml /\ q' = q /\ client' = client /\ nfcc' = nfcc /\ up' = up
        /\ Keeps(hal, hal', {"pc", "sem", "stat", "got", "wdone"})
        /\ hal'.pc = "request" /\ hal'.sem = 0 /\ hal'.wdone = "no"
        /\ hal.pc = "init"
    BY <1>2, TInitCbData DEF InitCbData
  <2>2. hal.wdone = "no"
    BY <1>0, <2>1, Parts, HalFields DEF Writes
  <2>3. Moved
    BY <2>1, <2>2, Kept DEF Moved, Keeps
  <2>4. ASSUME Ours PROVE Rest
    <3>1. Owed = {}
      BY <1>0, <2>1, NoneOwed DEF Shape
    <3>2. Takings' /\ Fresh'
      BY <2>1 DEF Takings, Fresh
    <3>3. hal.job # "write"
      BY <1>0, <2>1 DEF Shape
    <3>4. Command'
      BY <2>1, <2>4, <3>3 DEF Command, Ours, Keeps, Waiting
    <3> QED
      BY <2>1, <2>4, <3>1, <3>2, <3>4 DEF Rest, Ours
  <2> QED
    BY <2>1, <2>3, <2>4, MovedStep
<1> QED
  BY <1>1, <1>2

\* A write is asked for, and its end taken.
LEMMA WriteStep ==
  ASSUME Typed, Always, Own, lim' = lim, Request \/ Written \/ WriteAgain \/ WriteGivenUp
  PROVE  Always' /\ Own'
<1>0. Shape(hal) /\ Writes
  BY DEF Typed, Always
<1>1. CASE Request
  <2>1. Typed' /\ q' = q /\ client' = client /\ nfcc' = nfcc /\ up' = up /\ hal.pc = "request"
    BY <1>1, TRequest DEF Request
  <2>2. hal.wdone = "no"
    BY <1>0, <2>1, Parts, HalFields DEF Writes
  <2>3. \/ tml' = tml /\ Unwritten(hal, hal')
        \/ /\ Keeps(hal, hal', {"pc"}) /\ hal'.pc = "writing"
           /\ KeepsTml(tml, tml', {"wenable"})
    BY <1>1, <2>2, TRequest
  <2>4. Shape(hal')
    BY <2>1 DEF Typed
  <2>5. CASE tml' = tml /\ Unwritten(hal, hal')
    <3>1. /\ hal'.wdone = "no" /\ hal'.timer = hal.timer /\ hal'.recover = hal.recover
          /\ hal'.todo = hal.todo /\ hal'.id = hal.id
          /\ \/ hal'.job = "none" /\ hal.job = "write" /\ hal'.pc = "idle"
             \/ hal'.job = hal.job /\ hal.job # "write" /\ hal'.ret = "failed" /\ hal'.pc = "disable"
      BY <2>4, <2>5 DEF Unwritten, Keeps, Shape
    <3>2. Moved
      BY <2>1, <2>2, <2>5, <3>1, Kept DEF Moved
    <3>3. ASSUME Ours PROVE Rest
      <4>1. Owed = {}
        BY <1>0, <2>1, NoneOwed DEF Shape
      <4>2. Takings' /\ Fresh'
        BY <3>1 DEF Takings, Fresh
      <4>3. Command'
        BY <2>1, <3>1, <3>3 DEF Command, Ours, Waiting
      <4> QED
        BY <2>1, <3>3, <4>1, <4>2, <4>3 DEF Rest, Ours
    <3> QED
      BY <2>1, <3>2, <3>3, MovedStep
  <2>6. CASE Keeps(hal, hal', {"pc"}) /\ hal'.pc = "writing" /\ KeepsTml(tml, tml', {"wenable"})
    <3>1. Moved
      BY <2>1, <2>6, Kept DEF Moved, Keeps, KeepsTml
    <3>2. ASSUME Ours PROVE Rest
      <4>1. Owed = {}
        BY <1>0, <2>1, NoneOwed DEF Shape
      <4>2. /\ hal'.sem = hal.sem /\ hal'.job = hal.job /\ hal'.id = hal.id /\ hal'.cmd = hal.cmd
            /\ hal'.recover = hal.recover /\ hal'.todo = hal.todo
        BY <2>6 DEF Keeps
      <4>3. hal.job # "write" => hal.sem = 0
        BY <2>1, <3>2 DEF Ours, Fresh
      <4>4. Takings' /\ Fresh'
        BY <2>6, <4>2, <4>3 DEF Takings, Fresh
      <4>5. hal.job = "write" => hal.id = up.due
        BY <1>0, <2>1, <3>2, NoneOwed DEF Ours, Command, Shape
      <4>6. Command'
        BY <2>1, <2>6, <3>2, <4>2, <4>5 DEF Command, Ours, Waiting
      <4> QED
        BY <2>1, <3>2, <4>1, <4>4, <4>6 DEF Rest, Ours
    <3> QED
      BY <2>1, <3>1, <3>2, MovedStep
  <2> QED
    BY <2>3, <2>5, <2>6
<1>2. CASE Written
  <2>1. Typed' /\ tml' = tml /\ q' = q /\ client' = client /\ nfcc' = nfcc /\ up' = up
        /\ Keeps(hal, hal', {"job", "pc", "wdone"})
        /\ hal'.wdone = "no"
        /\ (hal.job = "write" => hal'.job = "none")
        /\ (hal.job # "write" => hal'.job = hal.job /\ hal'.pc = "timer")
        /\ hal.pc = "writing" /\ hal.wdone = "ok"
    BY <1>2, TWritten DEF Written
  <2>2. Moved
    <3>1. hal'.pc # "wait" /\ hal'.timer = hal.timer
      BY <2>1 DEF Typed, Shape, Keeps
    <3> QED
      BY <2>1, <3>1, Kept DEF Moved
  <2>3. ASSUME Ours PROVE Rest
    <3>1. Sent /\ hal.job # "none"
      BY <1>0, <2>1 DEF Sent, Shape
    <3>2. hal'.sem = hal.sem /\ hal'.id = hal.id /\ hal'.cmd = hal.cmd /\ hal'.stat = hal.stat
          /\ hal'.got = hal.got /\ hal'.recover = hal.recover /\ hal'.todo = hal.todo
      BY <2>1 DEF Keeps
    <3>3. Expired' <=> Expired
      BY <2>1 DEF Expired, InQueue
    <3>4. Owed \subseteq Owed'
      BY <2>1, <3>1, <3>2, <3>3 DEF Owed
    <3>5. hal.job = "write" => hal'.pc = "idle"
      BY <2>1 DEF Typed, Shape
    <3>6. Takings' /\ Fresh'
      BY <2>1, <2>3, <3>2, <3>5 DEF Takings, Fresh, Ours, Got
    <3>7. Command'
      BY <2>1, <2>3, <3>2, <3>5 DEF Command, Ours, Waiting
    <3> QED
      BY <2>1, <2>3, <3>4, <3>6, <3>7 DEF Rest, Ours
  <2> QED
    BY <2>1, <2>2, <2>3, MovedStep
<1>3. CASE WriteAgain
  <2>1. Typed' /\ tml' = tml /\ q' = q /\ client' = client /\ nfcc' = nfcc /\ up' = up
        /\ Keeps(hal, hal', {"pc", "wdone"})
        /\ hal'.pc = "request" /\ hal'.wdone = "no"
        /\ hal.pc = "writing" /\ hal.wdone = "failed"
    BY <1>3, TWriteAgain DEF WriteAgain
  <2>2. Moved
    BY <2>1, Kept DEF Moved, Keeps
  <2>3. ASSUME Ours PROVE Rest
    <3>1. ~Sent
      BY <1>0, <2>1 DEF Writes, Sent, Tried, Reported
    <3>2. hal'.sem = hal.sem /\ hal'.id = hal.id /\ hal'.cmd = hal.cmd /\ hal'.job = hal.job
          /\ hal'.recover = hal.recover /\ hal'.todo = hal.todo
      BY <2>1 DEF Keeps
    <3>3. Owed = {}
      BY <1>0, <2>1, <3>1 DEF Owed, Shape
    <3>4. Takings' /\ Fresh'
      BY <2>1, <2>3, <3>1, <3>2 DEF Takings, Fresh, Ours
    <3>5. Command'
      BY <2>1, <2>3, <3>1, <3>2 DEF Command, Ours, Waiting
    <3> QED
      BY <2>1, <2>3, <3>3, <3>4, <3>5 DEF Rest, Ours
  <2> QED
    BY <2>1, <2>2, <2>3, MovedStep
<1>4. CASE WriteGivenUp
  <2>1. Typed' /\ q' = q /\ client' = client /\ Emptied /\ Unwritten(hal, hal')
        /\ hal.pc = "writing" /\ hal.wdone = "failed"
    BY <1>4, TWriteGivenUp DEF WriteGivenUp
  <2>2. \/ tml' = tml /\ up' = up
        \/ KeepsTml(tml, tml', {"buf"}) /\ up'.resets # 0
    <3>1. up.resets \in Nat
      BY Parts, UpFields
    <3>2. \/ tml' = tml /\ up' = up
          \/ KeepsTml(tml, tml', {"buf"}) /\ up'.resets = up.resets + 1
      BY <1>4, TWriteGivenUp
    <3> QED
      BY <3>1, <3>2
  <2>3. Shape(hal')
    BY <2>1 DEF Typed
  <2>4. /\ hal'.wdone = "no" /\ hal'.timer = hal.timer /\ hal'.recover = hal.recover
        /\ hal'.todo = hal.todo /\ hal'.id = hal.id
        /\ \/ hal'.job = "none" /\ hal.job = "write" /\ hal'.pc = "idle"
           \/ hal'.job = hal.job /\ hal.job # "write" /\ hal'.ret = "failed" /\ hal'.pc = "disable"
    BY <2>1, <2>3 DEF Unwritten, Keeps, Shape
  <2>5. Moved
    BY <2>1, <2>2, <2>4, Kept DEF Moved, KeepsTml
  <2>6. ASSUME Calm', Ours PROVE Rest
    <3>0. up' = up
      BY <2>2, <2>6 DEF Calm
    <3>1. ~Sent
      BY <1>0, <2>1 DEF Writes, Sent, Tried, Reported
    <3>2. Owed = {}
      BY <1>0, <2>1, <3>1 DEF Owed, Shape
    <3>3. Takings' /\ Fresh'
      BY <2>4 DEF Takings, Fresh
    <3>4. Command'
      BY <2>1, <2>4, <2>6, <3>0 DEF Command, Ours, Waiting
    <3> QED
      BY <2>6, <3>0, <3>2, <3>3, <3>4 DEF Rest, Ours
  <2> QED
    BY <2>1, <2>5, <2>6, MovedStep
<1> QED
  BY <1>1, <1>2, <1>3, <1>4

\* The wait for a response.
LEMMA WaitStep ==
  ASSUME Typed, Always, Own, lim' = lim, StartTimer \/ Wake \/ CheckStatus
  PROVE  Always' /\ Own'
<1>0. Shape(hal) /\ Writes
  BY DEF Typed, Always
<1>1. CASE StartTimer
  <2>1. Typed' /\ tml' = tml /\ q' = q /\ client' = client /\ nfcc' = nfcc /\ up' = up
        /\ Keeps(hal, hal', {"pc", "timer"}) /\ hal'.pc = "wait" /\ hal.pc = "timer"
    BY <1>1, TStartTimer DEF StartTimer
  <2>2. Moved
    BY <2>1, Kept DEF Moved, Keeps
  <2>3. ASSUME Ours PROVE Rest
    <3>1. hal'.sem = hal.sem /\ hal'.id = hal.id /\ hal'.cmd = hal.cmd /\ hal'.stat = hal.stat
          /\ hal'.got = hal.got /\ hal'.recover = hal.recover /\ hal'.todo = hal.todo
          /\ hal'.job = hal.job
      BY <2>1 DEF Keeps
    <3>2. hal.job # "none" /\ hal.job # "write"
      BY <1>0, <2>1 DEF Shape
    <3>3. Expired' <=> Expired
      BY <2>1 DEF Expired, InQueue
    <3>4. Owed \subseteq Owed'
      BY <2>1, <3>1, <3>2, <3>3 DEF Owed
    <3>5. Takings' /\ Fresh'
      BY <2>1, <2>3, <3>1 DEF Takings, Fresh, Ours, Got
    <3>6. Command'
      BY <2>1, <2>3, <3>1, <3>2 DEF Command, Ours, Waiting
    <3> QED
      BY <2>1, <2>3, <3>4, <3>5, <3>6 DEF Rest, Ours
  <2> QED
    BY <2>1, <2>2, <2>3, MovedStep
<1>2. CASE Wake
  <2>1. Typed' /\ tml' = tml /\ q' = q /\ client' = client /\ nfcc' = nfcc /\ up' = up
        /\ Keeps(hal, hal', {"pc", "sem", "timer"}) /\ hal'.pc = "stop"
        /\ hal'.timer = "stopped" /\ hal.pc = "wait" /\ hal.sem > 0
    BY <1>2, TWake DEF Wake
  <2>2. Moved
    BY <2>1, Kept DEF Moved, Keeps
  <2>3. ASSUME Ours PROVE Rest
    <3>1. hal'.id = hal.id /\ hal'.cmd = hal.cmd /\ hal'.stat = hal.stat
          /\ hal'.got = hal.got /\ hal'.recover = hal.recover /\ hal'.todo = hal.todo
          /\ hal'.job = hal.job
      BY <2>1 DEF Keeps
    <3>2. hal.job # "none" /\ hal.job # "write" /\ hal.sem # 0
      BY <1>0, <2>1, Parts, HalFields DEF Shape
    <3>4. Owed = {}
      BY <2>1, <3>2 DEF Owed
    <3>5. Takings' /\ Fresh'
      BY <2>1, <2>3, <3>1, <3>2 DEF Takings, Fresh, Ours, Got
    <3>6. Command'
      BY <2>1, <2>3, <3>1, <3>2 DEF Command, Ours, Waiting
    <3> QED
      BY <2>1, <2>3, <3>4, <3>5, <3>6 DEF Rest, Ours
  <2> QED
    BY <2>1, <2>2, <2>3, MovedStep
<1>3. CASE CheckStatus
  <2>1. Typed' /\ tml' = tml /\ q' = q /\ client' = client /\ nfcc' = nfcc /\ up' = up
        /\ Keeps(hal, hal', {"pc", "ret"}) /\ hal'.pc = "disable"
        /\ hal'.ret = hal.stat /\ hal.pc = "stop"
    BY <1>3, TCheckStatus DEF CheckStatus
  <2>2. Moved
    BY <2>1, Kept DEF Moved, Keeps
  <2>3. ASSUME Ours PROVE Rest
    <3>1. hal'.id = hal.id /\ hal'.cmd = hal.cmd
          /\ hal'.got = hal.got /\ hal'.recover = hal.recover /\ hal'.todo = hal.todo
          /\ hal'.job = hal.job
      BY <2>1 DEF Keeps
    <3>2. hal.job # "none" /\ hal.job # "write"
      BY <1>0, <2>1 DEF Shape
    <3>4. Owed = {}
      BY <2>1, <3>2, <1>0, NoneOwed
    <3>5. Takings' /\ Fresh'
      BY <2>1, <2>3, <3>1, <3>2 DEF Takings, Fresh, Ours, Got
    <3>6. Command'
      BY <2>1, <2>3, <3>1, <3>2 DEF Command, Ours, Waiting
    <3> QED
      BY <2>1, <2>3, <3>4, <3>5, <3>6 DEF Rest, Ours
  <2> QED
    BY <2>1, <2>2, <2>3, MovedStep
<1> QED
  BY <1>1, <1>2, <1>3

\* What the call does with the result of a command.
LEMMA EndRest ==
  ASSUME Typed, Always, Ours, hal.pc \in {"disable", "shutdown"},
         hal'.pc \in {"idle", "enable", "shutdown", "join"}, hal'.job # "write",
         hal'.job = "core" /\ hal'.recover =>
           /\ hal.job = "core" /\ hal.recover /\ up'.due = up.due
           /\ hal'.pc = "enable" /\ hal'.todo[Len(hal'.todo)] = "LAST",
         ~up'.wrong
  PROVE  Rest
<1>1. Owed = {}
  BY NoneOwed DEF Typed, Shape, Always
<1>2. Takings' /\ Fresh'
  BY DEF Takings, Fresh
<1>3. Command'
  BY DEF Command, Ours, Waiting
<1> QED
  BY <1>1, <1>2, <1>3 DEF Rest

\* The call goes on, starts over or ends.
LEMMA EndStep ==
  ASSUME Typed, Always, Own, lim' = lim,
         NextStep \/ OpenDone \/ OpenAgain \/ ForceDownload \/ OpenFailed \/ CoreAgain
         \/ CloseDone \/ CloseShutdown
  PROVE  Always' /\ Own'
<1>0. Shape(hal) /\ Writes
  BY DEF Typed, Always
<1>1. CASE NextStep
  <2>1. Typed' /\ tml' = tml /\ q' = q /\ client' = client /\ nfcc' = nfcc /\ up' = up
        /\ Keeps(hal, hal', {"pc", "ext", "todo", "closing"}) /\ hal'.pc = "enable"
        /\ hal'.todo = Tail(hal.todo) /\ hal.pc = "disable" /\ Len(hal.todo) > 1
    BY <1>1, TNextStep DEF NextStep
  <2>2. Moved
    BY <2>1, Kept DEF Moved, Keeps
  <2>3. ASSUME Ours PROVE Rest
    <3>1. hal'.job = hal.job /\ hal'.recover = hal.recover /\ hal.job # "write"
      BY <1>0, <2>1 DEF Keeps, Shape
    <3>2. hal'.todo[Len(hal'.todo)] = hal.todo[Len(hal.todo)]
      <4> DEFINE t == hal.todo
      <4>1. t \in Seq(Steps) /\ Len(t) > 1 /\ hal'.todo = Tail(t)
        BY <2>1, Parts, HalFields
      <4> HIDE DEF t
      <4>2. Tail(t)[Len(Tail(t))] = t[Len(t)]
        BY <4>1
      <4> QED
        BY <4>1, <4>2 DEF t
    <3> QED
      BY <2>1, <2>3, <3>1, <3>2, EndRest DEF Ours, Command
  <2> QED
    BY <2>1, <2>2, <2>3, MovedStep
<1>2. CASE OpenDone
  <2>1. Typed' /\ tml' = tml /\ q' = Append(q, "open_cplt") /\ client' = client
        /\ nfcc' = nfcc /\ up' = up
        /\ Keeps(hal, hal', {"job", "pc", "ext", "todo"}) /\ hal'.job = "none"
        /\ hal.pc = "disable"
    BY <1>2, TOpenDone DEF OpenDone, LastStep, Post
  <2>2. hal'.pc = "idle"
    BY <2>1 DEF Typed, Shape
  <2>3. KeepsQueue({})
    BY <2>1, Posted DEF Message, KeepsQueue
  <2>4. Moved
    BY <2>1, <2>2, <2>3 DEF Moved, Keeps
  <2>5. ASSUME Ours PROVE Rest
    BY <2>1, <2>2, <2>5, EndRest DEF Ours
  <2> QED
    BY <2>1, <2>4, <2>5, MovedStep
<1>3. CASE OpenAgain
  <2>1. Typed' /\ tml' = tml /\ q' = Append(q, "open_cplt") /\ client' = client
        /\ Emptied /\ up' = up
        /\ Keeps(hal, hal', {"pc", "ext", "todo"}) /\ hal'.pc = "enable"
        /\ hal.pc = "disable" /\ hal.job = "open"
    BY <1>3, TOpenAgain DEF OpenAgain, Post
  <2>3. KeepsQueue({})
    BY <2>1, Posted DEF Message, KeepsQueue
  <2>4. Moved
    BY <2>1, <2>3 DEF Moved, Keeps
  <2>5. ASSUME Ours PROVE Rest
    BY <2>1, <2>5, EndRest DEF Ours, Keeps
  <2> QED
    BY <2>1, <2>4, <2>5, MovedStep
<1>4. CASE ForceDownload
  <2>1. Typed' /\ tml' = tml /\ client' = client /\ nfcc' = nfcc /\ up' = up
        /\ Keeps(hal, hal', {"job", "pc", "ext", "todo"}) /\ hal'.job = "none"
        /\ hal.pc = "disable"
        /\ \E m \in {"open_cplt", "error"} : q' = Append(q, m)
    BY <1>4, TForceDownload DEF ForceDownload, Post
  <2>2. hal'.pc = "idle"
    BY <2>1 DEF Typed, Shape
  <2>3. KeepsQueue({})
    BY <2>1, Posted DEF Message, KeepsQueue
  <2>4. Moved
    BY <2>1, <2>2, <2>3 DEF Moved, Keeps
  <2>5. ASSUME Ours PROVE Rest
    BY <2>1, <2>2, <2>5, EndRest DEF Ours
  <2> QED
    BY <2>1, <2>4, <2>5, MovedStep
<1>5. CASE OpenFailed
  <2>1. Typed' /\ KeepsTml(tml, tml', {"run", "rsem"}) /\ q' = q /\ client' = client
        /\ nfcc' = nfcc /\ up' = up
        /\ Keeps(hal, hal', {"pc", "ext", "todo"}) /\ hal'.pc = "join"
        /\ hal.pc = "disable" /\ hal.job = "open"
    BY <1>5, TOpenFailed DEF OpenFailed
  <2>2. Moved
    BY <2>1, Kept DEF Moved, Keeps, KeepsTml
  <2>3. ASSUME Ours PROVE Rest
    BY <2>1, <2>3, EndRest DEF Ours, Keeps
  <2> QED
    BY <2>1, <2>2, <2>3, MovedStep
<1>6. CASE CoreAgain
  <2>1. Typed' /\ tml' = tml /\ q' = q /\ client' = client /\ up' = up
        /\ Keeps(hal, hal', {"job", "todo", "pc", "ext"})
        /\ \/ hal'.job = "none" /\ nfcc' = nfcc
           \/ /\ hal'.job = "core" /\ hal'.pc = "enable" /\ Emptied
              /\ hal.recover => hal'.todo[Len(hal'.todo)] = "LAST"
        /\ hal.pc = "disable" /\ hal.job = "core"
    BY <1>6, TCoreAgain DEF CoreAgain
  <2>2. hal'.pc \in {"idle", "enable"}
    BY <2>1 DEF Typed, Shape
  <2>3. Moved
    BY <2>1, <2>2, Kept DEF Moved, Keeps
  <2>4. ASSUME Ours PROVE Rest
    BY <2>1, <2>2, <2>4, EndRest DEF Ours, Keeps
  <2> QED
    BY <2>1, <2>3, <2>4, MovedStep
<1>7. CASE CloseDone
  <2>1. Typed' /\ KeepsTml(tml, tml', {"rbusy", "renable", "wenable"}) /\ ~tml'.renable
        /\ ~tml'.wenable /\ q' = Append(q, "close_cplt") /\ client' = client
        /\ nfcc' = nfcc /\ up' = up
        /\ Keeps(hal, hal', {"pc", "ext", "todo", "timer"}) /\ hal'.pc = "shutdown"
        /\ hal'.timer = "off" /\ hal.pc = "disable" /\ hal.job = "close"
    BY <1>7, TCloseDone DEF CloseDone, LastStep, Post
  <2>3. KeepsQueue({})
    BY <2>1, Posted DEF Message, KeepsQueue
  <2>4. Moved
    BY <2>1, <2>3 DEF Moved, Keeps, KeepsTml
  <2>5. ASSUME Ours PROVE Rest
    BY <2>1, <2>5, EndRest DEF Ours, Keeps
  <2> QED
    BY <2>1, <2>4, <2>5, MovedStep
<1>8. CASE CloseShutdown
  <2>1. Typed' /\ KeepsTml(tml, tml', {"run", "rsem"}) /\ q' = q /\ client' = client
        /\ nfcc' = nfcc /\ up' = up
        /\ Keeps(hal, hal', {"pc"}) /\ hal'.pc = "join" /\ hal.pc = "shutdown"
    BY <1>8, TCloseShutdown DEF CloseShutdown
  <2>2. Moved
    BY <2>1, Kept DEF Moved, Keeps, KeepsTml
  <2>3. ASSUME Ours PROVE Rest
    BY <1>0, <2>1, <2>3, EndRest DEF Ours, Keeps, Shape
  <2> QED
    BY <2>1, <2>2, <2>3, MovedStep
<1> QED
  BY <1>1, <1>2, <1>3, <1>4, <1>5, <1>6, <1>7, <1>8

\* A recovery hands up the response to the stack's command.
LEMMA CoreDoneStep ==
  ASSUME Typed, Always, Own, lim' = lim, CoreDone
  PROVE  Always' /\ Own'
<1>1. /\ Typed' /\ tml' = tml /\ client' = client /\ nfcc' = nfcc
      /\ IF hal.recover THEN up' = Heard(up, tml.buf) /\ q' = q
                        ELSE up' = up /\ q' = Append(q, "post_init_cplt")
      /\ Keeps(hal, hal', {"job", "pc", "ext", "todo"}) /\ hal'.job = "none"
      /\ hal.pc = "disable" /\ hal.job = "core" /\ hal.ret = "ok" /\ Len(hal.todo) = 1
  BY TCoreDone DEF CoreDone, LastStep
<1>2. hal'.pc = "idle"
  BY <1>1 DEF Typed, Shape
<1>3. KeepsQueue({})
  BY <1>1, Kept, Posted DEF Message, KeepsQueue
<1>4. up'.resets = 0 => up.resets = 0
  BY <1>1, Parts, HeardResets
<1>5. Moved
  BY <1>1, <1>2, <1>3, <1>4 DEF Moved, Keeps
<1>6. ASSUME Ours PROVE Rest
  <2>1. ~up.wrong
    BY <1>6 DEF Ours
  <2>2. ASSUME hal.recover PROVE ~up'.wrong
    <3>1. Got /\ up.due # 0 /\ hal.id = up.due
      BY <1>1, <1>6, <2>2 DEF Ours, Takings, Command
    <3>2. Carried(tml.buf) => tml.buf.id = up.due /\ tml.buf.id # 0
      BY <3>1 DEF Got
    <3>3. up' = Heard(up, tml.buf) /\ up \in UpRec
      BY <1>1, <2>2, Parts
    <3> QED
      BY <2>1, <3>2, <3>3, HeardTyped DEF Carried
  <2>3. ~up'.wrong
    BY <1>1, <2>1, <2>2
  <2> QED
    BY <1>1, <1>2, <1>6, <2>3, EndRest
<1> QED
  BY <1>1, <1>5, <1>6, MovedStep

\* A recovery starts when nothing is on its way.
LEMMA RecoverStep ==
  ASSUME Typed, Always, Own, lim' = lim, RecoverLast
  PROVE  Always' /\ Own'
<1>1. /\ Typed' /\ tml' = tml /\ q' = q /\ client' = client /\ up' = up
      /\ Keeps(hal, hal', {"job", "todo", "pc", "recover"})
      /\ \/ hal'.job = "none" /\ nfcc' = nfcc
         \/ /\ hal'.job = "core" /\ hal'.pc = "enable" /\ hal'.recover /\ Emptied
            /\ hal'.todo[Len(hal'.todo)] = "LAST"
      /\ hal.pc = "idle" /\ hal.job = "none" /\ up.due # 0
      /\ (lim.late > 0 \/ ~Answering)
  BY TRecoverLast DEF RecoverLast, Usable, Idle
<1>2. hal'.pc \in {"idle", "enable"}
  BY <1>1 DEF Typed, Shape
<1>3. Moved
  BY <1>1, <1>2, Kept DEF Moved, Keeps
<1>4. ASSUME Calm, Ours PROVE Rest
  <2>1. ~Answering
    BY <1>1, <1>4 DEF Calm, Undisturbed
  <2>2. CASE tml.rbusy \/ Rearming
    <3>1. ~InQueue("read")' /\ nfcc'.held = <<>> /\ nfcc'.out = <<>>
      BY <1>1, <2>1, <2>2 DEF Answering, Emptied, InQueue
    <3>2. Sole({}, nfcc', InQueue("read")', tml'.buf)
      BY <3>1, Settle
    <3>3. OnWay'
      BY <3>2, SoleMore DEF OnWay
    <3>4. Takings' /\ Fresh' /\ Command'
      BY <1>1, <1>2 DEF Takings, Fresh, Command, Waiting
    <3> QED
      BY <1>1, <1>4, <3>3, <3>4 DEF Rest, Ours
  <2>3. CASE ~(tml.rbusy \/ Rearming)
    <3>1. Dead
      BY <1>1, <2>3 DEF Always, Busy
    <3>2. OnWay'
      BY <1>1, <3>1 DEF OnWay, Dead, Rearming, InQueue
    <3>4. Takings' /\ Fresh' /\ Command'
      BY <1>1, <1>2 DEF Takings, Fresh, Command, Waiting
    <3> QED
      BY <1>1, <1>4, <3>2, <3>4 DEF Rest, Ours
  <2> QED
    BY <2>2, <2>3
<1> QED
  BY <1>1, <1>3, <1>4, MovedStep

\* Nothing is queued, written or on its way when the HAL is opened and when its
\* threads have ended.
LEMMA EndsStep ==
  ASSUME Typed, Always, Own, lim' = lim, Open \/ Join
  PROVE  Always' /\ Own'
<1>1. CASE Open
  <2>1. /\ Typed' /\ hal'.job = "open" /\ hal'.pc = "enable" /\ hal'.timer = "stopped"
        /\ hal'.wdone = "no" /\ tml'.rbusy /\ tml'.rd = "wait" /\ ~tml'.wenable
        /\ tml'.wr = "wait" /\ nfcc'.held = <<>> /\ nfcc'.out = <<>> /\ ~up'.wrong
        /\ q' = <<>> /\ client' = "on"
    BY <1>1, TOpen DEF Open
  <2>2. tml'.buf.k = "data"
    <3> DEFINE t == [TmlOff EXCEPT !.on = TRUE, !.run = TRUE, !.rd = "wait", !.wr = "wait"]
    <3>1. t \in TmlRec /\ t.buf = TmlOff.buf
      BY Constants DEF TmlRec
    <3>2. tml' = ReadInto(t, "cmd")
      BY <1>1 DEF Open
    <3> HIDE DEF t
    <3>3. tml'.buf = TmlOff.buf
      BY <3>1, <3>2, ReadIntoTyped DEF KeepsTml
    <3> QED
      BY <3>3 DEF TmlOff, NoPacket, Packet
  <2>3. \A m : ~Contains(q', m) /\ Once(q', m)
    BY <2>1, NothingQueued
  <2>4. Always'
    BY <2>1, <2>3 DEF Always, Ending, Busy, Rearming, Writes, Tried, Reported, InQueue
  <2>5. OnWay'
    <3>1. ~InQueue("read")'
      BY <2>3 DEF InQueue
    <3>2. Sole({}, nfcc', InQueue("read")', tml'.buf)
      BY <2>1, <3>1, Settle
    <3> QED
      BY <3>2, SoleMore DEF OnWay
  <2>6. Timing'
    BY <2>1, <2>3 DEF Timing, Expired, InQueue
  <2>7. Takings' /\ Fresh' /\ Command'
    BY <2>1 DEF Takings, Fresh, Command, Waiting
  <2>8. Kinds'
    BY <2>1, <2>2 DEF Kinds, Answers
  <2> QED
    BY <2>1, <2>4, <2>5, <2>6, <2>7, <2>8 DEF Own, Ours
<1>2. CASE Join
  <2>1. /\ Typed' /\ hal'.job = "none" /\ hal'.wdone = "no" /\ hal'.timer = "off"
        /\ ~tml'.renable /\ ~tml'.wenable /\ tml'.rd = "off" /\ tml'.wr = "off"
        /\ KeepsUp(up, up', {}) /\ q' = <<>> /\ client' = client /\ nfcc' = nfcc
        /\ hal.pc = "join" /\ ((q = <<>> /\ ~Rearming) \/ client = "off")
        /\ tml'.buf.k = "data"
    BY <1>2, TJoin DEF Join, TmlOff, NoPacket, Packet
  <2>2. hal'.pc = "idle"
    BY <2>1 DEF Typed, Shape
  <2>3. \A m : ~Contains(q', m) /\ Once(q', m)
    BY <2>1, NothingQueued
  <2>4. Always'
    BY <2>1, <2>3 DEF Always, Ending, Busy, Dead, Rearming, Writes, Tried, Reported, InQueue
  <2>5. OnWay'
    BY <2>1, <2>3 DEF OnWay, Dead, Rearming, InQueue
  <2>6. ASSUME Calm' PROVE Calm /\ Ours
    BY <2>1, <2>6 DEF Calm, Undisturbed, KeepsUp, Own
  <2>7. ASSUME Ours PROVE Timing'
    BY <2>1, <2>3, <2>7 DEF Ours, Timing, Expired, InQueue
  <2>8. Takings' /\ Fresh' /\ Command'
    BY <2>1, <2>2 DEF Takings, Fresh, Command, Waiting
  <2>9. ASSUME Ours PROVE Kinds' /\ ~up'.wrong
    BY <2>1, <2>9 DEF Kinds, Answers, Ours, KeepsUp
  <2> QED
    BY <2>4, <2>5, <2>6, <2>7, <2>8, <2>9 DEF Own, Ours
<1> QED
  BY <1>1, <1>2

-------------------------------------------------------------------------------
(* Steps of the client thread.                                               *)

\* The call, and what it knows of its write and its timer, is the same.
LEMMA SameCall ==
  ASSUME hal' = hal, up'.due = up.due, Sent' <=> Sent, Expired' <=> Expired,
         tml'.buf = tml.buf
  PROVE  /\ Owed' = Owed /\ (Takings => Takings') /\ (Fresh => Fresh')
         /\ (Command => Command')
<1>1. Owed' = Owed
  BY DEF Owed
<1>2. Takings => Takings'
  BY DEF Takings, Got
<1>3. Fresh => Fresh'
  BY DEF Fresh
<1>4. Command => Command'
  BY DEF Command
<1> QED
  BY <1>1, <1>2, <1>3, <1>4

\* The error of the reader is taken.
LEMMA OwnTakeError ==
  ASSUME Typed, Reader, Always, Own, lim' = lim, TakeComError
  PROVE  Always' /\ Own'
<1>1. /\ KeepsTml(tml, tml', {"rbusy"}) /\ KeepsUp(up, up', {"error"}) /\ hal' = hal
      /\ client' = client /\ nfcc' = nfcc /\ Takes("com_error")
  BY TTakeComError DEF TakeComError
<1>2. InQueue("com_error") /\ KeepsQueue({"com_error"})
  BY <1>1, Taken
<1>3. /\ InQueue("read")' <=> InQueue("read")
      /\ InQueue("written")' <=> InQueue("written")
      /\ InQueue("unwritten")' <=> InQueue("unwritten")
      /\ InQueue("expired")' <=> InQueue("expired")
      /\ Once(q, "written") => Once(q', "written")
      /\ Once(q, "unwritten") => Once(q', "unwritten")
      /\ Once(q, "expired") => Once(q', "expired")
  BY <1>2 DEF KeepsQueue
<1>4. Dead'
  BY <1>1, <1>2, <1>3 DEF Always, Ending, Dead, Rearming, KeepsTml
<1>5. Writes'
  BY <1>1, <1>3 DEF Always, Writes, Tried, Reported, KeepsTml
<1>6. Always'
  BY <1>4, <1>5 DEF Always, Ending, Busy, Rearming
<1>7. ASSUME Calm' PROVE Ours'
  <2>1. Ours
    BY <1>1, <1>7 DEF Own, Calm, Undisturbed, KeepsUp
  <2>2. (Sent' <=> Sent) /\ (Expired' <=> Expired)
    BY <1>1, <1>3 DEF Sent, Expired, KeepsTml
  <2>3. Takings' /\ Fresh' /\ Command'
    BY <1>1, <2>1, <2>2, SameCall DEF Ours, KeepsTml, KeepsUp
  <2>4. Timing'
    BY <1>1, <1>3, <2>1 DEF Ours, Timing, Expired
  <2>5. OnWay'
    BY <1>4 DEF OnWay
  <2>6. Kinds' /\ ~up'.wrong
    BY <1>1, <2>1 DEF Ours, Kinds, KeepsTml, KeepsUp
  <2> QED
    BY <2>3, <2>4, <2>5, <2>6 DEF Ours
<1> QED
  BY <1>6, <1>7 DEF Own

\* The end of a write is taken.
LEMMA TakeWrittenStep ==
  ASSUME Typed, Reader, Always, Own, lim' = lim, TakeWritten
  PROVE  Always' /\ Own'
<1>1. /\ KeepsTml(tml, tml', {}) /\ up' = up /\ Keeps(hal, hal', {"wdone"})
      /\ client' = client /\ nfcc' = nfcc
      /\ \/ Takes("written") /\ hal'.wdone = "ok"
         \/ Takes("unwritten") /\ hal'.wdone = "failed"
  BY TTakeWritten DEF TakeWritten
<1>2. /\ InQueue("read")' <=> InQueue("read")
      /\ InQueue("com_error")' <=> InQueue("com_error")
      /\ InQueue("expired")' <=> InQueue("expired")
      /\ Once(q, "expired") => Once(q', "expired")
      /\ Once(q', "written") /\ Once(q', "unwritten")
      /\ \/ /\ InQueue("written") /\ hal'.wdone = "ok" /\ ~InQueue("written")'
            /\ InQueue("unwritten")' <=> InQueue("unwritten")
         \/ /\ InQueue("unwritten") /\ hal'.wdone = "failed" /\ ~InQueue("unwritten")'
            /\ InQueue("written")' <=> InQueue("written")
  <2>1. CASE Takes("written") /\ hal'.wdone = "ok"
    <3>1. KeepsQueue({"written"}) /\ InQueue("written") /\ ~InQueue("written")'
          /\ Once(q', "written")
      BY <2>1, Taken DEF Always, Writes
    <3> QED
      BY <2>1, <3>1 DEF KeepsQueue, Always, Writes
  <2>2. CASE Takes("unwritten") /\ hal'.wdone = "failed"
    <3>1. KeepsQueue({"unwritten"}) /\ InQueue("unwritten") /\ ~InQueue("unwritten")'
          /\ Once(q', "unwritten")
      BY <2>2, Taken DEF Always, Writes
    <3> QED
      BY <2>2, <3>1 DEF KeepsQueue, Always, Writes
  <2> QED
    BY <1>1, <2>1, <2>2
<1>3. Reported /\ hal.wdone = "no" /\ hal.pc = "writing" /\ ~Reported' /\ ~Tried /\ ~tml.wenable
  BY <1>2 DEF Always, Writes, Reported
<1>4. Writes'
  BY <1>1, <1>2, <1>3 DEF Writes, Tried, KeepsTml, Keeps
<1>5. Ending' /\ Busy'
  BY <1>1, <1>2 DEF Always, Ending, Busy, Dead, Rearming, KeepsTml, Keeps
<1>6. Sent' <=> Sent
  BY <1>1, <1>2, <1>3 DEF Always, Writes, Sent, Tried, Reported, KeepsTml
<1>7. ASSUME Calm' PROVE Ours'
  <2>1. Ours
    BY <1>1, <1>7 DEF Own, Calm, Undisturbed
  <2>2. Expired' <=> Expired
    BY <1>1, <1>2 DEF Expired
  <2>3. Owed' = Owed
    BY <1>1, <1>6, <2>2 DEF Owed, Keeps
  <2>4. Takings' /\ Fresh'
    BY <1>1, <1>6, <2>1 DEF Ours, Takings, Got, Fresh, Keeps, KeepsTml
  <2>5. Command'
    BY <1>1, <1>6, <2>1 DEF Ours, Command, Keeps
  <2>6. Timing'
    BY <1>1, <1>2, <2>1 DEF Ours, Timing, Expired, Keeps
  <2>7. OnWay'
    BY <1>1, <1>2, <2>1, <2>3 DEF Ours, OnWay, Dead, Rearming, Sole, KeepsTml
  <2>8. Kinds' /\ ~up'.wrong
    BY <1>1, <2>1 DEF Ours, Kinds, KeepsTml
  <2> QED
    BY <2>4, <2>5, <2>6, <2>7, <2>8 DEF Ours
<1> QED
  BY <1>4, <1>5, <1>7 DEF Always, Own

\* The stack is told of an event.
LEMMA TakeEventStep ==
  ASSUME Typed, Reader, Always, Own, lim' = lim, TakeEvent \/ TakeClosed
  PROVE  Always' /\ Own'
<1>1. /\ tml' = tml /\ KeepsUp(up, up', {"error"}) /\ Keeps(hal, hal', {"cb"})
      /\ nfcc' = nfcc /\ (client' = client \/ (client = "on" /\ client' = "off"))
      /\ \E m \in Message \ {"read", "com_error", "written", "unwritten", "expired"} : Takes(m)
  <2>1. CASE TakeEvent
    <3>1. KeepsUp(up, up', {"error"}) /\ (Takes("open_cplt") \/ Takes("post_init_cplt") \/ Takes("error"))
      BY <2>1, TTakeEvent
    <3> QED
      BY <2>1, <3>1 DEF TakeEvent, Message, Keeps
  <2>2. CASE TakeClosed
    <3>1. Takes("close_cplt") /\ client = "on" /\ client' = "off" /\ tml' = tml /\ nfcc' = nfcc
      BY <2>2 DEF TakeClosed, Takes
    <3>2. hal.closing
      BY <3>1, Taken DEF Reader
    <3> QED
      BY <2>2, <3>1, <3>2, TTakeClosed DEF Message, KeepsUp
  <2> QED
    BY <2>1, <2>2
<1>2. KeepsQueue({})
  BY <1>1, Taken DEF KeepsQueue
<1>3. /\ InQueue("read")' <=> InQueue("read")
      /\ InQueue("com_error")' <=> InQueue("com_error")
      /\ InQueue("written")' <=> InQueue("written")
      /\ InQueue("unwritten")' <=> InQueue("unwritten")
      /\ InQueue("expired")' <=> InQueue("expired")
      /\ Once(q, "written") => Once(q', "written")
      /\ Once(q, "unwritten") => Once(q', "unwritten")
      /\ Once(q, "expired") => Once(q', "expired")
  BY <1>2 DEF KeepsQueue
<1>4. Writes'
  BY <1>1, <1>3 DEF Always, Writes, Tried, Reported, Keeps
<1>5. Ending' /\ Busy'
  BY <1>1, <1>3 DEF Always, Ending, Busy, Dead, Rearming, Keeps
<1>6. ASSUME Calm' PROVE Ours'
  <2>1. Ours
    BY <1>1, <1>6 DEF Own, Calm, Undisturbed, KeepsUp
  <2>2. (Sent' <=> Sent) /\ (Expired' <=> Expired)
    BY <1>1, <1>3 DEF Sent, Expired, Keeps
  <2>3. Owed' = Owed
    BY <1>1, <2>2 DEF Owed, Keeps, KeepsUp
  <2>4. Takings' /\ Fresh'
    BY <1>1, <2>1, <2>2 DEF Ours, Takings, Got, Fresh, Keeps
  <2>5. Command'
    BY <1>1, <2>1, <2>2 DEF Ours, Command, Keeps, KeepsUp
  <2>6. Timing'
    BY <1>1, <1>3, <2>1, <2>2 DEF Ours, Timing, Expired, Keeps
  <2>7. OnWay'
    BY <1>1, <1>3, <2>1, <2>3 DEF Ours, OnWay, Dead, Rearming, Sole
  <2>8. Kinds' /\ ~up'.wrong
    BY <1>1, <2>1 DEF Ours, Kinds, KeepsUp
  <2> QED
    BY <2>4, <2>5, <2>6, <2>7, <2>8 DEF Ours
<1> QED
  BY <1>4, <1>5, <1>6 DEF Always, Own

\* The timer expired: the status of the call, then its semaphore.
LEMMA ExpiredStep ==
  ASSUME Typed, Reader, Always, Own, lim' = lim, TakeExpired \/ PostExpired
  PROVE  Always' /\ Own'
<1>1. /\ tml' = tml /\ up' = up /\ nfcc' = nfcc /\ Keeps(hal, hal', {"stat", "sem"})
      /\ KeepsQueue({"expired"}) /\ Shape(hal) /\ (Rearming' <=> Rearming)
  <2>1. CASE TakeExpired
    <3>1. Takes("expired") /\ tml' = tml /\ up' = up /\ nfcc' = nfcc
          /\ Keeps(hal, hal', {"stat"}) /\ (Rearming' <=> Rearming)
      BY <2>1, TTakeExpired DEF TakeExpired, Takes, Rearming
    <3> QED
      BY <3>1, Taken DEF Keeps, Typed
  <2>2. CASE PostExpired
    <3>1. /\ q' = q /\ tml' = tml /\ up' = up /\ nfcc' = nfcc /\ Keeps(hal, hal', {"sem"})
          /\ Rearming' <=> Rearming
      BY <2>2, TPostExpired DEF PostExpired, Rearming
    <3> QED
      BY <3>1, Kept DEF KeepsQueue, Keeps, Typed
  <2> QED
    BY <2>1, <2>2
<1>2. /\ InQueue("read")' <=> InQueue("read")
      /\ InQueue("com_error")' <=> InQueue("com_error")
      /\ InQueue("written")' <=> InQueue("written")
      /\ InQueue("unwritten")' <=> InQueue("unwritten")
      /\ Once(q, "written") => Once(q', "written")
      /\ Once(q, "unwritten") => Once(q', "unwritten")
  BY <1>1 DEF KeepsQueue
<1>3. Writes'
  BY <1>1, <1>2 DEF Always, Writes, Tried, Reported, Keeps
<1>4. Ending' /\ Busy'
  BY <1>1, <1>2 DEF Always, Ending, Busy, Dead, Keeps
<1>5. ASSUME Calm' PROVE Ours'
  <2>1. Ours
    BY <1>1, <1>5 DEF Own, Calm, Undisturbed
  <2>2. Sent' <=> Sent
    BY <1>1, <1>2 DEF Sent, Keeps
  <2>3. /\ Expired /\ hal.pc = "wait" /\ hal.sem = 0 /\ hal.timer = "stopped"
        /\ hal'.stat = "failed" /\ Timing' /\ (Expired' \/ hal'.sem # 0)
    <3>1. CASE TakeExpired
      <4>1. Takes("expired") /\ client = "on"
        BY <3>1 DEF TakeExpired, Takes
      <4>2. InQueue("expired") /\ ~InQueue("expired")' /\ Once(q', "expired")
        BY <2>1, <4>1, Taken DEF Ours, Timing
      <4>3. Expired /\ hal.pc = "wait" /\ hal.sem = 0 /\ hal.timer = "stopped"
        BY <2>1, <4>2 DEF Ours, Timing, Expired
      <4>4. Keeps(hal, hal', {"stat"}) /\ hal'.stat = "failed" /\ client' = "posting"
        BY <3>1, <4>3, TTakeExpired
      <4> QED
        BY <4>2, <4>3, <4>4 DEF Timing, Expired, Keeps
    <3>2. CASE PostExpired
      <4>1. client = "posting" /\ client' = "on" /\ q' = q
        BY <3>2 DEF PostExpired
      <4>2. Expired /\ hal.pc = "wait" /\ hal.sem = 0 /\ hal.timer = "stopped"
            /\ hal.stat = "failed" /\ ~InQueue("expired")'
        BY <2>1, <4>1 DEF Ours, Timing, Expired, InQueue
      <4>3. SemExists
        BY <1>1, <4>2 DEF SemExists, Shape, Waiting
      <4>4. Keeps(hal, hal', {"sem"}) /\ hal'.sem = 1
        BY <3>2, <4>2, <4>3, TPostExpired
      <4> QED
        BY <2>1, <4>1, <4>2, <4>4 DEF Ours, Timing, Expired, Keeps
    <3> QED
      BY <3>1, <3>2
  <2>4. hal.job # "none" /\ hal.job # "write"
    BY <1>1, <2>3 DEF Shape
  <2>5. hal'.job = hal.job /\ hal'.pc = hal.pc
    BY <1>1 DEF Keeps
  <2>6. Owed = {} /\ Owed' = {}
    BY <2>3, <2>4, <2>5 DEF Owed
  <2>7. Takings' /\ Fresh'
    BY <2>3, <2>5 DEF Takings, Fresh
  <2>8. Command'
    BY <1>1, <2>1, <2>2 DEF Ours, Command, Keeps
  <2>9. OnWay'
    BY <1>1, <1>2, <2>1, <2>6 DEF Ours, OnWay, Dead, Sole
  <2>10. Kinds' /\ ~up'.wrong
    BY <1>1, <2>1 DEF Ours, Kinds
  <2> QED
    BY <2>3, <2>7, <2>8, <2>9, <2>10 DEF Ours
<1> QED
  BY <1>3, <1>4, <1>5 DEF Always, Own

\* The timer expires when no answer is on its way.
LEMMA TimerStep ==
  ASSUME Typed, Reader, Always, Own, lim' = lim, TimerExpires
  PROVE  Always' /\ Own'
<1>1. /\ tml' = tml /\ up' = up /\ nfcc' = nfcc /\ client' = client
      /\ Keeps(hal, hal', {"timer"}) /\ hal'.timer = "stopped" /\ hal.timer = "running"
      /\ q' = Append(q, "expired") /\ (Answering => used.late < lim.late)
  BY TTimerExpires DEF TimerExpires, Post
<1>2. /\ KeepsQueue({"expired"}) /\ InQueue("expired")'
      /\ Once(q, "expired") /\ ~InQueue("expired") => Once(q', "expired")
  BY <1>1, Posted DEF Message
<1>3. /\ InQueue("read")' <=> InQueue("read")
      /\ InQueue("com_error")' <=> InQueue("com_error")
      /\ InQueue("written")' <=> InQueue("written")
      /\ InQueue("unwritten")' <=> InQueue("unwritten")
      /\ Once(q, "written") => Once(q', "written")
      /\ Once(q, "unwritten") => Once(q', "unwritten")
  BY <1>2 DEF KeepsQueue
<1>4. Writes'
  BY <1>1, <1>3 DEF Always, Writes, Tried, Reported, Keeps
<1>5. Ending' /\ Busy'
  BY <1>1, <1>3 DEF Always, Ending, Busy, Dead, Rearming, Keeps
<1>6. ASSUME Calm' PROVE Ours'
  <2>1. Calm /\ Ours
    BY <1>1, <1>6 DEF Own, Calm, Undisturbed
  <2>2. ~Answering
    <3>1. used.late \in Nat /\ lim.late = 0
      BY <2>1, Parts, UsedFields DEF Calm, Undisturbed
    <3> QED
      BY <1>1, <3>1
  <2>3. hal.pc = "wait" /\ ~Expired /\ hal.sem = 0 /\ ~InQueue("read")
    BY <1>1, <2>1, <2>2, Parts, HalFields DEF Ours, Timing, Answering
  <2>4. OnWay'
    <3>1. CASE tml.rbusy \/ Rearming
      <4>1. Sole({}, nfcc', InQueue("read")', tml'.buf)
        BY <1>1, <1>3, <2>2, <2>3, <3>1, Settle DEF Answering
      <4> QED
        BY <4>1, SoleMore DEF OnWay
    <3>2. CASE ~(tml.rbusy \/ Rearming)
      BY <1>1, <1>3, <2>3, <3>2 DEF Always, Busy, Dead, Rearming, OnWay
    <3> QED
      BY <3>1, <3>2
  <2>5. Timing'
    BY <1>1, <1>2, <2>1, <2>3 DEF Ours, Timing, Expired, Keeps
  <2>6. Takings' /\ Fresh'
    BY <1>1, <2>3 DEF Takings, Fresh, Keeps
  <2>7. Sent' <=> Sent
    BY <1>1, <1>3 DEF Sent, Keeps
  <2>8. Command'
    BY <1>1, <2>1, <2>7 DEF Ours, Command, Keeps
  <2>9. Kinds' /\ ~up'.wrong
    BY <1>1, <2>1 DEF Ours, Kinds
  <2> QED
    BY <2>4, <2>5, <2>6, <2>8, <2>9 DEF Ours
<1> QED
  BY <1>4, <1>5, <1>6 DEF Always, Own

\* A packet is taken: the response to the command of a call goes to the call, that to
\* the stack's command up.
LEMMA OwnTakeRead ==
  ASSUME Typed, Reader, Always, Own, lim' = lim, TakeRead
  PROVE  Always' /\ Own'
<1>1. /\ Takes("read") /\ client = "on" /\ client' = "taken"
      /\ IF hal.ext /\ HasBit40(tml.buf) /\ SemExists
           THEN /\ Keeps(hal, hal', {"sem", "got", "stat"})
                /\ hal'.sem = hal.sem + 1 /\ hal'.got = tml.buf.id
           ELSE Keeps(hal, hal', {})
      /\ nfcc'.out = nfcc.out /\ nfcc'.held = nfcc.held
      /\ up' = up \/ up' = Heard(up, tml.buf)
      /\ hal.ext /\ HasBit40(tml.buf) => up' = up
      /\ KeepsTml(tml, tml', {"rbusy"})
  BY TTakeRead DEF Takes
<1>2. InQueue("read") /\ ~InQueue("read")' /\ KeepsQueue({"read"})
  BY <1>1, Taken DEF Reader
<1>3. /\ InQueue("com_error")' <=> InQueue("com_error")
      /\ InQueue("written")' <=> InQueue("written")
      /\ InQueue("unwritten")' <=> InQueue("unwritten")
      /\ InQueue("expired")' <=> InQueue("expired")
      /\ Once(q, "written") => Once(q', "written")
      /\ Once(q, "unwritten") => Once(q', "unwritten")
      /\ Once(q, "expired") => Once(q', "expired")
  BY <1>2 DEF KeepsQueue
<1>4. /\ hal'.job = hal.job /\ hal'.pc = hal.pc /\ hal'.id = hal.id /\ hal'.cmd = hal.cmd
      /\ hal'.ret = hal.ret /\ hal'.recover = hal.recover /\ hal'.todo = hal.todo
      /\ hal'.wdone = hal.wdone /\ hal'.timer = hal.timer
  BY <1>1 DEF Keeps
<1>5. ~tml.renable /\ tml.rd # "read" /\ ~Dead
  BY <1>2 DEF Reader, Dead, Rearming
<1>6. Writes'
  BY <1>1, <1>3, <1>4 DEF Always, Writes, Tried, Reported, KeepsTml
<1>7. Ending'
  BY <1>2, <1>3, <1>5 DEF Always, Ending
<1>8. Busy'
  BY <1>1 DEF Busy, Rearming
<1>9. (Sent' <=> Sent) /\ (Expired' <=> Expired)
  BY <1>1, <1>3, <1>4 DEF Sent, Expired, KeepsTml
<1>10. ASSUME Calm' PROVE Ours'
  <2>1. up.resets = 0
    BY <1>1, <1>10, Parts, HeardResets DEF Calm
  <2>2. Ours
    BY <2>1, <1>10 DEF Own, Calm, Undisturbed
  <2>3. Sole(Owed, nfcc, TRUE, tml.buf)
    BY <1>2, <1>5, <2>2 DEF Ours, OnWay, Sole
  <2>4. Sole(Owed, nfcc', FALSE, tml'.buf)
        /\ (Carried(tml.buf) => tml.buf.id \in Owed /\ Sole({}, nfcc', FALSE, tml'.buf))
    BY <1>1, <2>3, SoleTake
  <2>5. Kinds' /\ tml'.buf = tml.buf
    BY <1>1, <2>2 DEF Ours, Kinds, KeepsTml
  <2>6. CASE Carried(tml.buf)
    <3>1. OnWay'
      <4>1. Sole({}, nfcc', InQueue("read")', tml'.buf)
        BY <1>2, <2>4, <2>6 DEF Sole
      <4> QED
        BY <4>1, SoleMore DEF OnWay
    <3>2. HasBit40(tml.buf)
      BY <2>6 DEF Carried, HasBit40
    <3>3. CASE hal.job = "none" \/ (hal.job = "write" /\ Sent)
      <4>1. tml.buf.id = up.due /\ tml.buf.id # 0
        BY <2>4, <2>6, <3>3 DEF Owed
      <4>2. ~up'.wrong
        <5>1. ~up.wrong
          BY <2>2 DEF Ours
        <5>2. up \in UpRec
          BY Parts
        <5>3. Heard(up, tml.buf).wrong = up.wrong
          BY <2>6, <4>1, <5>2, HeardTyped DEF Carried
        <5> QED
          BY <1>1, <5>1, <5>3
      <4>3. ~hal.ext /\ Keeps(hal, hal', {})
        BY <1>1, <3>3 DEF Typed, Shape, Waiting
      <4>4. hal.pc \notin {"timer", "wait", "stop", "disable"}
        BY <3>3 DEF Typed, Shape
      <4>5. Takings' /\ Fresh'
        BY <1>4, <3>3, <4>4 DEF Takings, Fresh, Typed, Shape
      <4>6. Command'
        BY <1>4, <1>9, <2>2, <3>3 DEF Ours, Command
      <4>7. Timing'
        BY <1>1, <1>3, <1>9, <2>2, <4>3 DEF Ours, Timing, Keeps
      <4> QED
        BY <2>5, <3>1, <4>2, <4>5, <4>6, <4>7 DEF Ours
    <3>4. CASE ~(hal.job = "none" \/ (hal.job = "write" /\ Sent))
      <4>1. /\ tml.buf.id = hal.id /\ hal.job # "write" /\ hal.job # "none" /\ ~Expired
            /\ hal.sem = 0
            /\ hal.pc \in {"timer", "wait"} \/ (hal.pc = "writing" /\ Sent)
        BY <2>4, <2>6, <3>4 DEF Owed
      <4>2. hal.ext /\ SemExists
        BY <4>1 DEF SemExists, Typed, Shape, Waiting
      <4>3. hal'.got = hal.id /\ up' = up
        BY <1>1, <3>2, <4>1, <4>2
      <4>4. Takings' /\ Fresh'
        BY <1>4, <1>9, <2>5, <4>1, <4>3 DEF Takings, Got, Fresh
      <4>5. Command'
        BY <1>4, <1>9, <2>2, <4>3 DEF Ours, Command
      <4>6. Timing'
        BY <1>1, <1>3, <1>4, <1>9, <2>2, <4>1 DEF Ours, Timing, Expired
      <4> QED
        BY <2>2, <2>5, <3>1, <4>3, <4>4, <4>5, <4>6 DEF Ours
    <3> QED
      BY <3>3, <3>4
  <2>7. CASE ~Carried(tml.buf)
    <3>1. tml.buf.k = "data"
      BY <2>2, <2>7 DEF Ours, Kinds, Answers, Carried
    <3>2. Keeps(hal, hal', {})
      BY <1>1, <3>1 DEF HasBit40
    <3>3. up'.due = up.due /\ up'.wrong = up.wrong
      <4>1. up \in UpRec
        BY Parts
      <4>2. Heard(up, tml.buf).due = up.due /\ Heard(up, tml.buf).wrong = up.wrong
        BY <3>1, <4>1, HeardTyped
      <4> QED
        BY <1>1, <4>2
    <3>4. Owed' = Owed
      BY <1>9, <3>2, <3>3 DEF Owed, Keeps
    <3>5. OnWay'
      BY <1>2, <2>4, <3>4 DEF OnWay, Sole
    <3>6. Takings' /\ Fresh'
      BY <1>9, <2>2, <2>5, <3>2 DEF Ours, Takings, Got, Fresh, Keeps
    <3>7. Command'
      BY <1>4, <1>9, <2>2, <3>3 DEF Ours, Command
    <3>8. Timing'
      BY <1>1, <1>3, <1>9, <2>2, <3>2 DEF Ours, Timing, Keeps
    <3> QED
      BY <2>2, <2>5, <3>3, <3>5, <3>6, <3>7, <3>8 DEF Ours
  <2> QED
    BY <2>6, <2>7
<1> QED
  BY <1>6, <1>7, <1>8, <1>10 DEF Always, Own

\* The next read begins: nothing more is on its way for that.
LEMMA OwnReadAgain ==
  ASSUME Typed, Reader, Always, Own, lim' = lim, TestClosing \/ ReadAgain
  PROVE  Always' /\ Own'
<1>1. /\ hal' = hal /\ q' = q /\ nfcc' = nfcc /\ up' = up
      /\ Rearming /\ client # "posting" /\ client' # "posting"
      /\ KeepsTml(tml, tml', {"rbusy", "renable", "rsem"})
      /\ \/ tml' = tml /\ (Rearming' \/ hal.closing)
         \/ tml'.rbusy
  BY TReadAgain DEF Rearming, KeepsTml
<1>2. ~Dead /\ ~InQueue("read") /\ (tml'.renable => tml'.rbusy \/ tml.renable)
  BY <1>1 DEF Reader, Dead
<1>3. Ending'
  BY <1>1, <1>2 DEF Always, Ending, InQueue
<1>4. Busy'
  BY <1>1, <1>2 DEF Always, Busy, Reader, Dead, Rearming, InQueue
<1>5. Writes'
  BY <1>1 DEF Always, Writes, Tried, Reported, KeepsTml, InQueue
<1>6. ASSUME Calm' PROVE Ours'
  <2>1. Ours
    BY <1>1, <1>6 DEF Own, Calm, Undisturbed
  <2>2. (Sent' <=> Sent) /\ (Expired' <=> Expired)
    BY <1>1 DEF Sent, Expired, KeepsTml, InQueue
  <2>3. Takings' /\ Fresh' /\ Command' /\ Owed' = Owed
    BY <1>1, <2>1, <2>2, SameCall DEF Ours, KeepsTml
  <2>4. Timing'
    BY <1>1, <2>1 DEF Ours, Timing, Expired, InQueue
  <2>5. OnWay'
    BY <1>1, <1>2, <2>1, <2>3 DEF Ours, OnWay, Sole, KeepsTml, InQueue
  <2>6. Kinds' /\ ~up'.wrong
    BY <1>1, <2>1 DEF Ours, Kinds, KeepsTml
  <2> QED
    BY <2>3, <2>4, <2>5, <2>6 DEF Ours
<1> QED
  BY <1>3, <1>4, <1>5, <1>6 DEF Always, Own

-------------------------------------------------------------------------------
(* Steps of the reader, the writer and the NFCC.                             *)

\* The reader begins a read, or ends.
LEMMA OwnWakes ==
  ASSUME Typed, Reader, Always, Own, lim' = lim, ReaderWakes
  PROVE  Always' /\ Own'
<1>1. /\ KeepsTml(tml, tml', {"rsem", "rd"}) /\ up' = up /\ hal' = hal /\ q' = q
      /\ client' = client /\ nfcc' = nfcc /\ (tml'.rd = "read" => tml.renable)
      /\ tml.rd = "wait"
  BY TReaderWakes DEF ReaderWakes
<1>2. Dead => Dead'
  BY <1>1 DEF Dead, Rearming, KeepsTml, InQueue
<1>3. Always'
  BY <1>1, <1>2 DEF Always, Ending, Busy, Rearming, Writes, Tried, Reported, KeepsTml,
       InQueue
<1>4. ASSUME Calm' PROVE Ours'
  <2>1. Ours
    BY <1>1, <1>4 DEF Own, Calm, Undisturbed
  <2>2. (Sent' <=> Sent) /\ (Expired' <=> Expired)
    BY <1>1 DEF Sent, Expired, KeepsTml, InQueue
  <2>3. Takings' /\ Fresh' /\ Command' /\ Owed' = Owed
    BY <1>1, <2>1, <2>2, SameCall DEF Ours, KeepsTml
  <2>4. Timing'
    BY <1>1, <2>1 DEF Ours, Timing, Expired, InQueue
  <2>5. OnWay'
    BY <1>1, <1>2, <2>1, <2>3 DEF Ours, OnWay, Sole, KeepsTml, InQueue
  <2>6. Kinds' /\ ~up'.wrong
    BY <1>1, <2>1 DEF Ours, Kinds, KeepsTml
  <2> QED
    BY <2>3, <2>4, <2>5, <2>6 DEF Ours
<1> QED
  BY <1>3, <1>4 DEF Own

\* The reader has a packet.
LEMMA OwnGets ==
  ASSUME Typed, Reader, Always, Own, lim' = lim, ReaderGets
  PROVE  Always' /\ Own'
<1>1. /\ Keeps(hal, hal', {"cmd"}) /\ hal'.cmd \in {hal.cmd, 0}
      /\ KeepsTml(tml, tml', {"rd", "renable", "buf"})
      /\ ~tml'.renable /\ tml'.buf = Head(nfcc.out) /\ nfcc.out # <<>>
      /\ nfcc'.out = Tail(nfcc.out) /\ nfcc'.held = nfcc.held
      /\ up' = up /\ client' = client /\ q' = Append(q, "read") /\ tml.rd = "read"
  BY TReaderGets DEF ReaderGets, Post
<1>2. KeepsQueue({"read"}) /\ InQueue("read")' /\ ~InQueue("read")
  BY <1>1, Posted DEF Message, Reader
<1>3. /\ InQueue("com_error")' <=> InQueue("com_error")
      /\ InQueue("written")' <=> InQueue("written")
      /\ InQueue("unwritten")' <=> InQueue("unwritten")
      /\ InQueue("expired")' <=> InQueue("expired")
      /\ Once(q, "written") => Once(q', "written")
      /\ Once(q, "unwritten") => Once(q', "unwritten")
      /\ Once(q, "expired") => Once(q', "expired")
  BY <1>2 DEF KeepsQueue
<1>4. ~Dead
  BY <1>1 DEF Dead, Rearming
<1>5. Writes'
  BY <1>1, <1>3 DEF Always, Writes, Tried, Reported, Keeps, KeepsTml
<1>6. Ending' /\ Busy'
  BY <1>1, <1>3, <1>4 DEF Always, Ending, Busy, Rearming, Keeps, KeepsTml
<1>7. ASSUME Calm' PROVE Ours'
  <2>1. Ours
    BY <1>1, <1>7 DEF Own, Calm, Undisturbed
  <2>2. (Sent' <=> Sent) /\ (Expired' <=> Expired)
    BY <1>1, <1>3 DEF Sent, Expired, Keeps, KeepsTml
  <2>3. Owed' = Owed
    BY <1>1, <2>2 DEF Owed, Keeps
  <2>4. Sole(Owed, nfcc, FALSE, tml.buf)
    BY <1>2, <1>4, <2>1 DEF Ours, OnWay, Sole
  <2>5. Sole(Owed, nfcc', TRUE, tml'.buf) /\ (Owed = {} => ~Carried(tml'.buf))
    BY <1>1, <2>4, Parts, SoleGet
  <2>6. OnWay'
    BY <1>2, <2>3, <2>5 DEF OnWay, Sole
  <2>7. Fresh'
    BY <1>1, <2>1, <2>2 DEF Ours, Fresh, Keeps
  <2>8. Takings'
    <3>1. ASSUME Got, Owed = {} PROVE Got'
      BY <1>1, <2>5, <3>1 DEF Got, Keeps
    <3>2. hal.pc \in {"stop", "disable"} => Owed = {}
      BY NoneOwed DEF Always, Typed, Shape
    <3>3. hal.pc \in {"writing", "timer", "wait"} /\ hal.job # "write" /\ hal.sem > 0 => Owed = {}
      <4>1. hal.sem > 0 => hal.sem # 0
        BY Parts, HalFields
      <4> QED
        BY <4>1 DEF Owed, Typed, Shape
    <3>4. /\ hal'.pc = hal.pc /\ hal'.job = hal.job /\ hal'.sem = hal.sem
          /\ hal'.stat = hal.stat /\ hal'.ret = hal.ret
      BY <1>1 DEF Keeps
    <3> QED
      BY <2>1, <3>1, <3>2, <3>3, <3>4 DEF Takings, Ours
  <2>9. Command'
    BY <1>1, <2>1, <2>2 DEF Ours, Command, Keeps
  <2>10. Timing'
    BY <1>1, <1>3, <2>1 DEF Ours, Timing, Expired, Keeps
  <2>11. Kinds'
    <3> DEFINE o == nfcc.out
    <3>1. o \in Seq(Packets) /\ o # <<>> /\ nfcc'.out = Tail(o) /\ tml'.buf = Head(o)
      BY <1>1, Parts, NfccFields
    <3>2. \A i \in 1..Len(o) : o[i].k \in Answers
      BY <2>1 DEF Ours, Kinds
    <3> HIDE DEF o
    <3>3. 1 \in 1..Len(o) /\ Head(o) = o[1]
          /\ \A i \in 1..Len(Tail(o)) : i + 1 \in 1..Len(o) /\ Tail(o)[i] = o[i + 1]
      BY <3>1, TailSeq
    <3> QED
      BY <3>1, <3>2, <3>3 DEF Kinds
  <2> QED
    BY <1>1, <2>1, <2>6, <2>7, <2>8, <2>9, <2>10, <2>11 DEF Ours
<1> QED
  BY <1>5, <1>6, <1>7 DEF Always, Own

\* The reader failed: it reads again, or ends for good.
LEMMA OwnFails ==
  ASSUME Typed, Reader, Always, Own, lim' = lim, ReaderFails \/ ReaderTimesOut
  PROVE  Always' /\ Own'
<1>1. /\ hal' = hal /\ up' = up /\ client' = client /\ nfcc' = nfcc /\ tml.rd = "read"
      /\ tml'.rd # "read"
      /\ \/ KeepsTml(tml, tml', {"rsem", "rd"}) /\ q' = q
         \/ /\ KeepsTml(tml, tml', {"renable", "rd"}) /\ ~tml'.renable
            /\ q' = Append(q, "com_error")
  <2>1. CASE ReaderFails
    BY <2>1, TReaderFails DEF ReaderFails
  <2>2. CASE ReaderTimesOut
    BY <2>2, TReaderTimesOut DEF ReaderTimesOut
  <2> QED
    BY <2>1, <2>2
<1>2. KeepsQueue({"com_error"}) /\ ~InQueue("read") /\ ~InQueue("com_error")
  <2>1. ~InQueue("read") /\ ~InQueue("com_error")
    BY <1>1 DEF Reader, Always, Ending, Dead, Rearming
  <2>2. CASE q' = q
    BY <2>1, <2>2, Kept DEF KeepsQueue
  <2>3. CASE q' = Append(q, "com_error")
    BY <2>1, <2>3, Posted DEF Message
  <2> QED
    BY <1>1, <2>1, <2>2, <2>3
<1>3. /\ InQueue("read")' <=> InQueue("read")
      /\ InQueue("written")' <=> InQueue("written")
      /\ InQueue("unwritten")' <=> InQueue("unwritten")
      /\ InQueue("expired")' <=> InQueue("expired")
      /\ Once(q, "written") => Once(q', "written")
      /\ Once(q, "unwritten") => Once(q', "unwritten")
      /\ Once(q, "expired") => Once(q', "expired")
  BY <1>2 DEF KeepsQueue
<1>4. ~Dead
  BY <1>1 DEF Dead, Rearming
<1>5. /\ tml'.rbusy = tml.rbusy /\ tml'.buf = tml.buf /\ tml'.wenable = tml.wenable
      /\ tml'.wr = tml.wr
  BY <1>1 DEF KeepsTml
<1>6. Writes'
  BY <1>1, <1>3, <1>5 DEF Always, Writes, Tried, Reported
<1>7. Busy'
  BY <1>1, <1>4, <1>5 DEF Always, Busy, Rearming
<1>8. Ending'
  <2>1. CASE q' = q
    BY <1>2, <2>1 DEF Ending, InQueue
  <2>2. CASE ~tml'.renable
    BY <1>1, <1>2, <1>3, <2>2 DEF Reader, Ending, Dead, Rearming
  <2> QED
    BY <1>1, <2>1, <2>2
<1>9. ASSUME Calm' PROVE Ours'
  <2>1. Ours
    BY <1>1, <1>9 DEF Own, Calm, Undisturbed
  <2>2. (Sent' <=> Sent) /\ (Expired' <=> Expired)
    BY <1>1, <1>3, <1>5 DEF Sent, Expired
  <2>3. Takings' /\ Fresh' /\ Command' /\ Owed' = Owed
    BY <1>1, <1>5, <2>1, <2>2, SameCall DEF Ours
  <2>4. Timing'
    BY <1>1, <1>3, <2>1 DEF Ours, Timing, Expired
  <2>5. OnWay'
    BY <1>1, <1>3, <1>4, <1>5, <2>1, <2>3 DEF Ours, OnWay, Sole
  <2>6. Kinds' /\ ~up'.wrong
    BY <1>1, <1>5, <2>1 DEF Ours, Kinds
  <2> QED
    BY <2>3, <2>4, <2>5, <2>6 DEF Ours
<1> QED
  BY <1>6, <1>7, <1>8, <1>9 DEF Always, Own

\* The bytes that go out are the command, or nothing the NFCC would answer.
LEMMA OwnWrites ==
  ASSUME Typed, Reader, Always, Own, lim' = lim, WriterWrites
  PROVE  Always' /\ Own'
<1>1. /\ KeepsTml(tml, tml', {"wenable", "wr"}) /\ ~tml'.wenable
      /\ hal' = hal /\ q' = q /\ client' = client /\ up' = up
      /\ tml.wenable /\ tml.wr = "wait" /\ nfcc'.out = nfcc.out
      /\ \/ /\ tml'.wr = "written"
            /\ nfcc'.held = (IF hal.cmd = 0 THEN nfcc.held ELSE Append(nfcc.held, hal.cmd))
         \/ tml'.wr = "unwritten" /\ nfcc'.held = nfcc.held
  BY TWriterWrites DEF WriterWrites
<1>2. ~Tried /\ ~Reported /\ hal.wdone = "no" /\ hal.pc = "writing" /\ ~Sent
      /\ hal.job # "none"
  BY <1>1 DEF Always, Writes, Sent, Tried, Reported, Typed, Shape
<1>3. Writes'
  BY <1>1, <1>2 DEF Always, Writes, Tried, Reported, InQueue
<1>4. Ending' /\ Busy'
  BY <1>1 DEF Always, Ending, Busy, Dead, Rearming, KeepsTml, InQueue
<1>5. ASSUME Calm' PROVE Ours'
  <2>1. Ours
    BY <1>1, <1>5 DEF Own, Calm, Undisturbed
  <2>2. Owed = {}
    BY <1>2 DEF Owed
  <2>3. Expired' <=> Expired
    BY <1>1 DEF Expired, InQueue
  <2>4. Timing'
    BY <1>1, <2>1 DEF Ours, Timing, Expired, InQueue
  <2>5. Takings'
    BY <1>1, <2>1 DEF Ours, Takings, Got, KeepsTml
  <2>6. hal.job # "write" => hal.sem = 0
    BY <1>2, <2>1 DEF Ours, Fresh
  <2>7. Fresh'
    BY <1>1, <2>6 DEF Fresh
  <2>8. hal.cmd \in {0, hal.id} /\ (hal.job = "write" => hal.id = up.due)
    BY <1>2, <2>1 DEF Ours, Command, Waiting
  <2>9. Command'
    BY <1>1, <2>1, <2>8 DEF Ours, Command
  <2>10. Kinds' /\ ~up'.wrong
    BY <1>1, <2>1 DEF Ours, Kinds, KeepsTml
  <2>11. tml'.buf = tml.buf /\ tml'.rd = tml.rd /\ tml'.renable = tml.renable
         /\ (InQueue("read")' <=> InQueue("read"))
    BY <1>1 DEF KeepsTml, InQueue
  <2>12. OnWay'
    <3>1. CASE Dead
      BY <1>1, <2>11, <3>1 DEF OnWay, Dead, Rearming
    <3>2. CASE Sole({}, nfcc, InQueue("read"), tml.buf)
      <4>1. CASE nfcc'.held = nfcc.held
        <5>1. Sole({}, nfcc', InQueue("read")', tml'.buf)
          BY <1>1, <2>11, <3>2, <4>1 DEF Sole
        <5> QED
          BY <5>1, SoleMore DEF OnWay
      <4>2. CASE /\ tml'.wr = "written" /\ hal.cmd # 0
                 /\ nfcc'.held = Append(nfcc.held, hal.cmd)
        <5>1. hal.cmd \in Nat
          BY Parts, HalFields
        <5>2. Sole({hal.cmd}, nfcc', InQueue("read"), tml.buf)
          BY <1>1, <3>2, <4>2, <5>1, Parts, SoleWrite
        <5>3. hal.cmd = hal.id
          BY <2>8, <4>2
        <5>4. Sent'
          BY <4>2 DEF Sent
        <5>5. ~Expired
          BY <1>2, <2>1 DEF Ours, Timing
        <5>6. Owed' = {hal.cmd}
          <6>1. CASE hal.job = "write"
            BY <1>1, <2>8, <4>2, <5>3, <5>4, <6>1 DEF Owed
          <6>2. CASE hal.job # "write"
            BY <1>1, <1>2, <2>3, <2>6, <5>3, <5>4, <5>5, <6>2 DEF Owed
          <6> QED
            BY <6>1, <6>2
        <5> QED
          BY <2>11, <5>2, <5>6 DEF OnWay, Sole
      <4> QED
        BY <1>1, <4>1, <4>2
    <3> QED
      BY <2>1, <2>2, <3>1, <3>2 DEF Ours, OnWay
  <2> QED
    BY <2>4, <2>5, <2>7, <2>9, <2>10, <2>12 DEF Ours
<1> QED
  BY <1>3, <1>4, <1>5 DEF Always, Own

\* The writer idles, or reports what it did.
LEMMA ReportStep ==
  ASSUME Typed, Reader, Always, Own, lim' = lim, WriterIdles \/ WriterPosts
  PROVE  Always' /\ Own'
<1>1. /\ KeepsTml(tml, tml', {"wr"}) /\ tml'.wr \notin {"written", "unwritten"}
      /\ hal' = hal /\ client' = client /\ up' = up /\ nfcc' = nfcc
      /\ \/ tml.wr = "wait" /\ q' = q
         \/ tml.wr \in {"written", "unwritten"} /\ q' = Append(q, tml.wr)
  <2>1. CASE WriterIdles
    BY <2>1, TWriterIdles DEF WriterIdles, Looping
  <2>2. CASE WriterPosts
    BY <2>2, TWriterPosts DEF WriterPosts, Looping, Post
  <2> QED
    BY <2>1, <2>2
<1>2. /\ InQueue("read")' <=> InQueue("read")
      /\ InQueue("com_error")' <=> InQueue("com_error")
      /\ InQueue("expired")' <=> InQueue("expired")
      /\ Once(q, "expired") => Once(q', "expired")
      /\ Once(q', "written") /\ Once(q', "unwritten")
      /\ InQueue("written")' <=> InQueue("written") \/ tml.wr = "written"
      /\ InQueue("unwritten")' <=> InQueue("unwritten") \/ tml.wr = "unwritten"
  <2>1. CASE tml.wr = "wait" /\ q' = q
    BY <2>1 DEF Always, Writes, InQueue
  <2>2. CASE tml.wr = "written" /\ q' = Append(q, "written")
    <3>1. ~InQueue("written")
      BY <2>2 DEF Always, Writes, Tried, Reported
    <3>2. KeepsQueue({"written"}) /\ InQueue("written")' /\ Once(q', "written")
      BY <2>2, <3>1, Posted DEF Always, Writes, Message
    <3> QED
      BY <2>2, <3>2 DEF KeepsQueue, Always, Writes
  <2>3. CASE tml.wr = "unwritten" /\ q' = Append(q, "unwritten")
    <3>1. ~InQueue("unwritten")
      BY <2>3 DEF Always, Writes, Tried, Reported
    <3>2. KeepsQueue({"unwritten"}) /\ InQueue("unwritten")' /\ Once(q', "unwritten")
      BY <2>3, <3>1, Posted DEF Always, Writes, Message
    <3> QED
      BY <2>3, <3>2 DEF KeepsQueue, Always, Writes
  <2> QED
    BY <1>1, <2>1, <2>2, <2>3
<1>3. Writes'
  BY <1>1, <1>2 DEF Always, Writes, Tried, Reported, KeepsTml
<1>4. Ending' /\ Busy'
  BY <1>1, <1>2 DEF Always, Ending, Busy, Dead, Rearming, KeepsTml
<1>5. ASSUME Calm' PROVE Ours'
  <2>1. Ours
    BY <1>1, <1>5 DEF Own, Calm, Undisturbed
  <2>2. (Sent' <=> Sent) /\ (Expired' <=> Expired)
    BY <1>1, <1>2 DEF Sent, Expired
  <2>3. Takings' /\ Fresh' /\ Command' /\ Owed' = Owed
    BY <1>1, <2>1, <2>2, SameCall DEF Ours, KeepsTml
  <2>4. Timing'
    BY <1>1, <1>2, <2>1 DEF Ours, Timing, Expired
  <2>5. OnWay'
    BY <1>1, <1>2, <2>1, <2>3 DEF Ours, OnWay, Dead, Rearming, Sole, KeepsTml
  <2>6. Kinds' /\ ~up'.wrong
    BY <1>1, <2>1 DEF Ours, Kinds, KeepsTml
  <2> QED
    BY <2>3, <2>4, <2>5, <2>6 DEF Ours
<1> QED
  BY <1>3, <1>4, <1>5 DEF Always, Own

\* The NFCC answers the command it holds, or forgets it.
LEMMA AnswerSends ==
  ASSUME Typed, Answer
  PROVE  /\ nfcc.held # <<>> /\ nfcc'.held = Tail(nfcc.held)
         /\ \E p \in Packets :
              /\ p.id = Head(nfcc.held) /\ p.k \in Answers
              /\ nfcc'.out = nfcc.out \/ nfcc'.out = Append(nfcc.out, p)
<1> DEFINE i == Head(nfcc.held)
           n == nfcc.sent + 1
<1>1. i \in Nat /\ n \in Nat /\ nfcc.held # <<>>
  BY HeldTyped, Parts, NfccFields DEF Answer
<1>2. /\ nfcc'.held = Tail(nfcc.held)
      /\ nfcc'.out = nfcc.out \/ nfcc'.out = Append(nfcc.out, Packet("rsp", i, n))
                             \/ nfcc'.out = Append(nfcc.out, Packet("bad_rsp", i, n))
  BY TAnswer
<1> HIDE DEF i, n
<1> DEFINE r == Packet("rsp", i, n)
           b == Packet("bad_rsp", i, n)
<1>3. r \in Packets /\ r.id = i /\ r.k \in Answers /\ b \in Packets /\ b.id = i /\ b.k \in Answers
  BY <1>1, Constants DEF Answers
<1> HIDE DEF r, b
<1>4. \E p \in Packets :
        /\ p.id = i /\ p.k \in Answers
        /\ nfcc'.out = nfcc.out \/ nfcc'.out = Append(nfcc.out, p)
  <2>1. CASE nfcc'.out = nfcc.out
    BY <1>3, <2>1
  <2>2. CASE nfcc'.out = Append(nfcc.out, r)
    BY <1>3, <2>2
  <2>3. CASE nfcc'.out = Append(nfcc.out, b)
    BY <1>3, <2>3
  <2> QED
    BY <1>2, <2>1, <2>2, <2>3 DEF r, b
<1> QED
  BY <1>1, <1>2, <1>4 DEF i

\* Without notifications, all that the NFCC sends unasked is data.
LEMMA UnaskedSends ==
  ASSUME Typed, SendUnasked, "ntf" \notin lim.cases
  PROVE  /\ nfcc'.held = nfcc.held
         /\ \E p \in Packets : p.k = "data" /\ nfcc'.out = Append(nfcc.out, p)
<1> DEFINE n == nfcc.sent + 1
           p == Packet("data", 0, n)
<1>1. n \in Nat
  BY Parts, NfccFields
<1>2. nfcc'.held = nfcc.held /\ nfcc'.out = Append(nfcc.out, p)
  BY TSendUnasked
<1> HIDE DEF n
<1>3. p \in Packets /\ p.k = "data"
  BY <1>1, Constants
<1> HIDE DEF p
<1> QED
  BY <1>2, <1>3

\* The NFCC answers a command or not, or sends data unasked.
LEMMA NfccStep ==
  ASSUME Typed, Reader, Always, Own, lim' = lim, Answer \/ SendUnasked
  PROVE  Always' /\ Own'
<1>1. tml' = tml /\ hal' = hal /\ q' = q /\ client' = client /\ up' = up
  BY DEF Answer, SendUnasked
<1>2. Always'
  BY <1>1 DEF Always, Ending, Busy, Dead, Rearming, Writes, Tried, Reported, InQueue
<1>3. ASSUME Calm' PROVE Ours'
  <2>1. Ours /\ "ntf" \notin lim.cases
    BY <1>1, <1>3 DEF Own, Calm, Undisturbed
  <2>2. (Sent' <=> Sent) /\ (Expired' <=> Expired)
    BY <1>1 DEF Sent, Expired, InQueue
  <2>3. Takings' /\ Fresh' /\ Command' /\ Owed' = Owed
    BY <1>1, <2>1, <2>2, SameCall DEF Ours
  <2>4. Timing'
    BY <1>1, <2>1 DEF Ours, Timing, Expired, InQueue
  <2>5. \/ nfcc'.out = nfcc.out
        \/ \E p \in Packets : p.k \in Answers /\ nfcc'.out = Append(nfcc.out, p)
    <3>0. nfcc.sent + 1 \in Nat
      BY Parts, NfccFields
    <3>1. CASE Answer
      BY <3>1, AnswerSends
    <3>2. CASE SendUnasked
      BY <2>1, <3>2, UnaskedSends DEF Answers
    <3> QED
      BY <3>1, <3>2
  <2>6. Kinds'
    <3>1. CASE nfcc'.out = nfcc.out
      BY <1>1, <2>1, <3>1 DEF Ours, Kinds
    <3>2. ASSUME NEW p \in Packets, p.k \in Answers, nfcc'.out = Append(nfcc.out, p)
          PROVE  Kinds'
      <4> DEFINE o == nfcc.out
      <4>1. o \in Seq(Packets) /\ nfcc'.out = Append(o, p)
        BY <3>2, Parts, NfccFields
      <4>2. \A i \in 1..Len(o) : o[i].k \in Answers
        BY <2>1 DEF Ours, Kinds
      <4> HIDE DEF o
      <4>3. \A i \in 1..Len(nfcc'.out) : nfcc'.out[i].k \in Answers
        <5>1. /\ Len(nfcc'.out) = Len(o) + 1 /\ Len(o) \in Nat
              /\ \A i \in 1..Len(o) : nfcc'.out[i] = o[i]
              /\ nfcc'.out[Len(o) + 1] = p
          BY <4>1, AppendSeq
        <5> QED
          BY <3>2, <4>2, <5>1
      <4> QED
        BY <1>1, <2>1, <4>3 DEF Ours, Kinds
    <3> QED
      BY <2>5, <3>1, <3>2
  <2>7. OnWay'
    <3>1. CASE Dead
      BY <1>1, <3>1 DEF OnWay, Dead, Rearming, InQueue
    <3>2. CASE Sole(Owed, nfcc, InQueue("read"), tml.buf)
      <4>1. Sole(Owed, nfcc', InQueue("read"), tml.buf)
        <5>1. CASE Answer
          <6>1. nfcc.held # <<>> /\ nfcc'.held = Tail(nfcc.held) /\ nfcc \in NfccRec
            BY <5>1, AnswerSends, Parts
          <6>2. PICK p \in Packets :
                  /\ p.id = Head(nfcc.held)
                  /\ nfcc'.out = nfcc.out \/ nfcc'.out = Append(nfcc.out, p)
            BY <5>1, AnswerSends
          <6> QED
            BY <3>2, <6>1, <6>2, SoleAnswer
        <5>2. CASE SendUnasked
          <6>1. nfcc'.held = nfcc.held /\ nfcc \in NfccRec
            BY <2>1, <5>2, UnaskedSends, Parts
          <6>2. PICK p \in Packets : p.k = "data" /\ nfcc'.out = Append(nfcc.out, p)
            BY <2>1, <5>2, UnaskedSends
          <6>3. ~Carried(p)
            BY <6>2 DEF Carried
          <6> QED
            BY <3>2, <6>1, <6>2, <6>3, SoleSend
        <5> QED
          BY <5>1, <5>2
      <4> QED
        BY <1>1, <2>3, <4>1 DEF OnWay, Sole, InQueue
    <3> QED
      BY <2>1, <3>1, <3>2 DEF Ours, OnWay
  <2> QED
    BY <1>1, <2>1, <2>3, <2>4, <2>6, <2>7 DEF Ours
<1> QED
  BY <1>2, <1>3 DEF Own

-------------------------------------------------------------------------------
(* The theorem.                                                              *)

\* No step makes the HAL take a response that is not its own.
LEMMA OwnStep ==
  ASSUME Typed, Reader, Always, Own, [Next]_vars
  PROVE  Always' /\ Own'
<1>1. CASE UNCHANGED vars
  <2>1. /\ hal' = hal /\ tml' = tml /\ q' = q /\ client' = client /\ nfcc' = nfcc
        /\ up' = up /\ used' = used
    BY <1>1 DEF vars
  <2>2. Always'
    BY <2>1 DEF Always, Ending, Busy, Dead, Rearming, Writes, Tried, Reported, InQueue
  <2>3. ASSUME Calm' PROVE Ours'
    <3>1. Ours
      BY <2>1, <2>3 DEF Own, Calm, Undisturbed, lim
    <3>2. (Sent' <=> Sent) /\ (Expired' <=> Expired)
      BY <2>1 DEF Sent, Expired, InQueue
    <3>3. Takings' /\ Fresh' /\ Command' /\ Owed' = Owed
      BY <2>1, <3>1, <3>2, SameCall DEF Ours
    <3> QED
      BY <2>1, <3>1, <3>3 DEF Ours, OnWay, Sole, Dead, Rearming, Timing, Expired, Kinds,
           InQueue
  <2> QED
    BY <2>2, <2>3 DEF Own
<1>2. CASE Next
  <2>1. lim' = lim
    BY <1>2, SameBounds
  <2>2. CASE ApiNext
    BY <2>1, <2>2, OwnApi, RecoverStep, EndsStep DEF ApiNext
  <2>3. CASE CallNext
    BY <2>1, <2>3, PrepareStep, WriteStep, WaitStep, EndStep, CoreDoneStep, EndsStep
    DEF CallNext
  <2>4. CASE ClientNext
    BY <2>1, <2>4, OwnTakeRead, OwnReadAgain, OwnTakeError, TakeWrittenStep, TakeEventStep, ExpiredStep
    DEF ClientNext
  <2>5. CASE TimerExpires \/ ReaderNext \/ ReaderFails
    BY <2>1, <2>5, TimerStep, OwnWakes, OwnGets, OwnFails DEF ReaderNext
  <2>6. CASE WriterNext \/ Answer \/ SendUnasked
    BY <2>1, <2>6, OwnWrites, ReportStep, NfccStep DEF WriterNext
  <2> QED
    BY <1>2, <2>2, <2>3, <2>4, <2>5, <2>6 DEF Next
<1> QED
  BY <1>1, <1>2

\* Nothing is queued, written or on its way before the HAL is opened.
LEMMA InitOwn ==
  ASSUME Init
  PROVE  Always /\ Own
<1>1. /\ hal.job = "none" /\ hal.pc = "idle" /\ hal.wdone = "no" /\ hal.timer = "off"
      /\ ~tml.renable /\ ~tml.wenable /\ tml.rd = "off" /\ tml.wr = "off"
      /\ tml.buf.k = "data" /\ client = "off" /\ ~up.wrong
      /\ q = <<>> /\ nfcc.out = <<>>
  BY DEF Init, HalClosed, TmlOff, NoPacket, Packet, Silence
<1>2. \A m : ~Contains(q, m) /\ Once(q, m)
  BY <1>1, NothingQueued
<1>3. Always
  BY <1>1, <1>2 DEF Always, Ending, Busy, Dead, Rearming, Writes, Tried, Reported, InQueue
<1>4. OnWay /\ Timing
  BY <1>1, <1>2 DEF OnWay, Dead, Rearming, Timing, Expired, InQueue
<1>5. Takings /\ Fresh /\ Command
  BY <1>1 DEF Takings, Fresh, Command, Waiting
<1>6. Kinds
  <2>1. 1..Len(nfcc.out) = {}
    BY <1>1
  <2> QED
    BY <1>1, <2>1 DEF Kinds, Answers
<1> QED
  BY <1>1, <1>3, <1>4, <1>5, <1>6 DEF Own, Ours

\* The HAL takes the responses to its own commands and the stack gets those to its
\* commands (phNxpNciHal_read_complete), undisturbed by notifications, late answers
\* and resets of its own.
THEOREM OwnResponses == Spec => []OwnAnswer
<1>1. Init => Holds /\ Always /\ Own
  BY InitHolds, InitOwn
<1>2. Holds /\ Always /\ Own /\ [Next]_vars => (Holds /\ Always /\ Own)'
  BY StepHolds, OwnStep DEF Holds
<1>3. Always /\ Own => OwnAnswer
  BY DEF Own, Ours, Takings, Got, OwnAnswer, Answered, Calm
<1> QED
  BY <1>1, <1>2, <1>3, PTL DEF Spec
===============================================================================
