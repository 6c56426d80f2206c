---------------------------- MODULE NciCmdWindow ----------------------------
(***************************************************************************)
(* Proofs about the command window of NciCmd: at most one command is out,  *)
(* a vendor callback gets the response to its own command, the response    *)
(* timer runs exactly while a command is out, and nfc_state agrees with    *)
(* the NFCC once everything on its way has been handled.                   *)
(*                                                                         *)
(* They hold while nothing puts a second answer on the way or takes the    *)
(* start event for an earlier life (Orderly).  The invariant Window says   *)
(* what the control block, the mailbox and the client thread's queue have  *)
(* to do with each other in every phase of the stack's life; Agreement     *)
(* says what the messages on their way will make of the state.             *)
(***************************************************************************)
EXTENDS NciCmdProofs, Functions, FiniteSetTheorems

\* No recovery with an answer on its way or no command due, no power cycle, no call
\* of the application while the start event is pending, and no NXP command.
Orderly == Cases \subseteq {"rf", "give_up"} /\ "nxp" \notin Kinds

CoreStart == {"CORE_RESET", "CORE_INIT"}
Down == {"NONE", "NFCC_POWER_OFF_SLEEP"}
Starting == Down \cup {"W4_HAL_OPEN", "CORE_INIT"}

-------------------------------------------------------------------------------
(* The invariant.                                                            *)

\* The commands of an orderly stack.
Regular(c) == c.kind # "nxp" /\ c.hdr # "SCREEN" /\ (c.hdr = "PROP" <=> c.kind = "vsc")

\* In state st the command with header h may be out.
Due(st, h) ==
  \/ st \in Up /\ h \notin CoreStart
  \/ st = "CORE_INIT" /\ h \in CoreStart

\* The command window and the queues of a control block.
Queues(n) ==
  /\ ~n.nxp /\ Regular(n.last)
  /\ \A c \in Range(n.q) : Regular(c) /\ c.hdr \notin CoreStart
  /\ n.timer => n.window = 0
  /\ n.wire # <<>> => n.wire = <<n.last>> /\ n.open /\ n.window = 0 /\ Due(n.st, n.last.hdr)
  /\ n.last.hdr = "PROP" /\ n.window = 0 => n.cback \in {0, n.last.id}

\* What each state of the stack says of the transport, the window and the queues.
Phase(n) ==
  /\ n.open => n.tml
  /\ n.conn => n.st \in Up
  /\ n.st \in Up => n.tml /\ (n.window = 0 => n.last.hdr \notin CoreStart)
  /\ n.st = "W4_POST_INIT_CPLT" => n.tml /\ n.window = 1
  /\ n.st \notin Up => n.q = <<>> /\ "DISCOVER_PENDING" \notin n.flags
  /\ n.st = "W4_HAL_CLOSE" => ~n.tml /\ n.window = 1
  /\ ~n.tml /\ n.st \in {"W4_HAL_OPEN", "NFCC_POWER_OFF_SLEEP"} => n.window = 1
  /\ "POWER_CYCLE_NFCC" \notin n.flags

\* A response is that of the last command, or of what the HAL replays in place of a
\* deactivation.
Answers(n, m) ==
  \/ m.hdr = n.last.hdr /\ m.id = n.last.id
  \/ m.hdr \in {"DISCOVER", "SCREEN"} /\ n.last.hdr = "DEACTIVATE" /\ ~n.timer

\* Message m may be on its way to the control block; start says that the start event is.
Fits(n, start, m) ==
  /\ m.type = "RSP" /\ n.st # "W4_HAL_CLOSE" =>
       n.tml /\ n.window = 0 /\ n.wire = <<>> /\ Due(n.st, m.hdr) /\ Answers(n, m)
  /\ m.type = "NTF" => m.hdr # "RESET" /\ n.st \in Up \cup {"W4_HAL_CLOSE"}
  /\ m.hdr = "CLOSE_CPLT" => ~n.tml
  /\ m.hdr = "ERROR" => ~n.open
  /\ m.hdr = "OPEN_FAILED" => ~n.open /\ ~start /\ n.st \in Down \cup {"W4_HAL_OPEN"}
  /\ m.hdr = "OPEN_CPLT" /\ n.st # "W4_HAL_CLOSE" =>
       n.st = "W4_HAL_OPEN" /\ ~start /\ n.window = 1
  /\ ~n.tml => /\ n.st \notin Down
               /\ n.st = "W4_HAL_OPEN" => m.hdr = "OPEN_FAILED"
               /\ n.st = "CORE_INIT" => "RESTARTING" \notin n.flags

\* Message a may be on its way in front of message b.
Before(a, b) ==
  /\ a.hdr # "CLOSE_CPLT" /\ b.hdr # "OPEN_CPLT"
  /\ b.type = "RSP" => a.type # "RSP" /\ a.hdr \notin {"ERROR", "OPEN_FAILED"}
InLine(s) == \A i, j \in 1 .. Len(s) : i < j => Before(s[i], s[j])

\* What is in the mailbox came before what the client thread has.
Lined(box, hq) ==
  /\ InLine(box) /\ InLine(hq)
  /\ \A a \in Range(box), b \in Range(hq) : Before(a, b)
  /\ \A m \in Range(hq) : m.hdr # "OPEN_FAILED"

\* Everything on its way, and where.
OnWay == Range(mbox) \cup Range(nfc.halq)
Mail ==
  /\ \A m \in OnWay : Fits(nfc, ready \/ checked, m)
  /\ Lined(mbox, nfc.halq)
  /\ nfc.st = "W4_HAL_CLOSE" => \A m \in Range(mbox) : m.type = "HAL"
  /\ ~nfc.tml /\ nfc.st = "W4_HAL_OPEN" => nfc.halq = <<>> /\ Len(mbox) <= 1

\* The start event and the RF state.
Outside ==
  /\ ready \/ checked => nfc.window = 1 /\ nfc.st \in Starting
  /\ ~(ready /\ checked)
  /\ rf # "idle" => nfc.st \in Up

Window == Running => Queues(nfc) /\ Phase(nfc) /\ Mail /\ Outside

\* Without faults the HAL is open as long as its transport is there, and closed when the
\* stack is down, every answer is good, and a command is out or answered with the timer running.
Healthy ==
  Running /\ Faultless =>
    /\ nfc.tml => nfc.open /\ nfc.st \notin Down
    /\ ready \/ checked \/ nfc.st = "CORE_INIT" => nfc.tml
    /\ \A m \in OnWay : m.hdr # "ERROR" /\ (m.type = "RSP" => m.res = "ok")
    /\ nfc.window = 0 => nfc.timer /\ (nfc.wire # <<>> \/ \E m \in OnWay : m.type = "RSP")

-------------------------------------------------------------------------------
(* Messages that come and go.                                                *)

\* What is in a queue when a message is put at its end or taken from its front.
LEMMA RangeAppend ==
  ASSUME NEW S, NEW s \in Seq(S), NEW e \in S
  PROVE  Range(Append(s, e)) = Range(s) \cup {e} /\ Append(s, e) \in Seq(S)
<1> DEFINE t == Append(s, e)
<1>1. /\ t \in Seq(S) /\ DOMAIN s = 1 .. Len(s) /\ DOMAIN t = 1 .. (Len(s) + 1) /\ Len(s) \in Nat
      /\ \A i \in 1 .. Len(s) : t[i] = s[i]
      /\ t[Len(s) + 1] = e
  OBVIOUS
<1> HIDE DEF t
<1>2. \A i \in DOMAIN t : i \in DOMAIN s \/ i = Len(s) + 1
  BY <1>1
<1>3. \A i \in DOMAIN s : i \in DOMAIN t
  BY <1>1
<1>4. Len(s) + 1 \in DOMAIN t
  BY <1>1
<1>5. Range(t) = Range(s) \cup {e}
  BY <1>1, <1>2, <1>3, <1>4 DEF Range
<1> QED
  BY <1>1, <1>5 DEF t

\* The head and the rest of a queue hold what the queue holds.
LEMMA RangeTail ==
  ASSUME NEW S, NEW s \in Seq(S), s # <<>>
  PROVE  /\ Tail(s) \in Seq(S) /\ Head(s) \in S
         /\ Head(s) \in Range(s) /\ Range(Tail(s)) \subseteq Range(s)
         /\ Range(s) \subseteq {Head(s)} \cup Range(Tail(s))
<1> DEFINE t == Tail(s)
<1>1. /\ t \in Seq(S) /\ DOMAIN s = 1 .. Len(s) /\ DOMAIN t = 1 .. (Len(s) - 1)
      /\ Len(s) \in Nat \ {0}
      /\ \A i \in 1 .. (Len(s) - 1) : t[i] = s[i + 1]
      /\ Head(s) = s[1] /\ s[1] \in S
  OBVIOUS
<1> HIDE DEF t
<1>2. \A i \in DOMAIN s : i = 1 \/ (i - 1 \in DOMAIN t /\ t[i - 1] = s[i])
  BY <1>1
<1>3. \A i \in DOMAIN t : i + 1 \in DOMAIN s /\ t[i] = s[i + 1]
  BY <1>1
<1>4. 1 \in DOMAIN s
  BY <1>1
<1>5. Head(s) \in Range(s) /\ Range(t) \subseteq Range(s)
  BY <1>1, <1>3, <1>4 DEF Range
<1>6. ASSUME NEW m \in Range(s), m # Head(s)
      PROVE  m \in Range(t)
  <2>1. PICK i \in DOMAIN s : m = s[i]
    BY DEF Range
  <2>2. i - 1 \in DOMAIN t /\ t[i - 1] = m
    BY <1>1, <1>2, <1>6, <2>1
  <2> QED
    BY <2>2 DEF Range
<1> QED
  BY <1>1, <1>5, <1>6 DEF t

\* An empty queue holds nothing.
LEMMA RangeEmpty ==
  ASSUME NEW S, NEW s \in Seq(S)
  PROVE  Range(s) \subseteq S /\ (s = <<>> <=> Range(s) = {})
<1>1. DOMAIN s = 1 .. Len(s) /\ Len(s) \in Nat /\ \A i \in 1 .. Len(s) : s[i] \in S
  OBVIOUS
<1>2. CASE s = <<>>
  BY <1>2 DEF Range
<1>3. CASE s # <<>>
  BY <1>3, RangeTail, <1>1 DEF Range
<1> QED
  BY <1>2, <1>3

\* Putting one element behind a queue.
LEMMA AppendOne ==
  ASSUME NEW S, NEW s \in Seq(S), NEW e \in S
  PROVE  s \o <<e>> = Append(s, e)
OBVIOUS

\* One message put into an empty queue.
LEMMA RangeOne ==
  ASSUME NEW e \in Message
  PROVE  Range(Append(<<>>, e)) = {e}
<1> DEFINE t == Append(<<>>, e)
<1>1. DOMAIN t = {1} /\ t[1] = e
  OBVIOUS
<1> HIDE DEF t
<1>2. Range(t) = {e}
  BY <1>1 DEF Range
<1> QED
  BY <1>2 DEF t

\* The rest of a line is a line, behind its first message.
LEMMA LineTail ==
  ASSUME NEW s \in Seq(Message), InLine(s), s # <<>>
  PROVE  InLine(Tail(s)) /\ \A m \in Range(Tail(s)) : Before(Head(s), m)
<1> DEFINE t == Tail(s)
<1>1. /\ t \in Seq(Message) /\ Len(t) = Len(s) - 1 /\ Len(s) \in Nat \ {0}
      /\ \A i \in 1 .. Len(t) : t[i] = s[i + 1]
      /\ Head(s) = s[1] /\ DOMAIN t = 1 .. Len(t)
  OBVIOUS
<1> HIDE DEF t
<1>2. InLine(t)
  <2> SUFFICES ASSUME NEW i \in 1 .. Len(t), NEW j \in 1 .. Len(t), i < j
               PROVE  Before(t[i], t[j])
    BY DEF InLine
  <2>1. i + 1 \in 1 .. Len(s) /\ j + 1 \in 1 .. Len(s) /\ i + 1 < j + 1
    BY <1>1
  <2> QED
    BY <1>1, <2>1 DEF InLine
<1>3. ASSUME NEW m \in Range(t)
      PROVE  Before(Head(s), m)
  <2>1. PICK i \in 1 .. Len(t) : m = t[i]
    BY <1>1 DEF Range
  <2>2. 1 \in 1 .. Len(s) /\ i + 1 \in 1 .. Len(s) /\ 1 < i + 1
    BY <1>1
  <2> QED
    BY <1>1, <2>1, <2>2 DEF InLine
<1> QED
  BY <1>2, <1>3 DEF t

\* A message is put at the end of a line.
LEMMA LineAppend ==
  ASSUME NEW s \in Seq(Message), InLine(s), NEW e \in Message,
         \A m \in Range(s) : Before(m, e)
  PROVE  InLine(Append(s, e))
<1> DEFINE t == Append(s, e)
<1>1. /\ Len(t) = Len(s) + 1 /\ t[Len(s) + 1] = e /\ Len(s) \in Nat /\ DOMAIN s = 1 .. Len(s)
      /\ \A i \in 1 .. Len(s) : t[i] = s[i]
  OBVIOUS
<1> HIDE DEF t
<1>2. \A i \in 1 .. Len(s) : Before(s[i], e)
  BY <1>1 DEF Range
<1>3. InLine(t)
  BY <1>1, <1>2 DEF InLine
<1> QED
  BY <1>3 DEF t

\* The task takes a message, the client thread takes one and posts it or not, the
\* mailbox is flushed.
LEMMA LinedTaken ==
  ASSUME NEW b \in Seq(Message), NEW h \in Seq(Message), Lined(b, h), b # <<>>
  PROVE  /\ Lined(Tail(b), h)
         /\ \A m \in Range(Tail(b)) \cup Range(h) : Before(Head(b), m)
BY LineTail, RangeTail DEF Lined

\* The client thread takes a message, and posts it or drops it.
LEMMA LinedPassed ==
  ASSUME NEW b \in Seq(Message), NEW h \in Seq(Message), Lined(b, h), h # <<>>
  PROVE  /\ Lined(b, Tail(h)) /\ Lined(Append(b, Head(h)), Tail(h))
         /\ \A m \in Range(b) : Before(m, Head(h))
         /\ \A m \in Range(Tail(h)) : Before(Head(h), m)
<1>1. /\ Range(Tail(h)) \subseteq Range(h) /\ Head(h) \in Range(h) /\ Head(h) \in Message
      /\ Tail(h) \in Seq(Message)
  BY RangeTail
<1>2. InLine(Tail(h)) /\ \A m \in Range(Tail(h)) : Before(Head(h), m)
  BY LineTail DEF Lined
<1>3. \A m \in Range(b) : Before(m, Head(h))
  BY <1>1 DEF Lined
<1>4. InLine(Append(b, Head(h))) /\ Range(Append(b, Head(h))) = Range(b) \cup {Head(h)}
  BY <1>1, <1>3, LineAppend, RangeAppend DEF Lined
<1> QED
  BY <1>1, <1>2, <1>3, <1>4 DEF Lined

\* One of the two queues is dropped.
LEMMA LinedFlushed ==
  ASSUME NEW b \in Seq(Message), NEW h \in Seq(Message), Lined(b, h)
  PROVE  Lined(<<>>, h) /\ Lined(b, <<>>)
<1>1. Range(<<>>) = {} /\ InLine(<<>>)
  BY DEF Range, InLine
<1> QED
  BY <1>1 DEF Lined

\* A message is put at the end of the queue, or of the mailbox.
LEMMA LinedAdded ==
  ASSUME NEW b \in Seq(Message), NEW h \in Seq(Message), Lined(b, h), NEW e \in Message,
         \A m \in Range(b) : Before(m, e)
  PROVE  /\ e.hdr # "OPEN_FAILED" /\ (\A m \in Range(h) : Before(m, e)) => Lined(b, Append(h, e))
         /\ (\A m \in Range(h) : Before(e, m)) => Lined(Append(b, e), h)
<1>1. Range(Append(h, e)) = Range(h) \cup {e} /\ Range(Append(b, e)) = Range(b) \cup {e}
  BY RangeAppend
<1>2. InLine(Append(b, e))
  BY LineAppend DEF Lined
<1>3. (\A m \in Range(h) : Before(m, e)) => InLine(Append(h, e))
  BY LineAppend DEF Lined
<1> QED
  BY <1>1, <1>2, <1>3 DEF Lined

\* Nothing is on its way.
LEMMA LinedEmpty == Lined(<<>>, <<>>) /\ <<>> \in Seq(Message) /\ Range(<<>>) = {}
<1>1. Range(<<>>) = {} /\ InLine(<<>>)
  BY DEF Range, InLine
<1> QED
  BY <1>1 DEF Lined

-------------------------------------------------------------------------------
(* The operators of NciCmd, field by field.                                  *)

\* The fields that sending commands leaves alone.
Alike(n, m) ==
  /\ m.st = n.st /\ m.conn = n.conn /\ m.init = n.init /\ m.retry = n.retry
  /\ m.resp = n.resp /\ m.owed = n.owed /\ m.reports = n.reports
  /\ m.open = n.open /\ m.tml = n.tml /\ m.halq = n.halq

\* The fields of the command that is out, or the last that was.
SameCommand(n, m) ==
  /\ m.window = n.window /\ m.last = n.last /\ m.timer = n.timer /\ m.cback = n.cback
  /\ m.nxp = n.nxp /\ m.wire = n.wire

\* A command went out.
Goes(n, m) ==
  /\ n.window = 1 /\ m.window = 0 /\ m.timer
  /\ m.wire = IF n.open THEN Append(n.wire, m.last) ELSE n.wire
  /\ m.cback = IF m.last.kind = "plain" THEN n.cback ELSE m.last.id
  /\ m.nxp <=> n.nxp \/ m.last.kind = "nxp"

\* nfc_ncif_check_cmd_queue with the commands all in its queue: nothing goes out, or the
\* first in the queue, or the pending discovery.
Sends(n, m, all) ==
  /\ Alike(n, m)
  /\ m.flags \subseteq n.flags
  /\ n.flags \subseteq m.flags \cup {"CONTROL_REQUESTED", "DISCOVER_PENDING"}
  /\ \/ SameCommand(n, m) /\ m.q = all /\ m.flags = n.flags /\ (n.window = 1 => all = <<>>)
     \/ /\ Goes(n, m)
        /\ \/ all # <<>> /\ m.last = Head(all) /\ m.q = Tail(all) /\ m.flags = n.flags
           \/ /\ all = <<>> /\ m.q = <<>> /\ "DISCOVER_PENDING" \in n.flags
              /\ m.last.hdr = "DISCOVER" /\ m.last.kind = "plain"

\* A command handed to the HAL closes the window and starts the timer.
LEMMA TransmitGoes ==
  ASSUME NEW n, Sound(n), n.window = 1, NEW c \in Command
  PROVE  /\ Alike(n, Transmit(n, c)) /\ Goes(n, Transmit(n, c))
         /\ Transmit(n, c).last = c /\ Transmit(n, c).q = n.q /\ Transmit(n, c).flags = n.flags
<1> DEFINE cb   == IF c.kind = "plain" THEN n.cback ELSE c.id
           nx   == n.nxp \/ c.kind = "nxp"
           sent == IF n.open THEN Append(n.wire, c) ELSE n.wire
           w    == n.window - 1
           t    == [n EXCEPT !.last = c, !.cback = cb, !.nxp = nx, !.wire = sent,
                             !.window = w, !.timer = TRUE]
<1>1. n \in Nfc /\ w = 0
  BY DEF Sound
<1>2. Transmit(n, c) = t
  BY DEF Transmit
<1> HIDE DEF cb, nx, sent, w
<1>3. /\ t.last = c /\ t.cback = cb /\ t.nxp = nx /\ t.wire = sent /\ t.window = w /\ t.timer = TRUE
      /\ t.q = n.q /\ t.flags = n.flags
  BY <1>1, Zenon DEF Nfc
<1>4. Alike(n, t)
  BY <1>1, Zenon DEF Nfc, Alike
<1> HIDE DEF t
<1>5. Goes(n, t)
  BY <1>1, <1>3 DEF Goes, cb, nx, sent
<1> QED
  BY <1>2, <1>3, <1>4, <1>5

\* nfc_ncif_check_cmd_queue sends one command, or queues.
LEMMA CheckCmdQueueSends ==
  ASSUME NEW n, Sound(n), NEW cs \in Seq(Command)
  PROVE  Sends(n, CheckCmdQueue(n, cs), n.q \o cs)
<1> DEFINE all  == n.q \o cs
           tl   == Tail(all)
           rest == [n EXCEPT !.q = tl]
           held == [n EXCEPT !.q = all]
           sent == IF n.window > 0 /\ all # <<>> THEN Transmit(rest, Head(all)) ELSE held
           due  == sent.window = MaxWindow
                   /\ {"CONTROL_REQUESTED", "DISCOVER_PENDING"} \subseteq sent.flags
           m    == CheckCmdQueue(n, cs)
<1>0. n \in Nfc /\ n.q \in Seq(Command) /\ n.window \in 0 .. 1
  BY Fields
<1>1. all \in Seq(Command)
  BY <1>0
<1>2. m = IF due THEN IssuePendingDiscover(sent) ELSE sent
  BY DEF CheckCmdQueue
<1>3. CASE n.window > 0 /\ all # <<>>
  <2>1. Head(all) \in Command /\ tl \in Seq(Command)
    BY <1>1, <1>3
  <2> HIDE DEF tl, all, m
  <2>2. rest \in Nfc /\ rest.q = tl /\ rest.flags = n.flags /\ Alike(n, rest) /\ SameCommand(n, rest)
    BY <1>0, <2>1, Zenon DEF Nfc, Alike, SameCommand
  <2>3. rest.window = n.window /\ Sound(rest)
    BY <1>0, <2>2 DEF Sound, SameCommand, MaxWindow
  <2>4. sent = Transmit(rest, Head(all))
    BY <1>3
  <2> HIDE DEF rest, sent
  <2>5. /\ Alike(rest, sent) /\ Goes(rest, sent) /\ sent.last = Head(all) /\ sent.q = rest.q
        /\ sent.flags = rest.flags
    BY <1>0, <1>3, <2>1, <2>3, <2>4, TransmitGoes
  <2>6. m = sent
    BY <1>2, <2>5 DEF Goes, MaxWindow
  <2>7. Alike(n, sent) /\ Goes(n, sent)
    BY <2>2, <2>5 DEF Alike, Goes, SameCommand
  <2> QED
    BY <1>3, <2>2, <2>5, <2>6, <2>7 DEF Sends, m, tl, all
<1>4. CASE ~(n.window > 0 /\ all # <<>>)
  <2>1. sent = held
    BY <1>4
  <2> HIDE DEF sent, all, m
  <2>2. /\ held \in Nfc /\ held.q = all /\ held.flags = n.flags /\ Alike(n, held)
        /\ SameCommand(n, held)
    BY <1>0, <1>1, Zenon DEF Nfc, Alike, SameCommand
  <2> HIDE DEF held
  <2>3. CASE ~due
    <3>1. m = held
      BY <1>2, <2>1, <2>3
    <3>2. n.window = 1 => all = <<>>
      BY <1>0, <1>4
    <3> QED
      BY <2>2, <3>1, <3>2 DEF Sends, m, all
  <2>4. CASE due
    <3>1. held.window = 1 /\ n.window = 1 /\ all = <<>> /\ "DISCOVER_PENDING" \in n.flags
      BY <1>4, <2>1, <2>2, <2>4 DEF SameCommand, MaxWindow
    <3> DEFINE fl == held.flags \ {"CONTROL_REQUESTED", "DISCOVER_PENDING"}
               nx == held.next + 1
               o  == [held EXCEPT !.flags = fl, !.listen = FALSE, !.next = nx]
               c  == [id |-> held.next, hdr |-> "DISCOVER", kind |-> "plain"]
    <3>2. m = Transmit(o, c)
      BY <1>2, <2>1, <2>4 DEF IssuePendingDiscover
    <3>3. Sound(held)
      BY <2>2, <3>1 DEF Sound, MaxWindow
    <3>4. fl \in SUBSET Flag /\ nx \in Nat /\ c \in Command
      <4>1. held.flags \in SUBSET Flag /\ held.next \in Nat
        BY <3>3, Fields
      <4> QED
        BY <4>1 DEF Command, Header
    <3>5. fl \subseteq n.flags /\ n.flags \subseteq fl \cup {"CONTROL_REQUESTED", "DISCOVER_PENDING"}
          /\ c.hdr = "DISCOVER" /\ c.kind = "plain"
      BY <2>2
    <3> HIDE DEF fl, nx, c
    <3>6. o \in Nfc /\ o.flags = fl /\ o.q = held.q /\ Alike(held, o) /\ SameCommand(held, o)
      BY <2>2, <3>4, Zenon DEF Nfc, Alike, SameCommand
    <3> HIDE DEF o
    <3>7. Sound(o) /\ o.window = 1
      BY <3>1, <3>6 DEF Sound, SameCommand, MaxWindow
    <3>8. Alike(o, m) /\ Goes(o, m) /\ m.last = c /\ m.q = o.q /\ m.flags = fl
      BY <3>2, <3>4, <3>6, <3>7, TransmitGoes
    <3>9. Alike(n, m) /\ Goes(n, m) /\ m.q = all
      BY <2>2, <3>6, <3>8 DEF Alike, Goes, SameCommand
    <3> QED
      BY <3>1, <3>5, <3>8, <3>9 DEF Sends, m, all
  <2> QED
    BY <2>3, <2>4
<1> QED
  BY <1>3, <1>4

\* What an update of other fields changes for sending: nothing.
LEMMA SendsFrom ==
  ASSUME NEW n, NEW o, NEW m, NEW all, Alike(n, o), SameCommand(n, o), o.flags = n.flags,
         Sends(o, m, all)
  PROVE  Sends(n, m, all)
BY Zenon DEF Sends, Alike, SameCommand, Goes

\* nfc_ncif_send_cmd does the same with its command behind the queue.
LEMMA SendCmdSends ==
  ASSUME NEW n, Sound(n), NEW h \in Header
  PROVE  Sends(n, SendCmd(n, h), n.q \o NewCommand(n, h, "plain"))
<1> DEFINE nx == n.next + 1
           o  == [n EXCEPT !.next = nx, !.listen = FALSE]
           cs == NewCommand(n, h, "plain")
<1>1. n \in Nfc /\ nx \in Nat /\ cs \in Seq(Command)
  BY Fields, NewCommandType
<1>2. SendCmd(n, h) = CheckCmdQueue(o, cs)
  BY DEF SendCmd
<1> HIDE DEF nx, cs
<1>3. /\ o \in Nfc /\ o.flags = n.flags /\ o.q = n.q /\ o.window = n.window
      /\ Alike(n, o) /\ SameCommand(n, o)
  BY <1>1, Zenon DEF Nfc, Alike, SameCommand
<1> HIDE DEF o
<1>4. Sound(o)
  BY <1>3 DEF Sound
<1>5. Sends(o, SendCmd(n, h), n.q \o cs)
  BY <1>1, <1>2, <1>3, <1>4, CheckCmdQueueSends
<1> QED
  BY <1>3, <1>5, SendsFrom DEF cs

\* So do NFC_SendVsCommand and NFC_SendNxpNciCommand.
LEMMA SendVendorCmdSends ==
  ASSUME NEW n, Sound(n), NEW h \in Header, NEW k \in {"vsc", "nxp"}
  PROVE  Sends(n, SendVendorCmd(n, h, k), n.q \o NewCommand(n, h, k))
<1> DEFINE nx == n.next + 1
           o  == [n EXCEPT !.next = nx]
           cs == NewCommand(n, h, k)
<1>1. n \in Nfc /\ nx \in Nat /\ cs \in Seq(Command)
  BY Fields, NewCommandType
<1>2. SendVendorCmd(n, h, k) = CheckCmdQueue(o, cs)
  BY DEF SendVendorCmd
<1> HIDE DEF nx, cs
<1>3. /\ o \in Nfc /\ o.flags = n.flags /\ o.q = n.q /\ o.window = n.window
      /\ Alike(n, o) /\ SameCommand(n, o)
  BY <1>1, Zenon DEF Nfc, Alike, SameCommand
<1> HIDE DEF o
<1>4. Sound(o)
  BY <1>3 DEF Sound
<1>5. Sends(o, SendVendorCmd(n, h, k), n.q \o cs)
  BY <1>1, <1>2, <1>3, <1>4, CheckCmdQueueSends
<1> QED
  BY <1>3, <1>5, SendsFrom DEF cs

\* nfc_ncif_update_window opens a closed window, and then sends what waits.
Opened(n, o) ==
  /\ Sound(o) /\ Alike(n, o) /\ o.q = n.q /\ o.flags = n.flags
  /\ o.window = 1 /\ o.timer = FALSE /\ o.cback = 0
  /\ o.nxp = n.nxp /\ o.wire = n.wire /\ o.last = n.last

\* nfc_ncif_update_window opens the window and looks at the queue.
LEMMA UpdateWindowOpens ==
  ASSUME NEW n, Sound(n), n.window = 0
  PROVE  \E o : Opened(n, o) /\ Sends(o, UpdateWindow(n), n.q)
<1> DEFINE w == n.window + 1
           z == 0
           o == [n EXCEPT !.timer = FALSE, !.cback = z, !.window = w]
<1>1. n \in Nfc /\ n.q \in Seq(Command) /\ w = 1 /\ w \in Nat /\ z \in Nat /\ <<>> \in Seq(Command)
  BY Fields
<1>2. UpdateWindow(n) = CheckCmdQueue(o, <<>>)
  BY DEF UpdateWindow, MaxWindow
<1> HIDE DEF w, z
<1>3. /\ o \in Nfc /\ o.flags = n.flags /\ o.q = n.q /\ o.window = w /\ o.timer = FALSE /\ o.cback = z
      /\ o.nxp = n.nxp /\ o.wire = n.wire /\ o.last = n.last /\ Alike(n, o)
  BY <1>1, Zenon DEF Nfc, Alike
<1> HIDE DEF o
<1>4. Opened(n, o)
  BY <1>1, <1>3 DEF Opened, Sound, MaxWindow, z
<1>5. Sends(o, UpdateWindow(n), o.q \o <<>>)
  BY <1>1, <1>2, <1>4, CheckCmdQueueSends DEF Opened
<1>6. o.q \o <<>> = n.q
  BY <1>1, <1>3
<1> QED
  BY <1>4, <1>5, <1>6

\* An update of fields the invariant does not speak of.
LEMMA Twin ==
  ASSUME NEW n, NEW m, m.st = n.st, m.conn = n.conn, m.open = n.open, m.tml = n.tml,
         SameCommand(n, m), m.q = n.q, m.flags = n.flags
  PROVE  /\ Queues(n) => Queues(m)
         /\ Phase(n) => Phase(m)
         /\ \A s, x : Fits(n, s, x) => Fits(m, s, x)
BY DEF Queues, Phase, Fits, Answers, SameCommand

\* The stack is up: what is sent or queued keeps the queues and the mail in order.
LEMMA UpSends ==
  ASSUME NEW n, Sound(n), Queues(n), Phase(n), n.st \in Up,
         NEW all \in Seq(Command), \A c \in Range(all) : Regular(c) /\ c.hdr \notin CoreStart,
         NEW m, Sends(n, m, all)
  PROVE  Queues(m) /\ Phase(m) /\ \A s, x : Fits(n, s, x) => Fits(m, s, x)
<1>1. Alike(n, m) /\ m.flags \subseteq n.flags
  BY DEF Sends
<1>2. m.st \in Up /\ m.st \notin {"W4_HAL_OPEN", "W4_POST_INIT_CPLT", "W4_HAL_CLOSE", "CORE_INIT"}
  BY <1>1 DEF Alike, Up
<1>3. CASE SameCommand(n, m) /\ m.q = all /\ m.flags = n.flags
  <2>1. Queues(m)
    BY <1>1, <1>3 DEF Queues, SameCommand, Alike
  <2>2. Phase(m)
    BY <1>1, <1>2, <1>3 DEF Phase, SameCommand, Alike
  <2>3. \A s, x : Fits(n, s, x) => Fits(m, s, x)
    BY <1>1, <1>3 DEF Fits, Answers, SameCommand, Alike
  <2> QED
    BY <2>1, <2>2, <2>3
<1>4. CASE Goes(n, m)
  <2>1. n.wire = <<>>
    BY <1>4 DEF Goes, Queues
  <2>2. m.wire = (IF n.open THEN <<m.last>> ELSE <<>>)
    BY <1>4, <2>1 DEF Goes
  <2>3. /\ Regular(m.last) /\ m.last.hdr \notin CoreStart
        /\ \A c \in Range(m.q) : Regular(c) /\ c.hdr \notin CoreStart
    <3>1. CASE all # <<>> /\ m.last = Head(all) /\ m.q = Tail(all)
      <4>1. Head(all) \in Range(all) /\ Range(Tail(all)) \subseteq Range(all)
        BY <3>1, RangeTail
      <4> QED
        BY <3>1, <4>1
    <3>2. CASE all = <<>> /\ m.q = <<>> /\ m.last.hdr = "DISCOVER" /\ m.last.kind = "plain"
      <4>1. Range(m.q) = {}
        BY <3>2, LinedEmpty
      <4> QED
        BY <3>2, <4>1 DEF Regular, CoreStart
    <3>3. ~SameCommand(n, m)
      BY <1>4 DEF Goes, SameCommand
    <3> QED
      BY <3>1, <3>2, <3>3 DEF Sends
  <2>4. Queues(m)
    <3>1. ~m.nxp
      BY <1>4, <2>3 DEF Goes, Queues, Regular
    <3>2. m.wire # <<>> => m.wire = <<m.last>> /\ m.open /\ m.window = 0 /\ Due(m.st, m.last.hdr)
      BY <1>1, <1>2, <1>4, <2>2, <2>3 DEF Goes, Alike, Due
    <3>3. m.last.hdr = "PROP" => m.cback = m.last.id
      BY <1>4, <2>3 DEF Goes, Regular
    <3>4. m.window = 0
      BY <1>4 DEF Goes
    <3> QED
      BY <2>3, <3>1, <3>2, <3>3, <3>4 DEF Queues
  <2>5. Phase(m)
    BY <1>1, <1>2, <2>3 DEF Phase, Alike
  <2>6. \A s, x : Fits(n, s, x) => Fits(m, s, x)
    <3> SUFFICES ASSUME NEW s, NEW x, Fits(n, s, x)
                 PROVE  Fits(m, s, x)
      OBVIOUS
    <3>1. x.type # "RSP" /\ x.hdr # "OPEN_CPLT"
      BY <1>1, <1>2, <1>4 DEF Fits, Goes, Alike
    <3> QED
      BY <1>1, <1>2, <3>1 DEF Fits, Alike
  <2> QED
    BY <2>4, <2>5, <2>6
<1> QED
  BY <1>3, <1>4 DEF Sends

\* The window opens while the stack is up, with no answer on its way any more.
LEMMA UpOpens ==
  ASSUME NEW n, Sound(n), Queues(n), Phase(n), n.st \in Up, n.window = 0, n.wire = <<>>
  PROVE  /\ Queues(UpdateWindow(n)) /\ Phase(UpdateWindow(n)) /\ Alike(n, UpdateWindow(n))
         /\ \A s, x : x.type # "RSP" /\ Fits(n, s, x) => Fits(UpdateWindow(n), s, x)
<1> DEFINE m == UpdateWindow(n)
<1>1. PICK o : Opened(n, o) /\ Sends(o, m, n.q)
  BY UpdateWindowOpens
<1> HIDE DEF m
<1>2. n.st \notin {"W4_HAL_OPEN", "W4_POST_INIT_CPLT", "W4_HAL_CLOSE", "CORE_INIT"}
  BY DEF Up
<1>3. Queues(o)
  BY <1>1 DEF Queues, Opened
<1>4. Phase(o) /\ o.st \in Up
  BY <1>1, <1>2 DEF Phase, Opened, Alike
<1>5. n.q \in Seq(Command) /\ \A c \in Range(n.q) : Regular(c) /\ c.hdr \notin CoreStart
  BY Fields DEF Queues
<1>6. Queues(m) /\ Phase(m) /\ \A s, x : Fits(o, s, x) => Fits(m, s, x)
  BY <1>1, <1>3, <1>4, <1>5, UpSends DEF Opened
<1>7. \A s, x : x.type # "RSP" /\ Fits(n, s, x) => Fits(o, s, x)
  BY <1>1, <1>2 DEF Opened, Alike, Fits
<1>8. Alike(n, m)
  BY <1>1 DEF Opened, Sends, Alike
<1> QED
  BY <1>6, <1>7, <1>8 DEF m

-------------------------------------------------------------------------------
(* Start-up and its failures, field by field.                                *)

\* The fields that only the command plane and the transport change.
Untouched(n, m) ==
  /\ m.window = n.window /\ m.last = n.last /\ m.timer = n.timer /\ m.cback = n.cback
  /\ m.nxp = n.nxp /\ m.q = n.q /\ m.reports = n.reports /\ m.init = n.init
Linked(n, m) == m.wire = n.wire /\ m.open = n.open /\ m.tml = n.tml /\ m.halq = n.halq

\* phNxpNciHal_close of a transport that is there.
Closed(n, m) ==
  /\ m.wire = <<>> /\ ~m.open /\ ~m.tml /\ m.halq = Append(n.halq, Hal("CLOSE_CPLT"))

\* The call of p_resp_cback changes what the application waits for only.
LEMMA ReportTells ==
  ASSUME NEW n, n \in Nfc, NEW e \in Event
  PROVE  /\ Untouched(n, Report(n, e)) /\ Linked(n, Report(n, e)) /\ Report(n, e) \in Nfc
         /\ Report(n, e).st = n.st /\ Report(n, e).conn = n.conn /\ Report(n, e).flags = n.flags
<1> DEFINE ow == n.owed \ {e}
           m == [n EXCEPT !.owed = ow]
<1>1. Report(n, e) = IF n.resp THEN m ELSE n
  BY DEF Report
<1>2. ow \in SUBSET Event
  <2>1. n.owed \in SUBSET Event
    BY Zenon DEF Nfc
  <2> QED
    BY <2>1
<1> HIDE DEF ow
<1>3. /\ Untouched(n, m) /\ Linked(n, m) /\ m \in Nfc
      /\ m.st = n.st /\ m.conn = n.conn /\ m.flags = n.flags
  BY <1>2, Zenon DEF Nfc, Untouched, Linked
<1>4. Untouched(n, n) /\ Linked(n, n)
  BY DEF Untouched, Linked
<1> QED
  BY <1>1, <1>3, <1>4

\* nfc_main_notify_enable_status changes flags only.
LEMMA NotifyTells ==
  ASSUME NEW n, n \in Nfc, NEW ok \in BOOLEAN, NEW m, m = NotifyEnableStatus(n, ok)
  PROVE  /\ Untouched(n, m) /\ Linked(n, m) /\ m.st = n.st /\ m.conn = n.conn
         /\ m.flags \subseteq n.flags \cup {"POWER_OFF_SLEEP"}
<1> DEFINE fl == (n.flags \ {"RESTARTING", "POWER_CYCLE_NFCC"})
                   \cup (IF ok THEN {} ELSE {"POWER_OFF_SLEEP"})
           o  == [n EXCEPT !.flags = fl]
<1>1. \/ m = n
      \/ m = Report(o, "RESTART")
      \/ m = Report(n, "ENABLE")
  BY DEF NotifyEnableStatus
<1>2. fl \in SUBSET Flag /\ fl \subseteq n.flags \cup {"POWER_OFF_SLEEP"}
  <2>1. n.flags \in SUBSET Flag
    BY Zenon DEF Nfc
  <2> QED
    BY <2>1 DEF Flag
<1> HIDE DEF fl
<1>3. /\ Untouched(n, o) /\ Linked(n, o) /\ o \in Nfc
      /\ o.st = n.st /\ o.conn = n.conn /\ o.flags = fl
  BY <1>2, Zenon DEF Nfc, Untouched, Linked
<1> HIDE DEF o
<1>4. "RESTART" \in Event /\ "ENABLE" \in Event
  BY DEF Event
<1>5. CASE m = n
  BY <1>5 DEF Untouched, Linked
<1>6. CASE m = Report(n, "ENABLE")
  BY <1>4, <1>6, ReportTells
<1>7. CASE m = Report(o, "RESTART")
  <2>1. Untouched(o, m) /\ Linked(o, m) /\ m.st = o.st /\ m.conn = o.conn /\ m.flags = o.flags
    BY <1>3, <1>4, <1>7, ReportTells
  <2> QED
    BY <1>2, <1>3, <2>1 DEF Untouched, Linked
<1> QED
  BY <1>1, <1>5, <1>6, <1>7

\* phNxpNciHal_close of a transport that is there does not crash.
LEMMA HalCloseCloses ==
  ASSUME NEW n, n \in Nfc, NEW m, m = HalClose(n), m.st # "CRASHED"
  PROVE  n.tml /\ Untouched(n, m) /\ Closed(n, m)
         /\ m.st = n.st /\ m.conn = n.conn /\ m.flags = n.flags
<1> DEFINE hq == Append(n.halq, Hal("CLOSE_CPLT"))
           o  == [n EXCEPT !.open = FALSE, !.tml = FALSE, !.wire = <<>>, !.halq = hq]
           d  == [n EXCEPT !.st = "CRASHED"]
<1>1. m = IF n.tml THEN o ELSE d
  BY DEF HalClose
<1>2. d.st = "CRASHED"
  BY Zenon DEF Nfc
<1>3. n.tml /\ m = o
  BY <1>1, <1>2
<1> HIDE DEF hq
<1>4. /\ Untouched(n, o) /\ o.wire = <<>> /\ o.open = FALSE /\ o.tml = FALSE /\ o.halq = hq
      /\ o.st = n.st /\ o.conn = n.conn /\ o.flags = n.flags
  BY Zenon DEF Nfc, Untouched
<1> QED
  BY <1>3, <1>4 DEF Closed, hq

\* HalClose keeps what the vendor callbacks were told, also when it crashes.
LEMMA HalCloseReports ==
  ASSUME NEW n, n \in Nfc
  PROVE  HalClose(n).reports = n.reports
BY DEF HalClose, Nfc

\* nfc_enabled with a failure: a restart that failed, a start that failed before the
\* initialisation, or one whose HAL is closed.
LEMMA EnabledFailedFields ==
  ASSUME NEW n, n \in Nfc, NEW m, m = EnabledFailed(n)
  PROVE  /\ m.reports = n.reports
         /\ m.st # "CRASHED" =>
              /\ Untouched(n, m) /\ m.flags \subseteq n.flags \cup {"POWER_OFF_SLEEP"}
              /\ \/ /\ "RESTARTING" \in n.flags /\ m.st = "NFCC_POWER_OFF_SLEEP"
                    /\ m.conn = n.conn /\ Linked(n, m)
                 \/ n.st # "CORE_INIT" /\ m.st = "NONE" /\ ~m.conn /\ Linked(n, m)
                 \/ /\ "RESTARTING" \notin n.flags /\ n.st = "CORE_INIT" /\ m.st = "CORE_INIT"
                    /\ n.tml /\ ~m.conn /\ Closed(n, m) /\ m.flags = n.flags
<1>1. CASE "RESTARTING" \in n.flags
  <2> DEFINE o == [n EXCEPT !.st = "NFCC_POWER_OFF_SLEEP"]
  <2>1. m = NotifyEnableStatus(o, FALSE)
    BY <1>1 DEF EnabledFailed
  <2>2. "NFCC_POWER_OFF_SLEEP" \in State
    BY DEF State
  <2>3. /\ o \in Nfc /\ o.st = "NFCC_POWER_OFF_SLEEP" /\ o.conn = n.conn /\ o.flags = n.flags
        /\ Untouched(n, o) /\ Linked(n, o)
    BY <2>2, Zenon DEF Nfc, Untouched, Linked
  <2> HIDE DEF o
  <2>4. /\ Untouched(o, m) /\ Linked(o, m) /\ m.st = o.st /\ m.conn = o.conn
        /\ m.flags \subseteq o.flags \cup {"POWER_OFF_SLEEP"}
    BY <2>1, <2>3, NotifyTells
  <2> QED
    BY <1>1, <2>3, <2>4 DEF Untouched, Linked
<1>2. CASE "RESTARTING" \notin n.flags /\ n.st = "CORE_INIT"
  <2> DEFINE o == [n EXCEPT !.conn = FALSE]
  <2>1. m = HalClose(o)
    BY <1>2 DEF EnabledFailed
  <2>2. /\ o \in Nfc /\ o.st = n.st /\ o.conn = FALSE /\ o.flags = n.flags
        /\ Untouched(n, o) /\ Linked(n, o)
    BY Zenon DEF Nfc, Untouched, Linked
  <2> HIDE DEF o
  <2>3. m.reports = o.reports
    BY <2>1, <2>2, HalCloseReports
  <2>4. CASE m.st # "CRASHED"
    <3>1. /\ o.tml /\ Untouched(o, m) /\ Closed(o, m) /\ m.st = o.st /\ m.conn = o.conn
          /\ m.flags = o.flags
      BY <2>1, <2>2, <2>4, HalCloseCloses
    <3> QED
      BY <1>2, <2>2, <3>1 DEF Untouched, Linked, Closed
  <2> QED
    BY <2>2, <2>3, <2>4 DEF Untouched
<1>3. CASE "RESTARTING" \notin n.flags /\ n.st # "CORE_INIT"
  <2> DEFINE o == [n EXCEPT !.conn = FALSE, !.st = "NONE"]
  <2>1. m = NotifyEnableStatus(o, FALSE)
    BY <1>3 DEF EnabledFailed
  <2>2. "NONE" \in State
    BY DEF State
  <2>3. /\ o \in Nfc /\ o.st = "NONE" /\ o.conn = FALSE /\ o.flags = n.flags
        /\ Untouched(n, o) /\ Linked(n, o)
    BY <2>2, Zenon DEF Nfc, Untouched, Linked
  <2> HIDE DEF o
  <2>4. /\ Untouched(o, m) /\ Linked(o, m) /\ m.st = o.st /\ m.conn = o.conn
        /\ m.flags \subseteq o.flags \cup {"POWER_OFF_SLEEP"}
    BY <2>1, <2>3, NotifyTells
  <2> QED
    BY <1>3, <2>3, <2>4 DEF Untouched, Linked
<1> QED
  BY <1>1, <1>2, <1>3

-------------------------------------------------------------------------------
(* What the window does in a state outside Up, where nothing is queued.       *)

\* A lone command goes out if the window is open and is queued if it is not.
LEMMA LoneCommand ==
  ASSUME NEW n, Sound(n), NEW c \in Command, NEW m, Sends(n, m, <<c>>)
  PROVE  /\ Alike(n, m) /\ m.flags = n.flags
         /\ n.window = 1 => Goes(n, m) /\ m.last = c /\ m.q = <<>>
         /\ n.window = 0 => SameCommand(n, m) /\ m.q = <<c>>
<1>1. <<c>> # <<>> /\ Head(<<c>>) = c /\ Tail(<<c>>) = <<>>
  OBVIOUS
<1>2. n.window \in 0 .. 1
  BY Fields
<1> QED
  BY <1>1, <1>2 DEF Sends, Goes

\* The window opens with nothing queued.
LEMMA OpensEmpty ==
  ASSUME NEW n, Sound(n), n.window = 0, n.q = <<>>, "DISCOVER_PENDING" \notin n.flags,
         NEW m, m = UpdateWindow(n)
  PROVE  /\ Alike(n, m) /\ m.window = 1 /\ ~m.timer /\ m.q = <<>> /\ m.flags = n.flags
         /\ m.nxp = n.nxp /\ m.wire = n.wire /\ m.last = n.last
<1>1. PICK o : Opened(n, o) /\ Sends(o, m, <<>>)
  BY UpdateWindowOpens
<1> QED
  BY <1>1 DEF Opened, Sends, Alike, SameCommand

\* The window opens with one command queued, which goes out.
LEMMA OpensOne ==
  ASSUME NEW n, Sound(n), n.window = 0, NEW c \in Command, n.q = <<c>>,
         NEW m, m = UpdateWindow(n)
  PROVE  /\ Alike(n, m) /\ m.window = 0 /\ m.timer /\ m.q = <<>> /\ m.flags = n.flags
         /\ m.last = c /\ m.wire = (IF n.open THEN Append(n.wire, c) ELSE n.wire)
         /\ m.nxp <=> (n.nxp \/ c.kind = "nxp")
<1>1. PICK o : Opened(n, o) /\ Sends(o, m, <<c>>)
  BY UpdateWindowOpens
<1>2. Alike(o, m) /\ m.flags = o.flags /\ Goes(o, m) /\ m.last = c /\ m.q = <<>>
  BY <1>1, LoneCommand DEF Opened
<1> QED
  BY <1>1, <1>2 DEF Opened, Alike, Goes

\* A window that is closed after sending was closed before, or a command just went out.
LEMMA SentTimed ==
  ASSUME NEW n, Sound(n), NEW all, NEW m, Sends(n, m, all), m.window = 0
  PROVE  \/ SameCommand(n, m)
         \/ m.timer /\ n.window = 1 /\ (n.open /\ n.wire = <<>> => m.wire # <<>>)
<1>1. \A x : Append(<<>>, x) = <<x>> /\ <<x>> # <<>>
  OBVIOUS
<1>2. \/ SameCommand(n, m)
      \/ n.window = 1 /\ m.timer /\ m.wire = (IF n.open THEN Append(n.wire, m.last) ELSE n.wire)
  BY DEF Sends, Goes
<1> QED
  BY <1>1, <1>2

\* A window that opens and closes again has sent a command.
LEMMA OpensTimed ==
  ASSUME NEW n, Sound(n), n.window = 0, n.wire = <<>>, UpdateWindow(n).window = 0
  PROVE  UpdateWindow(n).timer /\ (n.open => UpdateWindow(n).wire # <<>>)
<1> DEFINE m == UpdateWindow(n)
<1>1. PICK o : Opened(n, o) /\ Sends(o, m, n.q)
  BY UpdateWindowOpens
<1> HIDE DEF m
<1>2. m.window = 0
  BY DEF m
<1>3. m.timer /\ (o.open /\ o.wire = <<>> => m.wire # <<>>)
  BY <1>1, <1>2, SentTimed DEF Opened, SameCommand
<1> QED
  BY <1>1, <1>3 DEF Opened, Alike, m

\* nfc_ncif_proc_reset_rsp: the initialisation is queued behind the closed window, or the
\* start fails.
LEMMA ResetRspFields ==
  ASSUME NEW n, Sound(n), n.window = 0, n.q = <<>>, n.conn = FALSE,
         NEW r \in Message, NEW d, d = ProcResetRsp(n, r)
  PROVE  \/ /\ r.res = "ok" /\ Alike(n, d) /\ SameCommand(n, d) /\ d.flags = n.flags
            /\ \E c \in Command : c.hdr = "CORE_INIT" /\ c.kind = "plain" /\ d.q = <<c>>
         \/ r.res # "ok" /\ d = EnabledFailed(n)
<1>1. n \in Nfc
  BY DEF Sound
<1>2. [n EXCEPT !.conn = FALSE] = n
  BY <1>1, Zenon DEF Nfc
<1>3. d = IF r.res = "ok" THEN SendCmd(n, "CORE_INIT") ELSE EnabledFailed(n)
  BY <1>2 DEF ProcResetRsp
<1>4. CASE r.res = "ok"
  <2> DEFINE c == [id |-> n.next, hdr |-> "CORE_INIT", kind |-> "plain"]
  <2>1. n.next \in Nat
    BY Fields
  <2>2. c \in Command /\ "CORE_INIT" \in Header /\ c.hdr = "CORE_INIT" /\ c.kind = "plain"
    BY <2>1 DEF Command, Header
  <2>3. n.q \o NewCommand(n, "CORE_INIT", "plain") = <<c>>
    BY DEF NewCommand
  <2>4. Sends(n, SendCmd(n, "CORE_INIT"), n.q \o NewCommand(n, "CORE_INIT", "plain"))
    BY <2>2, SendCmdSends
  <2> HIDE DEF c
  <2>5. Sends(n, d, <<c>>)
    BY <1>3, <1>4, <2>3, <2>4
  <2>6. Alike(n, d) /\ SameCommand(n, d) /\ d.flags = n.flags /\ d.q = <<c>>
    BY <2>2, <2>5, LoneCommand
  <2> QED
    BY <1>4, <2>2, <2>6
<1> QED
  BY <1>3, <1>4

\* nfc_ncif_proc_init_rsp: the HAL's post-initialisation is asked for, the start event is
\* set again, or the start fails.
LEMMA InitRspFields ==
  ASSUME NEW n, Sound(n), NEW r \in Message, NEW d, d = ProcInitRsp(n, r)
  PROVE  \/ /\ r.res \in {"ok", "mute"} /\ d.st = "W4_POST_INIT_CPLT" /\ d.conn = n.conn
            /\ d.halq \in {n.halq, Append(n.halq, Hal("POST_INIT_CPLT"))}
            /\ d.open = n.open /\ d.tml = n.tml
            /\ SameCommand(n, d) /\ d.q = n.q /\ d.flags = n.flags /\ d.reports = n.reports
         \/ /\ r.res = "corrupt" /\ n.retry < MaxInitRetry /\ d.st = n.st /\ d.conn = n.conn
            /\ SameCommand(n, d) /\ d.q = n.q /\ d.flags = n.flags /\ d.reports = n.reports
            /\ Linked(n, d)
         \/ /\ r.res \notin {"ok", "mute"} /\ ~(r.res = "corrupt" /\ n.retry < MaxInitRetry)
            /\ \E o \in Nfc : /\ d = EnabledFailed(o) /\ Sound(o) /\ Untouched(n, o) /\ Linked(n, o)
                              /\ o.st = n.st /\ o.conn = n.conn /\ o.flags = n.flags
<1>1. n \in Nfc /\ n.retry \in Nat
  BY Zenon DEF Sound, Nfc
<1>2. CASE r.res \in {"ok", "mute"}
  <2> DEFINE hq == IF r.res = "ok" THEN Append(n.halq, Hal("POST_INIT_CPLT")) ELSE n.halq
             z  == 0
             o  == [n EXCEPT !.st = "W4_POST_INIT_CPLT", !.retry = z, !.init = TRUE, !.halq = hq]
  <2>1. d = o
    BY <1>2 DEF ProcInitRsp
  <2> HIDE DEF hq, z
  <2>2. /\ o.st = "W4_POST_INIT_CPLT" /\ o.conn = n.conn
        /\ o.halq = hq /\ o.open = n.open /\ o.tml = n.tml
        /\ SameCommand(n, o) /\ o.q = n.q /\ o.flags = n.flags /\ o.reports = n.reports
    BY <1>1, Zenon DEF Nfc, SameCommand
  <2> HIDE DEF o
  <2> QED
    BY <1>2, <2>1, <2>2 DEF hq
<1>3. CASE r.res = "corrupt" /\ n.retry < MaxInitRetry
  <2> DEFINE re == n.retry + 1
             o  == [n EXCEPT !.retry = re]
  <2>1. d = o
    BY <1>3 DEF ProcInitRsp
  <2> HIDE DEF re
  <2>2. /\ o.st = n.st /\ o.conn = n.conn /\ Linked(n, o)
        /\ SameCommand(n, o) /\ o.q = n.q /\ o.flags = n.flags /\ o.reports = n.reports
    BY <1>1, Zenon DEF Nfc, SameCommand, Linked
  <2> HIDE DEF o
  <2> QED
    BY <1>3, <2>1, <2>2
<1>4. CASE r.res \notin {"ok", "mute"} /\ ~(r.res = "corrupt" /\ n.retry < MaxInitRetry)
  <2> DEFINE z == 0
             o == [n EXCEPT !.retry = z]
  <2>1. d = EnabledFailed(o)
    BY <1>4 DEF ProcInitRsp
  <2>2. z \in Nat
    OBVIOUS
  <2> HIDE DEF z
  <2>3. /\ o \in Nfc /\ Untouched(n, o) /\ Linked(n, o)
        /\ o.st = n.st /\ o.conn = n.conn /\ o.flags = n.flags
    BY <1>1, <2>2, Zenon DEF Nfc, Untouched, Linked
  <2> HIDE DEF o
  <2>4. Sound(o)
    BY <2>3 DEF Sound, Untouched
  <2> QED
    BY <1>4, <2>1, <2>3, <2>4
<1> QED
  BY <1>2, <1>3, <1>4

-------------------------------------------------------------------------------
(* The steps.                                                                *)

\* The faults spent, and all that a step must keep while the stack runs.
Spent == budget.faults <= MaxFaults
WInv == Window /\ Healthy /\ Spent

\* What has to be shown of the state after a step.
LEMMA Build ==
  ASSUME Running' => Queues(nfc') /\ Phase(nfc') /\ Mail' /\ Outside',
         Running' /\ Faultless' => Healthy', Spent'
  PROVE  WInv'
BY DEF WInv, Window, Healthy

\* The types that the steps need.
LEMMA Types ==
  ASSUME IInv
  PROVE  /\ Sound(nfc) /\ nfc \in Nfc /\ mbox \in Seq(Message) /\ nfc.halq \in Seq(Message)
         /\ Range(mbox) \subseteq Posted /\ Range(nfc.halq) \subseteq Message
         /\ OnWay \subseteq Message
<1>1. Sound(nfc) /\ mbox \in Seq(Posted)
  BY Split DEF Rest, Consistent
<1>2. nfc \in Nfc /\ nfc.halq \in Seq(Message)
  BY <1>1, Fields
<1>3. Posted \subseteq Message
  BY DEF Posted
<1>4. mbox \in Seq(Message)
  BY <1>1, <1>3
<1>5. Range(mbox) \subseteq Posted /\ Range(nfc.halq) \subseteq Message
  BY <1>1, <1>2, RangeEmpty
<1> QED
  BY <1>1, <1>2, <1>3, <1>4, <1>5 DEF OnWay

\* The same after a step that keeps the invariant of NciCmdProofs.
LEMMA TypesNext ==
  ASSUME IInv'
  PROVE  /\ Sound(nfc') /\ nfc' \in Nfc /\ mbox' \in Seq(Message) /\ nfc'.halq \in Seq(Message)
         /\ Range(mbox') \subseteq Posted /\ Range(nfc'.halq) \subseteq Message
         /\ OnWay' \subseteq Message
<1>1. Sound(nfc') /\ mbox' \in Seq(Posted)
  BY SplitNext DEF Rest, Consistent
<1>2. nfc' \in Nfc /\ nfc'.halq \in Seq(Message)
  BY <1>1, Fields
<1>3. Posted \subseteq Message
  BY DEF Posted
<1>4. mbox' \in Seq(Message)
  BY <1>1, <1>3
<1>5. Range(mbox') \subseteq Posted /\ Range(nfc'.halq) \subseteq Message
  BY <1>1, <1>2, RangeEmpty
<1> QED
  BY <1>1, <1>2, <1>3, <1>4, <1>5 DEF OnWay

\* The type of a message tells what its header is.
LEMMA MessageKinds ==
  ASSUME NEW m \in Message
  PROVE  /\ m.type \in {"RSP", "NTF", "HAL"} /\ m.id \in Nat
         /\ m.type = "RSP" <=> m.hdr \in Header
         /\ m.type = "NTF" <=> m.hdr \in Notification
         /\ m.type = "HAL" <=> m.hdr \in HalEvent
BY DEF Message, Header, Notification, HalEvent

\* A step that spends a fault leaves a faulty stack, another leaves the faults alone.
LEMMA Spending ==
  ASSUME IInv, Spent, NEW k \in {"ntf", "faults", "power"}, Spend(k)
  PROVE  /\ Spent'
         /\ k = "faults" => ~Faultless'
         /\ k # "faults" => (Faultless' <=> Faultless)
<1>1. budget \in [ntf : Nat, faults : Nat, power : Nat] /\ MaxFaults \in Nat
  BY BoundAssumption DEF IInv, TypeOK
<1>2. budget' = [budget EXCEPT ![k] = budget[k] - 1]
  BY DEF Spend
<1>3. CASE k = "faults"
  <2>1. budget'.faults = budget.faults - 1
    BY <1>1, <1>2, <1>3
  <2> QED
    BY <1>1, <1>3, <2>1 DEF Spent, Faultless
<1>4. CASE k # "faults"
  <2>1. budget'.faults = budget.faults
    BY <1>1, <1>2, <1>4
  <2> QED
    BY <1>1, <1>4, <2>1 DEF Spent, Faultless
<1> QED
  BY <1>3, <1>4

\* The task takes the start event: the first command goes out.
LEMMA TransportReadyWindow ==
  ASSUME IInv, IInv', WInv, TransportReady
  PROVE  WInv'
<1> DEFINE o == [nfc EXCEPT !.st = "CORE_INIT"]
           c == [id |-> o.next, hdr |-> "CORE_RESET", kind |-> "plain"]
<1>1. /\ Running /\ ready /\ ~ready' /\ nfc' = SendCmd(o, "CORE_RESET")
      /\ mbox' = mbox /\ checked' = checked /\ rf' = rf /\ budget' = budget
  BY DEF TransportReady
<1>2. /\ Queues(nfc) /\ Phase(nfc) /\ Mail /\ Outside /\ Healthy /\ Spent
      /\ Sound(nfc) /\ nfc \in Nfc /\ nfc.window = 1 /\ nfc.st \in Starting /\ ~checked /\ rf = "idle"
      /\ nfc.flags \in SUBSET Flag /\ nfc.wire \in Seq(Command)
  <2>1. Queues(nfc) /\ Phase(nfc) /\ Mail /\ Outside /\ Healthy /\ Spent
    BY <1>1 DEF WInv, Window
  <2>2. nfc.window = 1 /\ nfc.st \in Starting /\ ~checked /\ rf = "idle"
    BY <1>1, <2>1 DEF Outside, Starting, Up, Down
  <2> QED
    BY <2>1, <2>2, Types, Fields
<1>3. nfc.wire = <<>> /\ nfc.q = <<>> /\ ~nfc.conn /\ "DISCOVER_PENDING" \notin nfc.flags
  BY <1>2 DEF Queues, Phase, Starting, Up, Down
<1>4. /\ o.st = "CORE_INIT" /\ Sound(o) /\ o.conn = nfc.conn /\ o.open = nfc.open /\ o.tml = nfc.tml
      /\ o.halq = nfc.halq /\ o.flags = nfc.flags /\ SameCommand(nfc, o) /\ o.q = <<>> /\ o.window = 1
      /\ o.next \in Nat
  <2>1. "CORE_INIT" \in State
    BY DEF State
  <2>2. o \in Nfc /\ o.window = nfc.window
    BY <1>2, <2>1, Zenon DEF Nfc
  <2>3. /\ o.st = "CORE_INIT" /\ o.conn = nfc.conn /\ o.open = nfc.open /\ o.tml = nfc.tml
        /\ o.halq = nfc.halq /\ o.flags = nfc.flags /\ SameCommand(nfc, o) /\ o.q = nfc.q
    BY <1>2, Zenon DEF Nfc, SameCommand
  <2>4. Sound(o)
    BY <1>2, <2>2 DEF Sound
  <2> QED
    BY <1>2, <1>3, <2>2, <2>3, <2>4, Fields
<1> HIDE DEF o
<1>5. Alike(o, nfc') /\ nfc'.flags = o.flags /\ Goes(o, nfc') /\ nfc'.last = c /\ nfc'.q = <<>>
  <2>1. c \in Command /\ "CORE_RESET" \in Header
    BY <1>4 DEF Command, Header
  <2>2. o.q \o NewCommand(o, "CORE_RESET", "plain") = <<c>>
    BY <1>4 DEF NewCommand
  <2>3. Sends(o, nfc', <<c>>)
    BY <1>1, <1>4, <2>1, <2>2, SendCmdSends
  <2> QED
    BY <1>4, <2>1, <2>3, LoneCommand
<1>6. c.hdr = "CORE_RESET" /\ c.kind = "plain"
  OBVIOUS
<1> HIDE DEF c
<1>7. /\ nfc'.st = "CORE_INIT" /\ nfc'.window = 0 /\ nfc'.timer /\ ~nfc'.nxp /\ nfc'.halq = nfc.halq
      /\ nfc'.open = nfc.open /\ nfc'.tml = nfc.tml /\ nfc'.conn = nfc.conn /\ nfc'.flags = nfc.flags
      /\ nfc'.wire = IF nfc.open THEN <<c>> ELSE <<>>
  BY <1>2, <1>3, <1>4, <1>5, <1>6 DEF Alike, Goes, SameCommand, Queues
<1>8. OnWay' = OnWay
  BY <1>1, <1>7 DEF OnWay
<1>9. Queues(nfc')
  BY <1>2, <1>5, <1>6, <1>7, LinedEmpty DEF Queues, Regular, Due, CoreStart
<1>10. Phase(nfc')
  BY <1>2, <1>3, <1>5, <1>7 DEF Phase, Up
<1>11. Mail'
  <2>1. Lined(mbox', nfc'.halq)
    BY <1>1, <1>2, <1>7 DEF Mail
  <2>2. ASSUME NEW m \in OnWay
        PROVE  Fits(nfc', ready' \/ checked', m)
    <3>1. Fits(nfc, TRUE, m)
      BY <1>1, <1>2, <2>2 DEF Mail
    <3> QED
      BY <1>2, <1>7, <3>1 DEF Fits, Starting, Down, Up
  <2> QED
    BY <1>7, <1>8, <2>1, <2>2 DEF Mail
<1>12. Outside'
  BY <1>1, <1>2 DEF Outside
<1>13. Running' /\ Faultless' => Healthy'
  <2> SUFFICES ASSUME Faultless'
               PROVE  Healthy'
    OBVIOUS
  <2>1. nfc.tml /\ nfc.open /\ \A m \in OnWay : m.hdr # "ERROR" /\ (m.type = "RSP" => m.res = "ok")
    BY <1>1, <1>2 DEF Healthy, Faultless
  <2>2. <<c>> # <<>>
    OBVIOUS
  <2> QED
    BY <1>1, <1>7, <1>8, <2>1, <2>2 DEF Healthy, Down
<1>14. Spent'
  BY <1>1, <1>2 DEF Spent
<1> QED
  BY <1>9, <1>10, <1>11, <1>12, <1>13, <1>14, Build

\* nfc_ncif_process_event stops the listen timer first.
LEMMA ArrivedFields ==
  ASSUME NEW n, n \in Nfc
  PROVE  /\ Arrived(n) \in Nfc /\ Alike(n, Arrived(n)) /\ SameCommand(n, Arrived(n))
         /\ Arrived(n).q = n.q /\ Arrived(n).flags = n.flags
BY Zenon DEF Arrived, Nfc, Alike, SameCommand

\* A response that is handled is alone on its way, and answers the command that is out.
LEMMA RspTaken ==
  ASSUME IInv, WInv, HandleRsp, NEW r, r = Head(mbox), NEW n, n = Arrived(nfc)
  PROVE  /\ r \in Message /\ r.type = "RSP" /\ r.id \in Nat /\ r \in OnWay
         /\ Consistent(n) /\ Sound(n) /\ Queues(n) /\ Phase(n) /\ Mail /\ Outside /\ Spent
         /\ Alike(nfc, n) /\ SameCommand(nfc, n) /\ n.flags = nfc.flags /\ n.q = nfc.q
         /\ n.tml /\ n.window = 0 /\ n.wire = <<>> /\ Due(n.st, r.hdr) /\ Answers(n, r)
         /\ ~ready /\ ~checked /\ mbox' = Tail(mbox) /\ mbox' \in Seq(Message)
         /\ Lined(mbox', n.halq) /\ Faultless' = Faultless /\ (Spent' <=> Spent)
         /\ checked' = checked /\ rf' = rf
         /\ \A m \in Range(mbox') \cup Range(n.halq) : m \in OnWay /\ m.type # "RSP" /\ Fits(n, FALSE, m)
         /\ \A m \in Range(mbox') : m \in Range(mbox)
         /\ nfc' = ProcessRsp(n, r)
         /\ ready' = (Matches(n, r) /\ RetriesInit(n, r))
<1>1. /\ Running /\ mbox # <<>> /\ Head(mbox).type = "RSP"
      /\ mbox' = Tail(mbox) /\ checked' = checked /\ rf' = rf /\ budget' = budget
      /\ nfc' = (IF n.nxp THEN ProcessNxpRsp(n, r.id) ELSE ProcessRsp(n, r))
      /\ ready' = (ready \/ (~n.nxp /\ Matches(n, r) /\ RetriesInit(n, r)))
  BY DEF HandleRsp
<1>2. Queues(nfc) /\ Phase(nfc) /\ Mail /\ Outside /\ Spent
  BY <1>1 DEF WInv, Window
<1>3. Sound(nfc) /\ nfc \in Nfc /\ mbox \in Seq(Message) /\ nfc.halq \in Seq(Message) /\ Consistent(nfc)
  BY Types, Split
<1>4. /\ r \in Message /\ r \in Range(mbox) /\ Tail(mbox) \in Seq(Message)
      /\ Range(Tail(mbox)) \subseteq Range(mbox)
  BY <1>1, <1>3, RangeTail
<1>5. r.type = "RSP" /\ r.id \in Nat /\ r \in OnWay
  BY <1>1, <1>4, MessageKinds DEF OnWay
<1>6. nfc.st # "W4_HAL_CLOSE"
  BY <1>2, <1>4, <1>5 DEF Mail
<1>7. nfc.tml /\ nfc.window = 0 /\ nfc.wire = <<>> /\ Due(nfc.st, r.hdr) /\ Answers(nfc, r)
  BY <1>2, <1>5, <1>6 DEF Mail, Fits
<1>8. ~ready /\ ~checked
  BY <1>2, <1>7 DEF Outside
<1>9. Alike(nfc, n) /\ SameCommand(nfc, n) /\ n.flags = nfc.flags /\ n.q = nfc.q /\ Consistent(n)
  BY <1>3, ArrivedFields, ArrivedSound
<1>10. Sound(n) /\ Queues(n) /\ Phase(n) /\ \A s, x : Fits(nfc, s, x) => Fits(n, s, x)
  <2>1. Sound(n)
    BY <1>9 DEF Consistent
  <2> QED
    BY <1>2, <1>9, <2>1, Twin DEF Alike
<1>11. ~n.nxp
  BY <1>10 DEF Queues
<1>12. Lined(mbox', n.halq) /\ \A m \in Range(mbox') \cup Range(n.halq) : Before(r, m)
  BY <1>1, <1>2, <1>3, <1>9, LinedTaken DEF Mail, Alike
<1>13. \A m \in Range(mbox') \cup Range(n.halq) : m \in OnWay /\ m.type # "RSP" /\ Fits(n, FALSE, m)
  <2> SUFFICES ASSUME NEW m \in Range(mbox') \cup Range(n.halq)
               PROVE  m \in OnWay /\ m.type # "RSP" /\ Fits(n, FALSE, m)
    OBVIOUS
  <2>1. m \in OnWay
    BY <1>1, <1>4, <1>9 DEF OnWay, Alike
  <2>2. m.type # "RSP"
    BY <1>5, <1>12 DEF Before
  <2>3. Fits(n, FALSE, m)
    BY <1>2, <1>8, <1>10, <2>1 DEF Mail
  <2> QED
    BY <2>1, <2>2, <2>3
<1>14. n.tml /\ n.window = 0 /\ n.wire = <<>> /\ Due(n.st, r.hdr) /\ Answers(n, r)
  BY <1>7, <1>9 DEF Alike, SameCommand, Answers
<1>15. Faultless' = Faultless /\ (Spent' <=> Spent)
  BY <1>1 DEF Faultless, Spent
<1>16. nfc' = ProcessRsp(n, r) /\ ready' = (Matches(n, r) /\ RetriesInit(n, r))
  BY <1>1, <1>8, <1>11
<1>17. mbox' = Tail(mbox) /\ checked' = checked /\ rf' = rf /\ mbox' \in Seq(Message)
       /\ \A m \in Range(mbox') : m \in Range(mbox)
  BY <1>1, <1>4
<1> QED
  BY <1>2, <1>4, <1>5, <1>8, <1>9, <1>10, <1>12, <1>13, <1>14, <1>15, <1>16, <1>17

\* Responses the stack handles while it is up.
LEMMA UpDispatch ==
  ASSUME NEW n, Sound(n), Queues(n), Phase(n), n.st \in Up, NEW r \in Message,
         r.hdr \notin CoreStart, NEW d, d = DispatchRsp(n, r)
  PROVE  /\ Queues(d) /\ Phase(d) /\ d.st \in Up /\ SameCommand(n, d) /\ d.q = n.q
         /\ d.flags = n.flags /\ Linked(n, d)
         /\ \A s, x : x.type # "RSP" /\ Fits(n, s, x) => Fits(d, s, x)
         /\ d.reports = n.reports \/ (r.hdr \in {"PROP", "SCREEN"} /\ d = Vendor(n, r.id))
<1> DEFINE o  == [n EXCEPT !.st = "IDLE"]
           rs == IF n.cback = 0 THEN n.reports
                 ELSE n.reports \cup {[cb |-> n.cback, rsp |-> r.id]}
           v  == [n EXCEPT !.reports = rs]
<1>1. \/ d = o
      \/ d = v /\ r.hdr \in {"PROP", "SCREEN"} /\ d = Vendor(n, r.id)
      \/ d = n
  BY DEF DispatchRsp, CoreStart, Vendor
<1>2. n \in Nfc
  BY DEF Sound
<1> HIDE DEF rs
<1>3. /\ o.st = "IDLE" /\ o.conn = n.conn /\ SameCommand(n, o) /\ o.q = n.q /\ o.flags = n.flags
      /\ Linked(n, o) /\ o.reports = n.reports
  BY <1>2, Zenon DEF Nfc, SameCommand, Linked
<1>4. /\ v.st = n.st /\ v.conn = n.conn /\ SameCommand(n, v) /\ v.q = n.q /\ v.flags = n.flags
      /\ Linked(n, v)
  BY <1>2, Zenon DEF Nfc, SameCommand, Linked
<1> HIDE DEF o, v
<1>5. SameCommand(n, n) /\ Linked(n, n)
  BY DEF SameCommand, Linked
<1>6. /\ d.st \in Up /\ d.conn = n.conn /\ SameCommand(n, d) /\ d.q = n.q /\ d.flags = n.flags
      /\ Linked(n, d)
  BY <1>1, <1>3, <1>4, <1>5 DEF Up
<1>7. d.reports = n.reports \/ (r.hdr \in {"PROP", "SCREEN"} /\ d = Vendor(n, r.id))
  BY <1>1, <1>3
<1>8. Queues(d)
  BY <1>6 DEF Queues, SameCommand, Linked, Due, Up
<1>9. Phase(d)
  BY <1>6 DEF Phase, SameCommand, Linked, Up
<1>10. \A s, x : x.type # "RSP" /\ Fits(n, s, x) => Fits(d, s, x)
  BY <1>6 DEF Fits, SameCommand, Linked, Up, Down, Phase
<1> QED
  BY <1>6, <1>7, <1>8, <1>9, <1>10

\* The task takes a response while the stack is up.
LEMMA HandleRspUp ==
  ASSUME IInv, WInv, HandleRsp, nfc.st \in Up
  PROVE  WInv'
<1> DEFINE r == Head(mbox)
           n == Arrived(nfc)
           d == DispatchRsp(n, r)
<1>1. /\ r \in Message /\ r.type = "RSP" /\ r.id \in Nat /\ r \in OnWay
      /\ Consistent(n) /\ Sound(n) /\ Queues(n) /\ Phase(n) /\ Mail /\ Outside /\ Spent
      /\ Alike(nfc, n) /\ SameCommand(nfc, n) /\ n.flags = nfc.flags /\ n.q = nfc.q
      /\ n.tml /\ n.window = 0 /\ n.wire = <<>> /\ Due(n.st, r.hdr) /\ Answers(n, r)
      /\ ~ready /\ ~checked /\ mbox' = Tail(mbox) /\ mbox' \in Seq(Message)
      /\ Lined(mbox', n.halq) /\ Faultless' = Faultless /\ (Spent' <=> Spent)
      /\ checked' = checked /\ rf' = rf
      /\ \A m \in Range(mbox') \cup Range(n.halq) : m \in OnWay /\ m.type # "RSP" /\ Fits(n, FALSE, m)
      /\ \A m \in Range(mbox') : m \in Range(mbox)
      /\ nfc' = ProcessRsp(n, r)
      /\ ready' = (Matches(n, r) /\ RetriesInit(n, r))
  BY RspTaken
<1>2. Running /\ n.st \in Up /\ nfc.st = n.st /\ nfc.tml = n.tml /\ nfc.open = n.open
  BY <1>1 DEF Alike, HandleRsp
<1>3. r.hdr \notin CoreStart
  BY <1>1, <1>2 DEF Due, Up
<1>4. ~ready' /\ ~checked'
  BY <1>1, <1>3 DEF RetriesInit, CoreStart
<1>5. Consistent(d)
  BY <1>1, DispatchRspSound
<1> HIDE DEF r, n
<1>6. /\ Queues(d) /\ Phase(d) /\ d.st \in Up /\ SameCommand(n, d) /\ d.q = n.q
      /\ d.flags = n.flags /\ Linked(n, d)
      /\ \A s, x : x.type # "RSP" /\ Fits(n, s, x) => Fits(d, s, x)
  BY <1>1, <1>2, <1>3, UpDispatch
<1> HIDE DEF d
<1>7. d.window = 0 /\ d.wire = <<>> /\ Sound(d)
  BY <1>1, <1>5, <1>6 DEF SameCommand, Linked, Consistent
<1>8. CASE Matches(n, r)
  <2>1. nfc' = UpdateWindow(d)
    BY <1>1, <1>8 DEF ProcessRsp, d
  <2>2. /\ Queues(nfc') /\ Phase(nfc') /\ Alike(d, nfc')
        /\ \A s, x : x.type # "RSP" /\ Fits(d, s, x) => Fits(nfc', s, x)
    BY <1>6, <1>7, <2>1, UpOpens
  <2>3. nfc'.st \in Up /\ nfc'.tml = n.tml /\ nfc'.open = n.open /\ nfc'.halq = n.halq
    BY <1>6, <2>2 DEF Alike, Linked
  <2>4. OnWay' = Range(mbox') \cup Range(n.halq)
    BY <2>3 DEF OnWay
  <2>5. Mail'
    <3>1. \A m \in OnWay' : Fits(nfc', ready' \/ checked', m)
      BY <1>1, <1>4, <1>6, <2>2, <2>4
    <3>2. nfc'.st # "W4_HAL_CLOSE" /\ nfc'.st # "W4_HAL_OPEN"
      BY <2>3 DEF Up
    <3> QED
      BY <1>1, <2>3, <3>1, <3>2 DEF Mail
  <2>6. Outside'
    BY <1>4, <2>3 DEF Outside
  <2>7. Running' /\ Faultless' => Healthy'
    <3> SUFFICES ASSUME Faultless
                 PROVE  Healthy'
      BY <1>1
    <3>1. n.open /\ \A m \in OnWay : m.hdr # "ERROR" /\ (m.type = "RSP" => m.res = "ok")
      BY <1>1, <1>2 DEF Healthy, WInv
    <3>2. nfc'.window = 0 => nfc'.timer /\ nfc'.wire # <<>>
      <4>1. d.open
        BY <1>6, <3>1 DEF Linked
      <4> QED
        BY <1>7, <2>1, <4>1, OpensTimed
    <3> QED
      BY <1>1, <1>4, <2>3, <2>4, <3>1, <3>2 DEF Healthy, Up, Down
  <2> QED
    BY <1>1, <2>2, <2>5, <2>6, <2>7, Build
<1>9. CASE ~Matches(n, r)
  <2>1. nfc' = n
    BY <1>1, <1>9 DEF ProcessRsp
  <2>2. OnWay' = Range(mbox') \cup Range(n.halq)
    BY <2>1 DEF OnWay
  <2>3. Mail'
    <3>2. nfc'.st # "W4_HAL_CLOSE" /\ nfc'.st # "W4_HAL_OPEN"
      BY <1>2, <2>1 DEF Up
    <3> QED
      BY <1>1, <1>4, <2>1, <2>2, <3>2 DEF Mail
  <2>4. Outside'
    BY <1>2, <1>4, <2>1 DEF Outside
  <2>5. ~n.timer
    BY <1>1, <1>9 DEF Answers, Matches
  <2>6. ~Faultless
    BY <1>1, <1>2, <2>5 DEF Healthy, WInv, SameCommand
  <2> QED
    BY <1>1, <2>1, <2>3, <2>4, <2>6, Build
<1> QED
  BY <1>8, <1>9

\* The window opened with nothing to send.
Rested(n, m) ==
  /\ m.window = 1 /\ ~m.timer /\ m.q = <<>> /\ m.wire = <<>> /\ m.last = n.last /\ ~m.nxp
  /\ ~m.conn /\ m.reports = n.reports

\* Opening the window leaves the rest of the control block alone.
LEMMA UpdateWindowAlike ==
  ASSUME NEW n, Sound(n)
  PROVE  Alike(n, UpdateWindow(n))
<1>1. n.window \in 0 .. 1
  BY Fields
<1>2. CASE n.window = 1
  <2>1. UpdateWindow(n) = n
    BY <1>2 DEF UpdateWindow, MaxWindow
  <2> QED
    BY <2>1 DEF Alike
<1>3. CASE n.window = 0
  <2>1. PICK o : Opened(n, o) /\ Sends(o, UpdateWindow(n), n.q)
    BY <1>3, UpdateWindowOpens
  <2> QED
    BY <2>1 DEF Opened, Sends, Alike
<1> QED
  BY <1>1, <1>2, <1>3

\* A start that fails: a restart goes back to power-off, another waits for the HAL to close.
FailsStart(n, m) ==
  \/ /\ "RESTARTING" \in n.flags /\ m.st = "NFCC_POWER_OFF_SLEEP"
     /\ m.open = n.open /\ m.tml = n.tml /\ m.halq = n.halq
     /\ m.flags \subseteq n.flags \cup {"POWER_OFF_SLEEP"}
  \/ /\ "RESTARTING" \notin n.flags /\ m.st = "CORE_INIT" /\ m.flags = n.flags
     /\ ~m.open /\ ~m.tml /\ m.halq = Append(n.halq, Hal("CLOSE_CPLT"))

\* nfc_enabled with a failure, and the window opened behind it.
LEMMA StartFails ==
  ASSUME NEW n, Consistent(n), n.st = "CORE_INIT", n.window = 0, n.wire = <<>>, n.q = <<>>,
         ~n.conn, ~n.nxp, "DISCOVER_PENDING" \notin n.flags,
         NEW d, d = EnabledFailed(n), NEW m, m = UpdateWindow(d), m.st # "CRASHED"
  PROVE  Rested(n, m) /\ FailsStart(n, m)
<1>1. n \in Nfc /\ Sound(d)
  BY EnabledFailedSound DEF Consistent, Sound
<1>2. Alike(d, m)
  BY <1>1, UpdateWindowAlike
<1>3. d.st # "CRASHED"
  BY <1>2 DEF Alike
<1>4. /\ d.reports = n.reports
      /\ Untouched(n, d) /\ d.flags \subseteq n.flags \cup {"POWER_OFF_SLEEP"}
      /\ \/ /\ "RESTARTING" \in n.flags /\ d.st = "NFCC_POWER_OFF_SLEEP"
            /\ d.conn = n.conn /\ Linked(n, d)
         \/ /\ "RESTARTING" \notin n.flags /\ d.st = "CORE_INIT"
            /\ n.tml /\ ~d.conn /\ Closed(n, d) /\ d.flags = n.flags
  BY <1>1, <1>3, EnabledFailedFields
<1>5. d.window = 0 /\ d.q = <<>> /\ "DISCOVER_PENDING" \notin d.flags /\ d.wire = <<>>
  BY <1>4 DEF Untouched, Linked, Closed
<1>6. /\ m.window = 1 /\ ~m.timer /\ m.q = <<>> /\ m.flags = d.flags
      /\ m.nxp = d.nxp /\ m.wire = d.wire /\ m.last = d.last
  BY <1>1, <1>5, OpensEmpty
<1>7. Rested(n, m)
  BY <1>2, <1>4, <1>5, <1>6 DEF Rested, Alike, Untouched
<1>8. FailsStart(n, m)
  BY <1>2, <1>4, <1>6 DEF FailsStart, Alike, Linked, Closed
<1> QED
  BY <1>7, <1>8

\* What the response to CORE_RESET or CORE_INIT leads to.
Starts(n, r, m) ==
  \/ /\ r.res = "ok" /\ m.st = "CORE_INIT" /\ m.window = 0 /\ m.timer /\ m.q = <<>> /\ ~m.nxp /\ ~m.conn
     /\ m.last.hdr = "CORE_INIT" /\ m.last.kind = "plain"
     /\ m.wire = (IF n.open THEN <<m.last>> ELSE <<>>)
     /\ m.flags = n.flags /\ m.open = n.open /\ m.tml = n.tml /\ m.halq = n.halq
  \/ /\ r.res \in {"ok", "mute"} /\ m.st = "W4_POST_INIT_CPLT" /\ Rested(n, m)
     /\ m.flags = n.flags /\ m.open = n.open /\ m.tml = n.tml
     /\ m.halq \in {n.halq, Append(n.halq, Hal("POST_INIT_CPLT"))}
  \/ /\ RetriesInit(n, r) /\ m.st = "CORE_INIT" /\ Rested(n, m)
     /\ m.flags = n.flags /\ m.open = n.open /\ m.tml = n.tml /\ m.halq = n.halq
  \/ r.res # "ok" /\ ~RetriesInit(n, r) /\ Rested(n, m) /\ FailsStart(n, m)

\* What a response to CORE_RESET or CORE_INIT comes to.
LEMMA StartOutcome ==
  ASSUME NEW n, Consistent(n), Queues(n), Phase(n), n.st = "CORE_INIT", n.window = 0, n.wire = <<>>,
         NEW r \in Message, r.hdr \in CoreStart, NEW m, m = UpdateWindow(DispatchRsp(n, r)),
         m.st # "CRASHED"
  PROVE  Starts(n, r, m) /\ m.reports = n.reports
<1> DEFINE d == DispatchRsp(n, r)
<1>0. Sound(n) /\ n \in Nfc /\ r.id \in Nat
  BY MessageKinds DEF Consistent, Sound
<1>1. Sound(d)
  BY <1>0, DispatchRspSound DEF Consistent
<1>2. n.q = <<>> /\ n.conn = FALSE /\ ~n.nxp /\ "DISCOVER_PENDING" \notin n.flags
  <2>1. n.conn \in BOOLEAN
    BY <1>0, Fields
  <2> QED
    BY <2>1 DEF Queues, Phase, Up
<1>3. m = UpdateWindow(d)
  OBVIOUS
<1>4. d = IF r.hdr = "CORE_RESET" THEN ProcResetRsp(n, r) ELSE ProcInitRsp(n, r)
  BY DEF DispatchRsp, CoreStart
<1> HIDE DEF d
<1>5. Alike(d, m)
  BY <1>1, <1>3, UpdateWindowAlike
<1>6. CASE r.hdr = "CORE_RESET"
  <2>1. \/ /\ r.res = "ok" /\ Alike(n, d) /\ SameCommand(n, d) /\ d.flags = n.flags
           /\ \E c \in Command : c.hdr = "CORE_INIT" /\ c.kind = "plain" /\ d.q = <<c>>
        \/ r.res # "ok" /\ d = EnabledFailed(n)
    BY <1>0, <1>2, <1>4, <1>6, ResetRspFields
  <2>2. ~RetriesInit(n, r)
    BY <1>6 DEF RetriesInit
  <2>3. ASSUME r.res = "ok", Alike(n, d), SameCommand(n, d), d.flags = n.flags,
               NEW c \in Command, c.hdr = "CORE_INIT", c.kind = "plain", d.q = <<c>>
        PROVE  Starts(n, r, m) /\ m.reports = n.reports
    <3>1. d.window = 0 /\ d.wire = <<>> /\ ~d.nxp
      BY <1>2, <2>3 DEF SameCommand
    <3>2. /\ m.window = 0 /\ m.timer /\ m.q = <<>> /\ m.flags = d.flags
          /\ m.last = c /\ m.wire = (IF d.open THEN Append(d.wire, c) ELSE d.wire)
          /\ m.nxp <=> (d.nxp \/ c.kind = "nxp")
      <4>1. Sound(d) /\ d.window = 0 /\ c \in Command /\ d.q = <<c>> /\ m = UpdateWindow(d)
        BY <1>1, <1>3, <2>3, <3>1
      <4>2. m.window = 0 /\ m.timer /\ m.q = <<>> /\ m.flags = d.flags
        BY <4>1, OpensOne
      <4>3. m.last = c
        BY <4>1, OpensOne
      <4>4. m.wire = (IF d.open THEN Append(d.wire, c) ELSE d.wire)
        BY <4>1, OpensOne
      <4>5. m.nxp <=> (d.nxp \/ c.kind = "nxp")
        BY <4>1, OpensOne, Zenon
      <4> QED
        BY <4>2, <4>3, <4>4, <4>5
    <3>3. Append(<<>>, c) = <<c>>
      OBVIOUS
    <3>4. m.wire = (IF n.open THEN <<m.last>> ELSE <<>>)
      BY <2>3, <3>1, <3>2, <3>3 DEF Alike
    <3> QED
      BY <1>2, <1>5, <2>3, <3>1, <3>2, <3>4 DEF Starts, Alike
  <2>4. CASE r.res # "ok" /\ d = EnabledFailed(n)
    <3>1. Rested(n, m) /\ FailsStart(n, m)
      BY <1>2, <1>3, <2>4, StartFails
    <3> QED
      BY <2>2, <2>4, <3>1 DEF Starts, Rested
  <2> QED
    BY <2>1, <2>3, <2>4
<1>7. CASE r.hdr = "CORE_INIT"
  <2>1. \/ /\ r.res \in {"ok", "mute"} /\ d.st = "W4_POST_INIT_CPLT" /\ d.conn = n.conn
           /\ d.halq \in {n.halq, Append(n.halq, Hal("POST_INIT_CPLT"))}
           /\ d.open = n.open /\ d.tml = n.tml
           /\ SameCommand(n, d) /\ d.q = n.q /\ d.flags = n.flags /\ d.reports = n.reports
        \/ /\ r.res = "corrupt" /\ n.retry < MaxInitRetry /\ d.st = n.st /\ d.conn = n.conn
           /\ SameCommand(n, d) /\ d.q = n.q /\ d.flags = n.flags /\ d.reports = n.reports
           /\ Linked(n, d)
        \/ /\ r.res \notin {"ok", "mute"} /\ ~(r.res = "corrupt" /\ n.retry < MaxInitRetry)
           /\ \E o \in Nfc : /\ d = EnabledFailed(o) /\ Sound(o) /\ Untouched(n, o) /\ Linked(n, o)
                             /\ o.st = n.st /\ o.conn = n.conn /\ o.flags = n.flags
    BY <1>0, <1>4, <1>7, InitRspFields
  <2>2. ASSUME SameCommand(n, d), d.q = n.q, d.flags = n.flags, d.conn = n.conn,
               d.reports = n.reports
        PROVE  Rested(n, m) /\ m.flags = n.flags
    <3>1. d.window = 0 /\ d.wire = <<>> /\ ~d.nxp /\ d.q = <<>> /\ d.last = n.last
      BY <1>2, <2>2 DEF SameCommand
    <3>2. /\ m.window = 1 /\ ~m.timer /\ m.q = <<>> /\ m.flags = d.flags
          /\ m.nxp = d.nxp /\ m.wire = d.wire /\ m.last = d.last
      BY <1>1, <1>2, <1>3, <2>2, <3>1, OpensEmpty
    <3> QED
      BY <1>2, <1>5, <2>2, <3>1, <3>2 DEF Rested, Alike
  <2>3. CASE /\ r.res \in {"ok", "mute"} /\ d.st = "W4_POST_INIT_CPLT" /\ d.conn = n.conn
             /\ d.halq \in {n.halq, Append(n.halq, Hal("POST_INIT_CPLT"))}
             /\ d.open = n.open /\ d.tml = n.tml
             /\ SameCommand(n, d) /\ d.q = n.q /\ d.flags = n.flags /\ d.reports = n.reports
    BY <1>5, <2>2, <2>3 DEF Starts, Alike, Rested
  <2>4. CASE /\ r.res = "corrupt" /\ n.retry < MaxInitRetry /\ d.st = n.st /\ d.conn = n.conn
             /\ SameCommand(n, d) /\ d.q = n.q /\ d.flags = n.flags /\ d.reports = n.reports
             /\ Linked(n, d)
    BY <1>5, <1>7, <2>2, <2>4 DEF Starts, Alike, Rested, Linked, RetriesInit
  <2>5. ASSUME r.res \notin {"ok", "mute"}, ~(r.res = "corrupt" /\ n.retry < MaxInitRetry), NEW o \in Nfc,
               d = EnabledFailed(o), Sound(o), Untouched(n, o), Linked(n, o),
               o.st = n.st, o.conn = n.conn, o.flags = n.flags
        PROVE  Starts(n, r, m) /\ m.reports = n.reports
    <3>1. o.window = n.window /\ o.q = n.q /\ o.flags = n.flags
      BY <2>5 DEF Untouched
    <3>2. Consistent(o)
      BY <2>5, <3>1, KeepsConsistent
    <3>3. o.wire = <<>> /\ ~o.nxp /\ o.q = <<>> /\ o.window = 0
      BY <1>2, <2>5 DEF Untouched, Linked
    <3>4. Rested(o, m) /\ FailsStart(o, m)
      BY <1>2, <1>3, <2>5, <3>2, <3>3, StartFails
    <3>5. Rested(n, m) /\ FailsStart(n, m)
      BY <2>5, <3>4 DEF Rested, FailsStart, Untouched, Linked
    <3> QED
      BY <2>5, <3>5 DEF Starts, Rested, RetriesInit
  <2> QED
    BY <2>1, <2>3, <2>4, <2>5
<1> QED
  BY <1>6, <1>7 DEF CoreStart

\* The task takes a response during the start-up.
LEMMA HandleRspStart ==
  ASSUME IInv, IInv', WInv, HandleRsp, nfc.st = "CORE_INIT"
  PROVE  WInv'
<1> DEFINE r == Head(mbox)
           n == Arrived(nfc)
           e == Hal("CLOSE_CPLT")
           p == Hal("POST_INIT_CPLT")
<1>1. /\ r \in Message /\ r.type = "RSP" /\ r.id \in Nat /\ r \in OnWay
      /\ Consistent(n) /\ Sound(n) /\ Queues(n) /\ Phase(n) /\ Mail /\ Outside /\ Spent
      /\ Alike(nfc, n) /\ SameCommand(nfc, n) /\ n.flags = nfc.flags /\ n.q = nfc.q
      /\ n.tml /\ n.window = 0 /\ n.wire = <<>> /\ Due(n.st, r.hdr) /\ Answers(n, r)
      /\ ~ready /\ ~checked /\ mbox' = Tail(mbox) /\ mbox' \in Seq(Message)
      /\ Lined(mbox', n.halq) /\ Faultless' = Faultless /\ (Spent' <=> Spent)
      /\ checked' = checked /\ rf' = rf
      /\ \A m \in Range(mbox') \cup Range(n.halq) : m \in OnWay /\ m.type # "RSP" /\ Fits(n, FALSE, m)
      /\ \A m \in Range(mbox') : m \in Range(mbox)
      /\ nfc' = ProcessRsp(n, r)
      /\ ready' = (Matches(n, r) /\ RetriesInit(n, r))
  BY RspTaken
<1>2. n.st = "CORE_INIT" /\ nfc.tml = n.tml /\ nfc.open = n.open /\ nfc.st = n.st /\ Running
  BY <1>1 DEF Alike, HandleRsp
<1>3. r.hdr \in CoreStart /\ Matches(n, r)
  BY <1>1, <1>2 DEF Due, Up, Answers, Matches, CoreStart
<1>4. SUFFICES ASSUME nfc'.st # "CRASHED"
               PROVE  WInv'
  BY <1>1, Build DEF Running
<1>5. nfc' = UpdateWindow(DispatchRsp(n, r))
  BY <1>1, <1>3 DEF ProcessRsp
<1>6. Starts(n, r, nfc')
  BY <1>1, <1>2, <1>3, <1>4, <1>5, StartOutcome
<1>7. /\ e \in Message /\ e.type = "HAL" /\ e.hdr = "CLOSE_CPLT"
      /\ p \in Message /\ p.type = "HAL" /\ p.hdr = "POST_INIT_CPLT"
  BY HalMessage DEF Hal, HalEvent
<1> HIDE DEF r, n, e, p
<1>8. rf = "idle" /\ (ready' <=> RetriesInit(n, r)) /\ ~checked' /\ n.halq \in Seq(Message)
  <2>1. rf = "idle"
    BY <1>1, <1>2 DEF Outside, Up
  <2>2. ready' <=> RetriesInit(n, r)
    BY <1>1, <1>3, Zenon
  <2> QED
    BY <1>1, <2>1, <2>2, Fields
<1>9. /\ ~n.nxp /\ ~n.conn /\ n.q = <<>> /\ "DISCOVER_PENDING" \notin n.flags
      /\ "POWER_CYCLE_NFCC" \notin n.flags /\ Regular(n.last) /\ n.last.hdr \in CoreStart
  BY <1>1, <1>2, <1>3 DEF Queues, Phase, Up, Matches
<1>10. \A m \in Range(mbox') \cup Range(n.halq) :
         /\ m \in OnWay /\ m.type = "HAL" /\ m.hdr \notin {"OPEN_CPLT", "OPEN_FAILED", "CLOSE_CPLT"}
         /\ m.hdr = "ERROR" => ~n.open
  <2> SUFFICES ASSUME NEW m \in Range(mbox') \cup Range(n.halq)
               PROVE  /\ m \in OnWay /\ m.type = "HAL"
                      /\ m.hdr \notin {"OPEN_CPLT", "OPEN_FAILED", "CLOSE_CPLT"}
                      /\ m.hdr = "ERROR" => ~n.open
    OBVIOUS
  <2>1. m \in OnWay /\ m \in Message /\ m.type # "RSP" /\ Fits(n, FALSE, m)
    BY <1>1, Types
  <2>2. m.type = "HAL"
    BY <1>2, <2>1, MessageKinds DEF Fits, Up
  <2> QED
    BY <1>1, <1>2, <2>1, <2>2 DEF Fits, Down
<1>11. \A m \in Range(mbox') \cup Range(n.halq) : Before(m, e) /\ Before(m, p)
  BY <1>7, <1>10 DEF Before
<1>12. nfc'.halq = n.halq \/ nfc'.halq = Append(n.halq, e) \/ nfc'.halq = Append(n.halq, p)
  BY <1>6 DEF Starts, FailsStart, e, p
<1>13. Lined(mbox', nfc'.halq)
  <2>1. Lined(mbox', Append(n.halq, e)) /\ Lined(mbox', Append(n.halq, p))
    BY <1>1, <1>7, <1>8, <1>11, LinedAdded
  <2> QED
    BY <1>1, <1>12, <2>1
<1>14. \A m \in OnWay' : m \in Range(mbox') \cup Range(n.halq) \/ m = e \/ m = p
  <2>1. Range(Append(n.halq, e)) = Range(n.halq) \cup {e}
        /\ Range(Append(n.halq, p)) = Range(n.halq) \cup {p}
    BY <1>7, <1>8, RangeAppend
  <2> QED
    BY <1>12, <2>1 DEF OnWay
<1>15. \A m \in OnWay' : m = e => ~nfc'.tml /\ ~nfc'.open
  <2>1. nfc'.halq = Append(n.halq, e) => ~nfc'.tml /\ ~nfc'.open
    <3>1. Append(n.halq, e) # n.halq /\ Append(n.halq, e) # Append(n.halq, p)
      <4>1. e # p
        BY <1>7
      <4> QED
        BY <1>7, <1>8, <4>1
    <3> QED
      BY <1>6, <3>1 DEF Starts, FailsStart, p
  <2>2. Range(Append(n.halq, p)) = Range(n.halq) \cup {p}
    BY <1>7, <1>8, RangeAppend
  <2>3. e \notin Range(mbox') \cup Range(n.halq) /\ e # p
    BY <1>7, <1>10
  <2> QED
    BY <1>12, <2>1, <2>2, <2>3 DEF OnWay
<1>16. nfc'.open => n.open
  BY <1>6 DEF Starts, FailsStart
<1>17. Queues(nfc')
  <2>1. nfc'.q = <<>> /\ ~nfc'.nxp
    BY <1>6 DEF Starts, Rested
  <2>2. CASE nfc'.window = 0
    BY <1>6, <2>1, <2>2, LinedEmpty DEF Starts, Rested, Queues, Regular, Due, CoreStart
  <2>3. CASE nfc'.window # 0
    BY <1>6, <1>9, <2>1, <2>3, LinedEmpty DEF Starts, Rested, Queues, Regular, Due, CoreStart
  <2> QED
    BY <2>2, <2>3
<1>18. Phase(nfc')
  BY <1>1, <1>6, <1>9 DEF Starts, Rested, FailsStart, Phase, Up
<1>19. Mail'
  <2>1. ASSUME NEW m \in OnWay'
        PROVE  Fits(nfc', ready' \/ checked', m)
    <3>1. m.type = "HAL" /\ m.hdr \notin {"OPEN_CPLT", "OPEN_FAILED"} /\ (m.hdr = "ERROR" => ~n.open)
      BY <1>7, <1>10, <1>14
    <3>2. m.hdr = "CLOSE_CPLT" => ~nfc'.tml
      BY <1>7, <1>10, <1>14, <1>15
    <3>3. ~nfc'.tml => nfc'.st = "CORE_INIT" /\ "RESTARTING" \notin nfc'.flags
      BY <1>1, <1>6 DEF Starts, FailsStart
    <3> QED
      BY <1>16, <3>1, <3>2, <3>3 DEF Fits, Down
  <2>2. nfc'.st \in {"CORE_INIT", "W4_POST_INIT_CPLT", "NFCC_POWER_OFF_SLEEP"}
    BY <1>6 DEF Starts, FailsStart
  <2> QED
    BY <1>13, <2>1, <2>2 DEF Mail
<1>20. Outside'
  <2>1. RetriesInit(n, r) => nfc'.window = 1 /\ nfc'.st = "CORE_INIT"
    <3>1. RetriesInit(n, r) => r.res \notin {"ok", "mute"}
      BY DEF RetriesInit
    <3> QED
      BY <1>6, <3>1 DEF Starts, Rested
  <2> QED
    BY <1>1, <1>8, <2>1 DEF Outside, Starting
<1>21. Running' /\ Faultless' => Healthy'
  <2> SUFFICES ASSUME Faultless
               PROVE  Healthy'
    BY <1>1
  <2>1. n.open /\ r.res = "ok" /\ \A m \in OnWay : m.hdr # "ERROR" /\ (m.type = "RSP" => m.res = "ok")
    BY <1>1, <1>2 DEF Healthy, WInv
  <2>2. ~ready'
    BY <1>8, <2>1 DEF RetriesInit
  <2>3. \A m \in OnWay' : m.hdr # "ERROR" /\ m.type # "RSP"
    BY <1>7, <1>10, <1>14, <2>1
  <2>4. /\ nfc'.open /\ nfc'.tml /\ nfc'.st \notin Down
        /\ nfc'.window = 0 => nfc'.timer /\ nfc'.wire = <<nfc'.last>>
    <3>1. ~RetriesInit(n, r)
      BY <2>1 DEF RetriesInit
    <3>2. /\ nfc'.open = n.open /\ nfc'.tml = n.tml /\ nfc'.st \in {"CORE_INIT", "W4_POST_INIT_CPLT"}
          /\ nfc'.window = 0 => nfc'.timer /\ nfc'.wire = (IF n.open THEN <<nfc'.last>> ELSE <<>>)
      <4>1. \/ /\ nfc'.st = "CORE_INIT" /\ nfc'.timer
               /\ nfc'.wire = (IF n.open THEN <<nfc'.last>> ELSE <<>>)
               /\ nfc'.open = n.open /\ nfc'.tml = n.tml
            \/ /\ nfc'.st = "W4_POST_INIT_CPLT" /\ Rested(n, nfc')
               /\ nfc'.open = n.open /\ nfc'.tml = n.tml
        BY <1>6, <2>1, <3>1, Zenon DEF Starts
      <4> QED
        BY <4>1 DEF Rested
    <3> QED
      BY <1>1, <2>1, <3>2 DEF Down
  <2>5. <<nfc'.last>> # <<>>
    OBVIOUS
  <2> QED
    BY <2>1, <2>2, <2>3, <2>4, <2>5 DEF Healthy
<1> QED
  BY <1>1, <1>17, <1>18, <1>19, <1>20, <1>21, Build

\* A response in any state.
LEMMA HandleRspWindow ==
  ASSUME IInv, IInv', WInv, HandleRsp
  PROVE  WInv'
<1>1. Due(Arrived(nfc).st, Head(mbox).hdr) /\ Arrived(nfc).st = nfc.st
  BY RspTaken DEF Alike
<1> QED
  BY <1>1, HandleRspUp, HandleRspStart DEF Due

\* The stack moves between the states in which it is up.
LEMMA UpMoves ==
  ASSUME NEW n, NEW d, n.st \in Up, d.st \in Up, d.conn = n.conn, SameCommand(n, d), d.q = n.q,
         d.flags = n.flags, Linked(n, d)
  PROVE  /\ Queues(n) => Queues(d)
         /\ Phase(n) => Phase(d)
         /\ \A s, x : Fits(n, s, x) => Fits(d, s, x)
<1>1. /\ n.st \notin CoreStart /\ n.st \notin Down
      /\ n.st \notin {"W4_HAL_OPEN", "W4_POST_INIT_CPLT", "W4_HAL_CLOSE", "CORE_INIT"}
      /\ d.st \notin CoreStart /\ d.st \notin Down
      /\ d.st \notin {"W4_HAL_OPEN", "W4_POST_INIT_CPLT", "W4_HAL_CLOSE", "CORE_INIT"}
  BY DEF Up, CoreStart, Down
<1>2. Queues(n) => Queues(d)
  BY <1>1 DEF Queues, SameCommand, Linked, Due
<1>3. Phase(n) => Phase(d)
  BY <1>1 DEF Phase, SameCommand, Linked
<1>4. \A s, x : Fits(n, s, x) => Fits(d, s, x)
  BY <1>1 DEF Fits, Answers, Due, SameCommand, Linked
<1> QED
  BY <1>2, <1>3, <1>4

\* The task takes a notification.
LEMMA HandleNtfWindow ==
  ASSUME IInv, IInv', WInv, HandleNtf
  PROVE  WInv'
<1> DEFINE m0 == Head(mbox)
           n  == Arrived(nfc)
           a  == [n EXCEPT !.st = "OPEN"]
           b  == [n EXCEPT !.st = "OPEN", !.listen = TRUE]
           c  == [n EXCEPT !.st = "IDLE"]
<1>1. /\ Running /\ mbox # <<>> /\ m0.type = "NTF"
      /\ mbox' = Tail(mbox) /\ ready' = ready /\ checked' = checked /\ rf' = rf /\ budget' = budget
      /\ nfc' = (IF n.nxp THEN ProcessNxpRsp(n, 0) ELSE ProcessNtf(n, m0.hdr))
  BY DEF HandleNtf
<1>2. Queues(nfc) /\ Phase(nfc) /\ Mail /\ Outside /\ Spent /\ Healthy
  BY <1>1 DEF WInv, Window
<1>3. Sound(nfc) /\ nfc \in Nfc /\ mbox \in Seq(Message) /\ nfc.halq \in Seq(Message)
  BY Types
<1>4. /\ m0 \in Message /\ m0 \in Range(mbox)
      /\ Range(Tail(mbox)) \subseteq Range(mbox) /\ Range(mbox) \subseteq {m0} \cup Range(Tail(mbox))
  BY <1>1, <1>3, RangeTail
<1>5. nfc.st \in Up /\ m0.hdr \in Notification /\ m0.hdr # "RESET"
  <2>1. nfc.st # "W4_HAL_CLOSE"
    BY <1>1, <1>2, <1>4 DEF Mail
  <2> QED
    BY <1>1, <1>2, <1>4, <2>1, MessageKinds DEF Mail, Fits, OnWay
<1>6. /\ n \in Nfc /\ Alike(nfc, n) /\ SameCommand(nfc, n) /\ n.flags = nfc.flags /\ n.q = nfc.q
  BY <1>3, ArrivedFields
<1>7. ~n.nxp
  BY <1>2, <1>6 DEF Queues, SameCommand
<1>8. nfc' = a \/ nfc' = b \/ nfc' = c
  BY <1>1, <1>5, <1>7 DEF ProcessNtf, Notification
<1> HIDE DEF m0, n
<1>9. /\ a.st = "OPEN" /\ a.conn = n.conn /\ SameCommand(n, a) /\ a.q = n.q /\ a.flags = n.flags /\ Linked(n, a)
      /\ b.st = "OPEN" /\ b.conn = n.conn /\ SameCommand(n, b) /\ b.q = n.q /\ b.flags = n.flags /\ Linked(n, b)
      /\ c.st = "IDLE" /\ c.conn = n.conn /\ SameCommand(n, c) /\ c.q = n.q /\ c.flags = n.flags /\ Linked(n, c)
  BY <1>6, Zenon DEF Nfc, SameCommand, Linked
<1> HIDE DEF a, b, c
<1>10. /\ nfc'.st \in Up /\ nfc'.conn = nfc.conn /\ SameCommand(nfc, nfc') /\ nfc'.q = nfc.q
       /\ nfc'.flags = nfc.flags /\ Linked(nfc, nfc')
  BY <1>6, <1>8, <1>9 DEF Up, Alike, SameCommand, Linked
<1>11. Queues(nfc') /\ Phase(nfc') /\ \A s, x : Fits(nfc, s, x) => Fits(nfc', s, x)
  BY <1>2, <1>5, <1>10, UpMoves
<1>12. Lined(mbox', nfc'.halq)
  BY <1>1, <1>2, <1>3, <1>10, LinedTaken DEF Mail, Linked
<1>13. OnWay' \subseteq OnWay /\ OnWay \subseteq OnWay' \cup {m0}
  BY <1>1, <1>4, <1>10 DEF OnWay, Linked
<1>14. Mail'
  <2>1. \A m \in OnWay' : Fits(nfc', ready' \/ checked', m)
    BY <1>1, <1>2, <1>11, <1>13 DEF Mail
  <2> QED
    BY <1>10, <1>12, <2>1 DEF Mail, Up
<1>15. Outside'
  BY <1>1, <1>2, <1>5, <1>10 DEF Outside, Starting, Up, Down
<1>16. Running' /\ Faultless' => Healthy'
  <2>1. ~ready /\ ~checked
    BY <1>2, <1>5 DEF Outside, Starting, Up, Down
  <2> QED
    BY <1>1, <1>2, <1>10, <1>13, <2>1 DEF Healthy, Faultless, Running, SameCommand, Linked, Up, Down
<1>17. Spent'
  BY <1>1, <1>2 DEF Spent
<1> QED
  BY <1>11, <1>14, <1>15, <1>16, <1>17, Build

\* No CORE_RESET_NTF is on its way.
LEMMA HandleResetNtfWindow ==
  ASSUME IInv, WInv
  PROVE  ~HandleResetNtf
<1> SUFFICES ASSUME HandleResetNtf
             PROVE  FALSE
  OBVIOUS
<1>1. Running /\ mbox # <<>> /\ Head(mbox).type = "NTF" /\ Head(mbox).hdr = "RESET"
  BY DEF HandleResetNtf
<1>2. Head(mbox) \in Range(mbox)
  BY <1>1, Types, RangeTail
<1> QED
  BY <1>1, <1>2 DEF WInv, Window, Mail, OnWay, Fits

\* The recovery, in a stack with no answer on its way.
LEMMA CmdTimeoutWindow ==
  ASSUME Orderly, IInv, IInv', WInv, CmdTimeout
  PROVE  WInv'
<1> DEFINE n == [nfc EXCEPT !.timer = FALSE]
           d == [n EXCEPT !.timer = FALSE, !.wire = <<>>]
<1>1. /\ Running /\ nfc.timer /\ nfc.wire = <<>> /\ ~AnswerOnItsWay
      /\ ready' = ready /\ checked' = checked /\ budget' = budget
  BY DEF CmdTimeout, Orderly
<1>2. PICK discovering \in BOOLEAN, ok \in BOOLEAN :
        /\ n.open \/ ~ok
        /\ nfc' = CmdTimeoutRecovery(n)
        /\ mbox' = mbox \o RecoveryPost(n, discovering, ok)
        /\ rf' = (IF discovering /\ ok THEN "discovery" ELSE "idle")
  BY DEF CmdTimeout, Recover
<1>3. Queues(nfc) /\ Phase(nfc) /\ Mail /\ Outside /\ Spent /\ Healthy
  BY <1>1 DEF WInv, Window
<1>4. Sound(nfc) /\ nfc \in Nfc /\ mbox \in Seq(Message) /\ nfc.halq \in Seq(Message)
  BY Types
<1>5. SUFFICES ASSUME nfc'.st # "CRASHED"
               PROVE  WInv'
  BY <1>1, <1>3, Build DEF Running, Spent
<1>6. <<>> \in Seq(Command)
  OBVIOUS
<1>7. /\ n \in Nfc /\ Alike(nfc, n) /\ n.flags = nfc.flags /\ n.q = nfc.q /\ n.last = nfc.last
      /\ n.window = nfc.window /\ n.cback = nfc.cback /\ n.nxp = nfc.nxp
  BY <1>4, Zenon DEF Nfc, Alike
<1> HIDE DEF n
<1>8. n.conn /\ nfc' = d
  <2>1. [n EXCEPT !.st = "CRASHED"].st = "CRASHED"
    BY <1>7, Zenon DEF Nfc
  <2> QED
    BY <1>2, <1>5, <2>1 DEF CmdTimeoutRecovery
<1>9. /\ Alike(n, d) /\ d.flags = n.flags /\ d.q = n.q /\ d.last = n.last
      /\ d.window = n.window /\ d.cback = n.cback /\ d.nxp = n.nxp
      /\ d.timer = FALSE /\ d.wire = <<>>
  BY <1>6, <1>7, Zenon DEF Nfc, Alike
<1> HIDE DEF d
<1>10. /\ Alike(nfc, nfc') /\ nfc'.flags = nfc.flags /\ nfc'.q = nfc.q /\ nfc'.last = nfc.last
       /\ nfc'.window = nfc.window /\ nfc'.cback = nfc.cback /\ nfc'.nxp = nfc.nxp
       /\ ~nfc'.timer /\ nfc'.wire = <<>>
  BY <1>7, <1>8, <1>9 DEF Alike
<1>11. nfc.window = 0 /\ nfc.st \in Up /\ nfc.tml /\ nfc.last.hdr \notin CoreStart /\ ~ready /\ ~checked
  <2>1. nfc.window = 0 /\ nfc.st \in Up
    BY <1>1, <1>3, <1>7, <1>8 DEF Queues, Phase, Alike
  <2> QED
    BY <1>3, <2>1 DEF Phase, Outside
<1>12. nfc.st \notin {"W4_HAL_OPEN", "W4_POST_INIT_CPLT", "W4_HAL_CLOSE", "CORE_INIT"} /\ nfc.st \notin Down
  BY <1>11 DEF Up, Down
<1>13. \A m \in OnWay : m.type # "RSP" /\ m.hdr \notin {"OPEN_CPLT", "OPEN_FAILED", "CLOSE_CPLT"}
                        /\ (m.hdr = "ERROR" => ~nfc.open)
  <2> SUFFICES ASSUME NEW m \in OnWay
               PROVE  m.type # "RSP" /\ m.hdr \notin {"OPEN_CPLT", "OPEN_FAILED", "CLOSE_CPLT"}
                      /\ (m.hdr = "ERROR" => ~nfc.open)
    OBVIOUS
  <2>1. Fits(nfc, FALSE, m)
    BY <1>3, <1>11 DEF Mail
  <2>2. m.type = "RSP" => m.hdr = nfc.last.hdr
    BY <1>1, <1>12, <2>1 DEF Fits, Answers
  <2>3. m.type # "RSP"
    BY <1>1, <2>2 DEF AnswerOnItsWay, OnWay, Range
  <2> QED
    BY <1>11, <1>12, <2>1, <2>3 DEF Fits
<1>14. ~Faultless
  BY <1>1, <1>3, <1>11, <1>13 DEF Healthy
<1>15. Queues(nfc')
  BY <1>3, <1>10 DEF Queues
<1>16. Phase(nfc')
  BY <1>3, <1>10 DEF Phase, Alike
<1>17. \A m \in OnWay : Fits(nfc', FALSE, m)
  BY <1>3, <1>10, <1>11, <1>13 DEF Mail, Fits, Alike
<1>18. Outside'
  BY <1>1, <1>2, <1>10, <1>11 DEF Outside, Alike
<1>19. Spent' /\ ~Faultless'
  BY <1>1, <1>3, <1>14 DEF Spent, Faultless
<1>20. nfc'.halq = nfc.halq /\ nfc'.st = nfc.st
  BY <1>10 DEF Alike
<1>21. CASE RecoveryPost(n, discovering, ok) = <<>>
  <2>1. mbox' = mbox
    BY <1>2, <1>4, <1>21
  <2>2. OnWay' = OnWay
    BY <1>20, <2>1 DEF OnWay
  <2>3. Mail'
    BY <1>1, <1>3, <1>11, <1>12, <1>17, <1>20, <2>1, <2>2 DEF Mail
  <2> QED
    BY <1>15, <1>16, <1>18, <1>19, <2>3, Build
<1>22. CASE RecoveryPost(n, discovering, ok) # <<>>
  <2> DEFINE x == RecoveryAnswer(n, discovering)
  <2>1. ok /\ RecoveryPost(n, discovering, ok) = <<x>>
    BY <1>22 DEF RecoveryPost
  <2>2. nfc.open
    BY <1>2, <1>7, <2>1 DEF Alike
  <2>3. /\ x.type = "RSP" /\ x.res = "ok"
        /\ \/ x.hdr \in {"DISCOVER", "SCREEN"} /\ nfc.last.hdr = "DEACTIVATE"
           \/ x.hdr = nfc.last.hdr /\ x.id = nfc.last.id
    BY <1>7 DEF RecoveryAnswer, Rsp
  <2>4. x \in Message
    <3>1. nfc.last.hdr \in Header /\ nfc.last.id \in Nat
      <4>1. nfc.last \in Command
        BY <1>4, Fields
      <4> QED
        BY <4>1 DEF Command
    <3>2. PICK h \in Header, i \in Nat : x = Rsp(h, i, "ok")
      <4>1. "DISCOVER" \in Header /\ "SCREEN" \in Header /\ 0 \in Nat
        BY DEF Header
      <4> QED
        BY <1>7, <3>1, <4>1 DEF RecoveryAnswer
    <3> HIDE DEF x
    <3>3. Rsp(h, i, "ok") \in Message
      BY DEF Message, Rsp, Result
    <3> QED
      BY <3>2, <3>3
  <2> HIDE DEF x
  <2>5. mbox' = Append(mbox, x)
    BY <1>2, <1>4, <2>1, <2>4, AppendOne
  <2>6. \A m \in OnWay : Before(m, x) /\ Before(x, m)
    BY <1>13, <2>2, <2>3, <2>4, MessageKinds DEF Before, HalEvent
  <2>7. Lined(mbox', nfc'.halq)
    BY <1>3, <1>4, <1>20, <2>4, <2>5, <2>6, LinedAdded DEF Mail, OnWay
  <2>8. OnWay' = OnWay \cup {x}
    BY <1>4, <1>20, <2>4, <2>5, RangeAppend DEF OnWay
  <2>9. Fits(nfc', FALSE, x)
    <3>1. x.hdr \notin CoreStart /\ x.hdr \in Header
      BY <1>11, <2>3, <2>4, MessageKinds DEF CoreStart
    <3> QED
      BY <1>10, <1>11, <1>20, <2>3, <3>1 DEF Fits, Alike, Due, Answers, Header
  <2>10. Mail'
    BY <1>1, <1>11, <1>12, <1>17, <1>20, <2>7, <2>8, <2>9 DEF Mail
  <2> QED
    BY <1>15, <1>16, <1>18, <1>19, <2>10, Build
<1> QED
  BY <1>21, <1>22

\* A HAL event that is handled, and what stays on its way.
HalTaken(e) ==
  /\ e \in Message /\ e \in OnWay /\ e.type = "HAL" /\ e.hdr \in HalEvent \ {"OPEN_CPLT"}
  /\ mbox' = Tail(mbox) /\ ready' = ready /\ checked' = checked /\ rf' = rf /\ budget' = budget
  /\ nfc' = HandleHalEvt(nfc, e.hdr)
  /\ Queues(nfc) /\ Phase(nfc) /\ Mail /\ Outside /\ Spent /\ Healthy /\ Running
  /\ Fits(nfc, ready \/ checked, e)
  /\ Lined(mbox', nfc.halq) /\ mbox' \in Seq(Message)
  /\ Range(mbox') \subseteq Range(mbox) /\ Range(mbox) \subseteq {e} \cup Range(mbox')
  /\ \A m \in Range(mbox') \cup Range(nfc.halq) : Before(e, m) /\ m \in OnWay

\* The task takes a HAL event.
LEMMA HalIsTaken ==
  ASSUME IInv, WInv, HandleHal
  PROVE  HalTaken(Head(mbox))
<1> DEFINE e == Head(mbox)
<1>1. /\ Running /\ mbox # <<>> /\ e.type = "HAL"
      /\ mbox' = Tail(mbox) /\ ready' = ready /\ checked' = checked /\ rf' = rf /\ budget' = budget
      /\ nfc' = HandleHalEvt(nfc, e.hdr)
  BY DEF HandleHal
<1>2. Queues(nfc) /\ Phase(nfc) /\ Mail /\ Outside /\ Spent /\ Healthy
  BY <1>1 DEF WInv, Window
<1>3. Sound(nfc) /\ nfc \in Nfc /\ mbox \in Seq(Message) /\ nfc.halq \in Seq(Message)
      /\ Range(mbox) \subseteq Posted
  BY Types
<1>4. /\ e \in Message /\ e \in Range(mbox) /\ Tail(mbox) \in Seq(Message)
      /\ Range(Tail(mbox)) \subseteq Range(mbox) /\ Range(mbox) \subseteq {e} \cup Range(Tail(mbox))
  BY <1>1, <1>3, RangeTail
<1>5. e.hdr \in HalEvent \ {"OPEN_CPLT"} /\ e \in OnWay
  <2>1. e \in Posted
    BY <1>3, <1>4
  <2> QED
    BY <1>1, <1>4, <2>1, PostedFields DEF OnWay
<1>6. Fits(nfc, ready \/ checked, e)
  BY <1>2, <1>5 DEF Mail
<1>7. Lined(mbox', nfc.halq) /\ \A m \in Range(mbox') \cup Range(nfc.halq) : Before(e, m) /\ m \in OnWay
  BY <1>1, <1>2, <1>3, <1>4, LinedTaken DEF Mail, OnWay
<1> HIDE DEF e
<1>8. HalTaken(e)
  BY <1>1, <1>2, <1>4, <1>5, <1>6, <1>7 DEF HalTaken
<1> QED
  BY <1>8 DEF e

\* phNxpNciHal_open has failed.
LEMMA HandleOpenFailed ==
  ASSUME IInv, WInv, NEW e, HalTaken(e), e.hdr = "OPEN_FAILED"
  PROVE  WInv'
<1>1. /\ Queues(nfc) /\ Phase(nfc) /\ Mail /\ Outside /\ Spent /\ Healthy /\ Running
      /\ mbox' = Tail(mbox) /\ ready' = ready /\ checked' = checked /\ rf' = rf /\ budget' = budget
      /\ Lined(mbox', nfc.halq) /\ nfc \in Nfc /\ nfc.conn \in BOOLEAN
  BY Types, Fields DEF HalTaken
<1>2. ~nfc.open /\ ~ready /\ ~checked /\ nfc.st \in Down \cup {"W4_HAL_OPEN"}
      /\ (~nfc.tml => nfc.st = "W4_HAL_OPEN")
  BY DEF HalTaken, Fits
<1>3. nfc.st \notin Up /\ nfc.st \notin {"W4_POST_INIT_CPLT", "W4_HAL_CLOSE", "CORE_INIT"}
  BY <1>2 DEF Up, Down
<1>4. nfc' = EnabledFailed(nfc)
  BY DEF HalTaken, HandleHalEvt
<1>5. SUFFICES ASSUME nfc'.st # "CRASHED"
               PROVE  WInv'
  BY <1>1, Build DEF Running, Spent
<1>6. /\ Untouched(nfc, nfc') /\ nfc'.flags \subseteq nfc.flags \cup {"POWER_OFF_SLEEP"}
      /\ nfc'.st \in Down /\ ~nfc'.conn /\ Linked(nfc, nfc')
  <2>1. ~nfc.conn
    BY <1>1, <1>3 DEF Phase
  <2> QED
    BY <1>1, <1>3, <1>4, <1>5, <2>1, EnabledFailedFields DEF Down
<1>7. nfc'.st \notin Up /\ nfc'.st \notin {"W4_HAL_OPEN", "W4_POST_INIT_CPLT", "W4_HAL_CLOSE", "CORE_INIT"}
  BY <1>6 DEF Up, Down
<1>8. nfc.wire = <<>>
  BY <1>1, <1>2 DEF Queues
<1>9. Queues(nfc')
  BY <1>1, <1>6, <1>8 DEF Queues, Untouched, Linked
<1>10. Phase(nfc')
  BY <1>1, <1>2, <1>3, <1>6, <1>7 DEF Phase, Untouched, Linked, Down
<1>11. OnWay' = Range(mbox') \cup Range(nfc.halq)
  BY <1>6 DEF OnWay, Linked
<1>12. ~nfc.tml => OnWay' = {}
  <2> SUFFICES ASSUME ~nfc.tml, NEW m \in OnWay'
               PROVE  FALSE
    OBVIOUS
  <2>1. nfc.halq = <<>> /\ Len(mbox) <= 1
    BY <1>1, <1>2 DEF Mail
  <2>2. mbox \in Seq(Message)
    BY Types
  <2>3. mbox' = <<>>
    BY <1>1, <2>1, <2>2
  <2> QED
    BY <1>11, <2>1, <2>3, LinedEmpty
<1>13. Mail'
  <2>1. ASSUME NEW m \in OnWay'
        PROVE  Fits(nfc', ready' \/ checked', m)
    <3>1. m \in OnWay /\ Before(e, m) /\ e.hdr = "OPEN_FAILED"
      BY <1>11 DEF HalTaken
    <3>2. Fits(nfc, FALSE, m) /\ m.type # "RSP" /\ m.hdr # "OPEN_CPLT" /\ nfc.tml
      BY <1>1, <1>2, <1>12, <3>1 DEF Mail, Before
    <3> QED
      BY <1>1, <1>2, <1>3, <1>6, <3>2 DEF Fits, Linked
  <2> QED
    BY <1>1, <1>6, <1>7, <2>1 DEF Mail, Linked
<1>14. Outside'
  BY <1>1, <1>2, <1>3 DEF Outside
<1>15. Running' /\ Faultless' => Healthy'
  <2> SUFFICES ASSUME Faultless
               PROVE  Healthy'
    BY <1>1 DEF Faultless
  <2>1. ~nfc.tml /\ nfc.window = 1
    BY <1>1, <1>2 DEF Healthy, Phase
  <2> QED
    BY <1>1, <1>2, <1>6, <1>7, <1>12, <2>1 DEF Healthy, Linked, Untouched
<1> QED
  BY <1>1, <1>9, <1>10, <1>13, <1>14, <1>15, Build DEF Spent

\* The bus has failed.
LEMMA HandleError ==
  ASSUME IInv, IInv', WInv, NEW e, HalTaken(e), e.hdr = "ERROR"
  PROVE  WInv'
<1> DEFINE x == Hal("CLOSE_CPLT")
<1>1. /\ Queues(nfc) /\ Phase(nfc) /\ Mail /\ Outside /\ Spent /\ Healthy /\ Running
      /\ mbox' = Tail(mbox) /\ ready' = ready /\ checked' = checked /\ rf' = rf /\ budget' = budget
      /\ Lined(mbox', nfc.halq) /\ mbox' \in Seq(Message)
      /\ nfc \in Nfc /\ nfc.halq \in Seq(Message) /\ nfc.conn \in BOOLEAN /\ nfc.tml \in BOOLEAN
  BY Types, Fields DEF HalTaken
<1>2. /\ ~nfc.open /\ e \in OnWay
      /\ ~nfc.tml => nfc.st \notin Down /\ nfc.st # "W4_HAL_OPEN"
                     /\ (nfc.st = "CORE_INIT" => "RESTARTING" \notin nfc.flags)
  BY DEF HalTaken, Fits
<1>3. nfc.wire = <<>> /\ ~Faultless
  BY <1>1, <1>2 DEF Queues, Healthy, HalTaken
<1>4. \A m \in Range(mbox') \cup Range(nfc.halq) :
        /\ m \in OnWay /\ m.type # "RSP" /\ m.hdr # "OPEN_CPLT"
        /\ Fits(nfc, ready \/ checked, m)
  BY <1>1 DEF HalTaken, Before, Mail
<1>5. nfc' = IF nfc.st \in BeforeIdle THEN EnabledFailed(nfc) ELSE nfc
  BY DEF HalTaken, HandleHalEvt
<1>6. Spent' /\ ~Faultless'
  BY <1>1, <1>3 DEF Spent, Faultless
<1>7. SUFFICES ASSUME nfc'.st # "CRASHED"
               PROVE  WInv'
  BY <1>6, Build DEF Running
<1>8. CASE nfc.st \notin BeforeIdle
  <2>1. nfc' = nfc
    BY <1>5, <1>8
  <2>2. OnWay' = Range(mbox') \cup Range(nfc.halq)
    BY <2>1 DEF OnWay
  <2>3. Mail'
    <3>1. nfc.st # "W4_HAL_OPEN"
      BY <1>8 DEF BeforeIdle
    <3> QED
      BY <1>1, <1>4, <2>1, <2>2, <3>1 DEF Mail, HalTaken
  <2> QED
    BY <1>1, <1>6, <2>1, <2>3, Build DEF Outside
<1>9. ASSUME nfc.st \in BeforeIdle
      PROVE  WInv'
  <2>1. /\ ~nfc.conn /\ nfc.st \notin Up /\ nfc.st # "W4_HAL_CLOSE"
        /\ nfc.st = "W4_POST_INIT_CPLT" => nfc.tml
    BY <1>1, <1>9 DEF Phase, BeforeIdle, Up
  <2>2. /\ Untouched(nfc, nfc') /\ nfc'.flags \subseteq nfc.flags \cup {"POWER_OFF_SLEEP"} /\ ~nfc'.conn
        /\ \/ nfc'.st \in Down /\ Linked(nfc, nfc')
              /\ (nfc.st = "CORE_INIT" => "RESTARTING" \in nfc.flags)
           \/ /\ "RESTARTING" \notin nfc.flags /\ nfc.st = "CORE_INIT" /\ nfc'.st = "CORE_INIT"
              /\ nfc.tml /\ Closed(nfc, nfc') /\ nfc'.flags = nfc.flags
    BY <1>1, <1>5, <1>7, <1>9, <2>1, EnabledFailedFields DEF Down
  <2>3. /\ ~nfc'.open /\ nfc'.wire = <<>> /\ nfc'.st \in Down \cup {"CORE_INIT"}
        /\ nfc'.st \notin Up /\ nfc'.st \notin {"W4_HAL_OPEN", "W4_POST_INIT_CPLT", "W4_HAL_CLOSE"}
    BY <1>2, <1>3, <2>2 DEF Linked, Closed, Down, Up
  <2>4. nfc.tml
    BY <1>2, <1>9, <2>1, <2>2 DEF BeforeIdle, Down
  <2>5. nfc'.st \in Down => nfc'.tml
    BY <2>2, <2>4 DEF Linked, Closed, Down
  <2>6. Queues(nfc')
    BY <1>1, <2>2, <2>3 DEF Queues, Untouched
  <2>7. Phase(nfc')
    BY <1>1, <2>1, <2>2, <2>3, <2>5 DEF Phase, Untouched, Down
  <2>8. Outside'
    BY <1>1, <2>1, <2>2, <2>3 DEF Outside, Untouched, Starting
  <2>9. ASSUME NEW m \in Range(mbox') \cup Range(nfc.halq)
        PROVE  Fits(nfc', ready' \/ checked', m)
    <3>1. m.type # "RSP" /\ m.hdr # "OPEN_CPLT" /\ Fits(nfc, ready \/ checked, m)
      BY <1>4
    <3>2. m.type # "NTF"
      BY <2>1, <3>1 DEF Fits
    <3>3. m.hdr # "CLOSE_CPLT"
      BY <2>4, <3>1 DEF Fits
    <3>4. m.hdr = "OPEN_FAILED" => ~ready' /\ ~checked' /\ nfc'.st \in Down
      BY <1>1, <2>2, <3>1 DEF Fits, Down
    <3>5. ~nfc'.tml => nfc'.st = "CORE_INIT" /\ "RESTARTING" \notin nfc'.flags
      BY <2>2, <2>3, <2>4, <2>5 DEF Linked
    <3> QED
      BY <2>3, <3>1, <3>2, <3>3, <3>4, <3>5 DEF Fits, Down
  <2>10. Mail'
    <3>1. CASE Linked(nfc, nfc')
      <4>1. OnWay' = Range(mbox') \cup Range(nfc.halq) /\ nfc'.halq = nfc.halq
        BY <3>1 DEF OnWay, Linked
      <4> QED
        BY <1>1, <2>3, <2>9, <4>1 DEF Mail
    <3>2. CASE Closed(nfc, nfc') /\ nfc'.flags = nfc.flags /\ nfc'.st = "CORE_INIT"
               /\ "RESTARTING" \notin nfc.flags
      <4>1. x \in Message /\ x.type = "HAL" /\ x.hdr = "CLOSE_CPLT"
        BY HalMessage DEF Hal, HalEvent
      <4>2. nfc'.halq = Append(nfc.halq, x) /\ ~nfc'.tml
        BY <3>2 DEF Closed
      <4> HIDE DEF x
      <4>3. \A m \in Range(mbox') \cup Range(nfc.halq) : Before(m, x)
        BY <1>4, <2>4, <4>1 DEF Before, Fits
      <4>4. Lined(mbox', nfc'.halq)
        BY <1>1, <4>1, <4>2, <4>3, LinedAdded
      <4>5. OnWay' = Range(mbox') \cup Range(nfc.halq) \cup {x}
        BY <1>1, <4>1, <4>2, RangeAppend DEF OnWay
      <4>6. Fits(nfc', ready' \/ checked', x)
        BY <3>2, <4>1, <4>2 DEF Fits, Down
      <4> QED
        BY <2>3, <2>9, <4>4, <4>5, <4>6 DEF Mail
    <3> QED
      BY <2>2, <3>1, <3>2
  <2> QED
    BY <1>6, <2>6, <2>7, <2>8, <2>10, Build
<1> QED
  BY <1>8, <1>9

\* What the task does when the HAL has closed.
LEMMA CloseFields ==
  ASSUME NEW n, n \in Nfc, NEW m, m = HandleHalEvt(n, "CLOSE_CPLT")
  PROVE  \/ m = n
         \/ /\ Untouched(n, m) /\ Linked(n, m) /\ m.conn = n.conn /\ m.st \in Down
            /\ m.flags \subseteq n.flags \cup {"POWER_OFF_SLEEP"}
<1> DEFINE fl  == n.flags \ {"POWER_OFF_SLEEP"}
           off == [n EXCEPT !.flags = fl, !.st = "NFCC_POWER_OFF_SLEEP"]
           non == [n EXCEPT !.st = "NONE"]
           rep == Report(non, "DISABLE")
           end == [rep EXCEPT !.resp = FALSE]
<1>1. \/ m = n
      \/ m = NotifyEnableStatus(non, FALSE)
      \/ m = Report(off, "POWER_OFF")
      \/ m = end
  BY DEF HandleHalEvt
<1>2. fl \in SUBSET Flag /\ "NONE" \in State /\ "NFCC_POWER_OFF_SLEEP" \in State
  <2>1. n.flags \in SUBSET Flag
    BY Zenon DEF Nfc
  <2> QED
    BY <2>1 DEF State
<1>3. fl \subseteq n.flags
  OBVIOUS
<1> HIDE DEF fl
<1>4. /\ off \in Nfc /\ off.st = "NFCC_POWER_OFF_SLEEP" /\ off.flags = fl /\ off.conn = n.conn
      /\ Untouched(n, off) /\ Linked(n, off)
      /\ non \in Nfc /\ non.st = "NONE" /\ non.flags = n.flags /\ non.conn = n.conn
      /\ Untouched(n, non) /\ Linked(n, non)
  BY <1>2, Zenon DEF Nfc, Untouched, Linked
<1> HIDE DEF off, non
<1>5. "POWER_OFF" \in Event /\ "DISABLE" \in Event
  BY DEF Event
<1>6. CASE m = NotifyEnableStatus(non, FALSE)
  <2>1. /\ Untouched(non, m) /\ Linked(non, m) /\ m.st = non.st /\ m.conn = non.conn
        /\ m.flags \subseteq non.flags \cup {"POWER_OFF_SLEEP"}
    BY <1>4, <1>6, NotifyTells
  <2> QED
    BY <1>4, <2>1 DEF Untouched, Linked, Down
<1>7. CASE m = Report(off, "POWER_OFF")
  <2>1. /\ Untouched(off, m) /\ Linked(off, m)
        /\ m.st = off.st /\ m.conn = off.conn /\ m.flags = off.flags
    BY <1>4, <1>5, <1>7, ReportTells
  <2> QED
    BY <1>3, <1>4, <2>1 DEF Untouched, Linked, Down
<1>8. CASE m = end
  <2>1. /\ Untouched(non, rep) /\ Linked(non, rep) /\ rep \in Nfc
        /\ rep.st = non.st /\ rep.conn = non.conn /\ rep.flags = non.flags
    BY <1>4, <1>5, ReportTells
  <2> HIDE DEF rep
  <2>2. /\ Untouched(rep, end) /\ Linked(rep, end) /\ end.st = rep.st /\ end.conn = rep.conn
        /\ end.flags = rep.flags
    BY <2>1, Zenon DEF Nfc, Untouched, Linked
  <2> HIDE DEF end
  <2>3. Untouched(n, end) /\ Linked(n, end)
    BY <1>4, <2>1, <2>2 DEF Untouched, Linked
  <2>4. end.conn = n.conn /\ end.st = "NONE" /\ end.flags = n.flags
    BY <1>4, <2>1, <2>2
  <2> QED
    BY <1>8, <2>3, <2>4 DEF Down
<1> QED
  BY <1>1, <1>6, <1>7, <1>8

\* The HAL has closed: nothing else is on its way.
LEMMA HandleClosed ==
  ASSUME IInv, WInv, NEW e, HalTaken(e), e.hdr = "CLOSE_CPLT"
  PROVE  WInv'
<1>1. /\ Queues(nfc) /\ Phase(nfc) /\ Mail /\ Outside /\ Spent /\ Healthy /\ Running
      /\ ready' = ready /\ checked' = checked /\ rf' = rf /\ budget' = budget
      /\ nfc \in Nfc /\ nfc.halq \in Seq(Message) /\ mbox' \in Seq(Message)
      /\ nfc' = HandleHalEvt(nfc, "CLOSE_CPLT")
  BY Types DEF HalTaken
<1>2. /\ ~nfc.tml /\ nfc.st \notin Down /\ nfc.st # "W4_HAL_OPEN" /\ e.hdr # "OPEN_FAILED"
  BY DEF HalTaken, Fits
<1>3. mbox' = <<>> /\ nfc.halq = <<>>
  <2>1. \A m \in Range(mbox') \cup Range(nfc.halq) : FALSE
    BY DEF HalTaken, Before
  <2> QED
    BY <1>1, <2>1, RangeEmpty
<1>4. nfc.st \notin Up /\ ~nfc.conn /\ ~nfc.open /\ nfc.wire = <<>> /\ nfc.st # "W4_POST_INIT_CPLT"
  BY <1>1, <1>2 DEF Phase, Queues
<1>5. nfc.st = "W4_HAL_CLOSE" \/ nfc.st = "CORE_INIT"
  <2>1. nfc.st \in State
    BY Types, Fields
  <2> QED
    BY <1>1, <1>2, <1>4, <2>1 DEF State, Up, Down, Running
<1>6. \/ nfc' = nfc
      \/ /\ Untouched(nfc, nfc') /\ Linked(nfc, nfc') /\ nfc'.conn = nfc.conn /\ nfc'.st \in Down
         /\ nfc'.flags \subseteq nfc.flags \cup {"POWER_OFF_SLEEP"}
  BY <1>1, CloseFields
<1>7. nfc.st = "CORE_INIT" => ~Faultless
  BY <1>1, <1>2 DEF Healthy
<1>8. CASE nfc' = nfc
  <2>1. Mail' /\ OnWay' = {}
    BY <1>2, <1>3, <1>8, LinedEmpty DEF Mail, OnWay
  <2>2. Running' /\ Faultless' => Healthy'
    BY <1>1, <1>2, <1>5, <1>7, <1>8, <2>1 DEF Healthy, Faultless, Phase, Outside, Starting, Down
  <2> QED
    BY <1>1, <1>8, <2>1, <2>2, Build DEF Outside, Spent
<1>9. ASSUME /\ Untouched(nfc, nfc') /\ Linked(nfc, nfc') /\ nfc'.conn = nfc.conn /\ nfc'.st \in Down
             /\ nfc'.flags \subseteq nfc.flags \cup {"POWER_OFF_SLEEP"}
      PROVE  WInv'
  <2>1. /\ nfc'.halq = <<>> /\ ~nfc'.tml /\ ~nfc'.open /\ nfc'.wire = <<>> /\ ~nfc'.conn
        /\ nfc'.st \notin Up /\ nfc'.st \notin {"W4_HAL_OPEN", "W4_POST_INIT_CPLT", "W4_HAL_CLOSE", "CORE_INIT"}
    BY <1>2, <1>3, <1>4, <1>9 DEF Linked, Up, Down
  <2>2. Mail' /\ OnWay' = {}
    BY <1>3, <2>1, LinedEmpty DEF Mail, OnWay
  <2>3. Queues(nfc')
    BY <1>1, <1>9, <2>1 DEF Queues, Untouched
  <2>4. nfc'.st = "NFCC_POWER_OFF_SLEEP" => nfc'.window = 1
    <3>1. CASE nfc.st = "W4_HAL_CLOSE"
      BY <1>1, <1>9, <3>1 DEF Phase, Untouched
    <3>2. CASE nfc.st = "CORE_INIT"
      <4> DEFINE non == [nfc EXCEPT !.st = "NONE"]
      <4>1. non.st = "NONE" /\ non \in Nfc
        <5>1. "NONE" \in State
          BY DEF State
        <5> QED
          BY <1>1, <5>1, Zenon DEF Nfc
      <4>2. nfc' = nfc \/ nfc' = NotifyEnableStatus(non, FALSE)
        BY <1>1, <3>2 DEF HandleHalEvt
      <4> HIDE DEF non
      <4>3. nfc'.st # "NFCC_POWER_OFF_SLEEP"
        BY <3>2, <4>1, <4>2, NotifyTells
      <4> QED
        BY <4>3
    <3> QED
      BY <1>5, <3>1, <3>2
  <2>5. Phase(nfc')
    BY <1>1, <1>4, <1>9, <2>1, <2>4 DEF Phase, Untouched
  <2>6. Outside'
    BY <1>1, <1>4, <1>9 DEF Outside, Untouched, Starting
  <2>7. Running' /\ Faultless' => Healthy'
    BY <1>1, <1>2, <1>5, <1>7, <1>9, <2>1, <2>2
       DEF Healthy, Faultless, Phase, Outside, Starting, Down, Untouched
  <2> QED
    BY <1>1, <2>2, <2>3, <2>5, <2>6, <2>7, Build DEF Spent
<1> QED
  BY <1>6, <1>8, <1>9

\* nfc_enabled: the RF interfaces are mapped and the stack is up.
LEMMA EnabledOkFields ==
  ASSUME NEW n, Sound(n), Queues(n), Phase(n), n.st = "W4_POST_INIT_CPLT", NEW m, m = EnabledOk(n)
  PROVE  /\ Queues(m) /\ Phase(m) /\ m.st = "IDLE" /\ m.window = 0 /\ m.timer
         /\ n.open => m.wire # <<>>
         /\ m.open = n.open /\ m.tml = n.tml /\ m.halq = n.halq /\ m.reports = n.reports
         /\ m \in Nfc
<1> DEFINE o == [n EXCEPT !.st = "IDLE", !.conn = TRUE]
           c == [id |-> o.next, hdr |-> "DISCOVER_MAP", kind |-> "plain"]
           s == SendCmd(o, "DISCOVER_MAP")
<1>0. n \in Nfc /\ "IDLE" \in State /\ "DISCOVER_MAP" \in Header
  BY Fields DEF State, Header
<1>1. m = NotifyEnableStatus(s, TRUE)
  BY DEF EnabledOk
<1>2. /\ o \in Nfc /\ o.st = "IDLE" /\ o.conn = TRUE /\ SameCommand(n, o) /\ o.q = n.q
      /\ o.flags = n.flags /\ Linked(n, o) /\ o.reports = n.reports
  BY <1>0, Zenon DEF Nfc, SameCommand, Linked
<1> HIDE DEF o
<1>3. Sound(o) /\ o.next \in Nat
  <2>1. Sound(o)
    BY <1>2 DEF Sound, SameCommand
  <2> QED
    BY <2>1, Fields
<1>4. n.window = 1 /\ n.tml /\ n.q = <<>> /\ n.wire = <<>>
  BY DEF Phase, Queues, Up
<1>5. Queues(o) /\ Phase(o) /\ o.st \in Up /\ o.window = 1 /\ o.q = <<>> /\ o.wire = <<>>
  <2>1. o.st \in Up /\ o.window = 1 /\ o.q = <<>> /\ o.wire = <<>> /\ o.tml
    BY <1>2, <1>4 DEF Up, SameCommand, Linked
  <2>2. Queues(o)
    BY <1>2, <1>4, <2>1 DEF Queues, SameCommand
  <2>3. Phase(o)
    BY <1>2, <1>4, <2>1 DEF Phase, SameCommand, Linked, Up
  <2> QED
    BY <2>1, <2>2, <2>3
<1>6. /\ c \in Command /\ c.kind = "plain" /\ c.hdr = "DISCOVER_MAP" /\ <<c>> \in Seq(Command)
      /\ \A x \in Range(<<c>>) : x = c
  <2>1. c \in Command
    BY <1>0, <1>3 DEF Command
  <2> HIDE DEF c
  <2>2. Append(<<>>, c) = <<c>>
    OBVIOUS
  <2>3. Range(Append(<<>>, c)) = Range(<<>>) \cup {c} /\ Append(<<>>, c) \in Seq(Command)
    BY <2>1, RangeAppend, EmptyCommands
  <2> QED
    BY <2>1, <2>2, <2>3, LinedEmpty DEF c
<1>7. Sends(o, s, <<c>>)
  <2>1. o.q \o NewCommand(o, "DISCOVER_MAP", "plain") = <<c>>
    BY <1>5 DEF NewCommand
  <2> QED
    BY <1>0, <1>3, <2>1, SendCmdSends
<1> HIDE DEF c
<1>8. Consistent(s) /\ s \in Nfc
  <2>1. Consistent(s)
    BY <1>0, <1>3, SendCmdSound
  <2> QED
    BY <2>1 DEF Consistent, Sound
<1> HIDE DEF s
<1>9. Queues(s) /\ Phase(s)
  BY <1>3, <1>5, <1>6, <1>7, UpSends DEF Regular, CoreStart
<1>10. Alike(o, s) /\ Goes(o, s) /\ s.last = c
  BY <1>3, <1>5, <1>6, <1>7, LoneCommand
<1>11. s.open => s.wire # <<>>
  <2>1. Append(<<>>, c) # <<>>
    OBVIOUS
  <2> QED
    BY <1>5, <1>10, <2>1 DEF Goes, Alike
<1>12. /\ Untouched(s, m) /\ Linked(s, m) /\ m.st = s.st /\ m.conn = s.conn
       /\ m.flags \subseteq s.flags \cup {"POWER_OFF_SLEEP"} /\ m \in Nfc
  <2>1. Consistent(m)
    BY <1>1, <1>8, NotifyEnableStatusSound
  <2>2. m \in Nfc
    BY <2>1 DEF Consistent, Sound
  <2> QED
    BY <1>1, <1>8, <2>2, NotifyTells
<1>13. s.st = "IDLE" /\ s.window = 0 /\ s.timer /\ s.open = n.open /\ s.tml = n.tml /\ s.halq = n.halq
       /\ s.reports = n.reports
  BY <1>2, <1>10 DEF Alike, Goes, Linked
<1>14. Queues(m)
  BY <1>9, <1>12 DEF Queues, Untouched, Linked
<1>15. Phase(m)
  BY <1>9, <1>12, <1>13 DEF Phase, Untouched, Linked, Up
<1> QED
  BY <1>11, <1>12, <1>13, <1>14, <1>15 DEF Untouched, Linked

\* The HAL has done its post-initialisation.
LEMMA HandlePostInit ==
  ASSUME IInv, WInv, NEW e, HalTaken(e), e.hdr = "POST_INIT_CPLT"
  PROVE  WInv'
<1> DEFINE go == nfc.init /\ nfc.st = "W4_POST_INIT_CPLT"
           c  == IF go THEN EnabledOk(nfc) ELSE nfc
           d  == [c EXCEPT !.init = FALSE]
<1>1. /\ Queues(nfc) /\ Phase(nfc) /\ Mail /\ Outside /\ Spent /\ Healthy /\ Running
      /\ mbox' = Tail(mbox) /\ ready' = ready /\ checked' = checked /\ rf' = rf /\ budget' = budget
      /\ Lined(mbox', nfc.halq) /\ mbox' \in Seq(Message) /\ Range(mbox') \subseteq Range(mbox)
      /\ Range(mbox) \subseteq {e} \cup Range(mbox') /\ e.type = "HAL"
      /\ nfc \in Nfc /\ Sound(nfc) /\ mbox \in Seq(Message)
  BY Types DEF HalTaken
<1>2. nfc' = d
  BY DEF HalTaken, HandleHalEvt
<1>3. go => /\ Queues(c) /\ Phase(c) /\ c.st = "IDLE" /\ c.window = 0 /\ c.timer
            /\ nfc.open => c.wire # <<>>
            /\ c.open = nfc.open /\ c.tml = nfc.tml /\ c.halq = nfc.halq /\ c.reports = nfc.reports
            /\ c \in Nfc
  BY <1>1, EnabledOkFields
<1>4. ~go => c = nfc
  OBVIOUS
<1>5. c \in Nfc
  BY <1>1, <1>3, <1>4
<1>6. go => nfc.st = "W4_POST_INIT_CPLT"
  OBVIOUS
<1> HIDE DEF c, go
<1>7. /\ d.st = c.st /\ d.conn = c.conn /\ d.open = c.open /\ d.tml = c.tml /\ SameCommand(c, d)
      /\ d.q = c.q /\ d.flags = c.flags /\ d.halq = c.halq
  BY <1>5, Zenon DEF Nfc, SameCommand
<1> HIDE DEF d
<1>8. Queues(nfc') /\ Phase(nfc') /\ \A s, x : Fits(c, s, x) => Fits(nfc', s, x)
  <2>1. Queues(c) /\ Phase(c)
    BY <1>1, <1>3, <1>4
  <2> QED
    BY <1>2, <1>7, <2>1, Twin
<1>9. nfc'.halq = nfc.halq /\ nfc'.st = c.st /\ nfc'.open = nfc.open /\ nfc'.tml = nfc.tml
  BY <1>2, <1>3, <1>4, <1>7
<1>10. OnWay' = Range(mbox') \cup Range(nfc.halq) /\ OnWay \subseteq OnWay' \cup {e} /\ OnWay' \subseteq OnWay
  BY <1>1, <1>9 DEF OnWay
<1>11. Spent' /\ (Faultless' <=> Faultless)
  BY <1>1 DEF Spent, Faultless
<1>12. CASE go
  <2>1. ~ready /\ ~checked /\ nfc.window = 1 /\ nfc.tml
    BY <1>1, <1>6, <1>12 DEF Outside, Starting, Down, Phase
  <2>2. nfc'.st = "IDLE" /\ nfc'.st \in Up
    BY <1>3, <1>9, <1>12 DEF Up
  <2>3. ASSUME NEW m \in OnWay'
        PROVE  Fits(nfc', FALSE, m) /\ m.type # "RSP"
    <3>1. Fits(nfc, FALSE, m)
      BY <1>1, <1>10, <2>1 DEF Mail
    <3>2. m.type # "RSP" /\ m.hdr \notin {"OPEN_FAILED", "OPEN_CPLT", "CLOSE_CPLT"}
      BY <1>6, <1>12, <2>1, <3>1 DEF Fits, Down
    <3> QED
      BY <1>9, <2>1, <2>2, <3>1, <3>2 DEF Fits
  <2>4. Mail'
    BY <1>1, <1>9, <2>1, <2>2, <2>3 DEF Mail
  <2>5. Outside'
    BY <1>1, <2>1, <2>2 DEF Outside
  <2>6. Running' /\ Faultless' => Healthy'
    <3> SUFFICES ASSUME Faultless
                 PROVE  Healthy'
      BY <1>11
    <3>1. nfc.open
      BY <1>1, <2>1 DEF Healthy
    <3>2. nfc'.timer /\ nfc'.wire # <<>>
      BY <1>2, <1>3, <1>7, <1>12, <3>1 DEF SameCommand
    <3> QED
      BY <1>1, <1>9, <1>10, <2>1, <2>2, <2>3, <3>1, <3>2 DEF Healthy, Down
  <2> QED
    BY <1>8, <1>11, <2>4, <2>5, <2>6, Build
<1>13. CASE ~go
  <2>1. \A m \in OnWay' : Fits(nfc', ready' \/ checked', m)
    BY <1>1, <1>4, <1>8, <1>10, <1>13 DEF Mail
  <2>2. nfc'.window = nfc.window /\ nfc'.timer = nfc.timer /\ nfc'.wire = nfc.wire /\ nfc'.st = nfc.st
    BY <1>2, <1>4, <1>7, <1>9, <1>13 DEF SameCommand
  <2>3. nfc.st = "W4_HAL_OPEN" /\ ~nfc.tml => FALSE
    BY <1>1 DEF HalTaken, Fits
  <2>4. Mail'
    BY <1>1, <1>9, <2>1, <2>2, <2>3 DEF Mail
  <2>5. Outside'
    BY <1>1, <2>2 DEF Outside
  <2>6. Running' /\ Faultless' => Healthy'
    BY <1>1, <1>9, <1>10, <1>11, <2>2 DEF Healthy
  <2> QED
    BY <1>8, <1>11, <2>4, <2>5, <2>6, Build
<1> QED
  BY <1>12, <1>13

\* A HAL event of any kind.
LEMMA HandleHalWindow ==
  ASSUME IInv, IInv', WInv, HandleHal
  PROVE  WInv'
<1>1. HalTaken(Head(mbox))
  BY HalIsTaken
<1>2. Head(mbox).hdr \in {"OPEN_FAILED", "POST_INIT_CPLT", "CLOSE_CPLT", "ERROR"}
  BY <1>1 DEF HalTaken, HalEvent
<1> QED
  BY <1>1, <1>2, HandleOpenFailed, HandlePostInit, HandleClosed, HandleError

-------------------------------------------------------------------------------
(* The calls that start and stop the stack.                                  *)

\* phNxpNciHal_open, when it succeeds and when it fails.
LEMMA OpeningFields ==
  ASSUME NEW n, n \in Nfc
  PROVE  /\ LET m == HalOpened(n)
            IN  /\ Untouched(n, m) /\ m.st = n.st /\ m.conn = n.conn /\ m.flags = n.flags
                /\ m.wire = n.wire /\ m.open /\ m.tml /\ m.halq = Append(n.halq, Hal("OPEN_CPLT"))
         /\ LET m == HalOpenFailed(n)
            IN  /\ Untouched(n, m) /\ m.st = n.st /\ m.conn = n.conn /\ m.flags = n.flags
                /\ m.wire = <<>> /\ ~m.open /\ m.tml = n.tml /\ m.halq = <<>>
<1> DEFINE hq == Append(n.halq, Hal("OPEN_CPLT"))
           no == <<>>
           a == [n EXCEPT !.open = TRUE, !.tml = TRUE, !.halq = hq]
           b == [n EXCEPT !.open = FALSE, !.wire = no, !.halq = no]
<1>1. HalOpened(n) = a /\ HalOpenFailed(n) = b
  BY DEF HalOpened, HalOpenFailed
<1> HIDE DEF hq, no
<1>2. /\ Untouched(n, a) /\ a.st = n.st /\ a.conn = n.conn /\ a.flags = n.flags
      /\ a.wire = n.wire /\ a.open = TRUE /\ a.tml = TRUE /\ a.halq = hq
  BY Zenon DEF Nfc, Untouched
<1>3. /\ Untouched(n, b) /\ b.st = n.st /\ b.conn = n.conn /\ b.flags = n.flags
      /\ b.wire = no /\ b.open = FALSE /\ b.tml = n.tml /\ b.halq = no
  BY Zenon DEF Nfc, Untouched
<1> HIDE DEF a, b
<1> QED
  BY <1>1, <1>2, <1>3 DEF hq, no

\* A stack that is down, with the control block n, calls phNxpNciHal_open.
Opening(n) ==
  /\ nfc.st \in Down /\ ~ready /\ ~checked
  /\ n \in Nfc /\ n.st = "W4_HAL_OPEN" /\ ~n.conn
  /\ n.wire = nfc.wire /\ n.open = nfc.open /\ n.tml = nfc.tml /\ n.halq = nfc.halq
  /\ n.q = <<>> /\ "DISCOVER_PENDING" \notin n.flags /\ "POWER_CYCLE_NFCC" \notin n.flags
  /\ Regular(n.last) /\ ~n.nxp /\ (n.timer => n.window = 0)
  /\ n.last.hdr = "PROP" /\ n.window = 0 => n.cback \in {0, n.last.id}
  /\ ~n.tml => n.window = 1
  /\ \/ ~n.tml /\ nfc' = HalOpened(n) /\ mbox' = mbox
     \/ nfc' = HalOpenFailed(n) /\ mbox' = Append(mbox, Hal("OPEN_FAILED"))
  /\ ready' = ready /\ checked' = checked /\ rf' = rf
  /\ Spent' /\ (Faultless' => Faultless)

\* NFC_Enable and the end of a power-off do the same to the transport.
LEMMA OpeningWindow ==
  ASSUME IInv, WInv, NEW n, Opening(n)
  PROVE  WInv'
<1> DEFINE x == Hal("OPEN_CPLT")
           y == Hal("OPEN_FAILED")
<1>1. nfc.st \in Down /\ nfc.st \notin Up /\ Running
      /\ nfc.st \notin {"W4_HAL_OPEN", "W4_POST_INIT_CPLT", "W4_HAL_CLOSE", "CORE_INIT"}
  BY DEF Opening, Down, Up, Running
<1>2. Queues(nfc) /\ Phase(nfc) /\ Mail /\ Outside /\ Healthy
  BY <1>1 DEF WInv, Window
<1>3. /\ mbox \in Seq(Message) /\ nfc.halq \in Seq(Message)
      /\ x \in Message /\ x.type = "HAL" /\ x.hdr = "OPEN_CPLT"
      /\ y \in Message /\ y.type = "HAL" /\ y.hdr = "OPEN_FAILED"
  BY Types, HalMessage DEF Hal, HalEvent
<1>4. nfc.wire = <<>> /\ n.wire = <<>> /\ rf = "idle"
  BY <1>1, <1>2 DEF Opening, Queues, Due, Outside
<1>5. ~nfc.tml => mbox = <<>> /\ nfc.halq = <<>>
  <2>1. ~nfc.tml => OnWay = {}
    BY <1>1, <1>2 DEF Mail, Fits
  <2> QED
    BY <1>3, <2>1, RangeEmpty DEF OnWay
<1>6. Spent' /\ (Faultless' => Faultless) /\ ~ready' /\ ~checked' /\ rf' = "idle"
  BY <1>4 DEF Opening
<1>7. Outside'
  BY <1>6 DEF Outside
<1>8. ASSUME ~n.tml, nfc' = HalOpened(n), mbox' = mbox
      PROVE  WInv'
  <2>1. /\ Untouched(n, nfc') /\ nfc'.st = "W4_HAL_OPEN" /\ ~nfc'.conn /\ nfc'.flags = n.flags
        /\ nfc'.wire = <<>> /\ nfc'.open /\ nfc'.tml /\ nfc'.halq = Append(nfc.halq, x)
    BY <1>4, <1>8, OpeningFields DEF Opening
  <2> HIDE DEF x
  <2>2. n.window = 1 /\ mbox = <<>> /\ nfc.halq = <<>>
    BY <1>5, <1>8 DEF Opening
  <2>3. Lined(<<>>, Append(<<>>, x)) /\ Range(Append(<<>>, x)) = {x}
    <3>1. Lined(<<>>, <<>>) /\ <<>> \in Seq(Message) /\ \A m \in Range(<<>>) : Before(m, x)
      BY LinedEmpty
    <3>2. Lined(<<>>, Append(<<>>, x))
      BY <1>3, <3>1, LinedAdded
    <3> QED
      BY <1>3, <3>2, RangeOne
  <2>4. OnWay' = {x}
    BY <1>8, <2>1, <2>2, <2>3, LinedEmpty DEF OnWay
  <2>5. Mail'
    BY <1>3, <1>6, <1>8, <2>1, <2>2, <2>3, <2>4 DEF Mail, Fits, Untouched
  <2>6. Queues(nfc')
    BY <2>1, LinedEmpty DEF Opening, Queues, Untouched
  <2>7. Phase(nfc')
    BY <2>1 DEF Opening, Phase, Untouched, Up
  <2>8. Running' /\ Faultless' => Healthy'
    BY <1>3, <1>6, <2>1, <2>2, <2>4 DEF Healthy, Down, Untouched
  <2> QED
    BY <1>6, <1>7, <2>5, <2>6, <2>7, <2>8, Build
<1>9. ASSUME nfc' = HalOpenFailed(n), mbox' = Append(mbox, y)
      PROVE  WInv'
  <2>1. /\ Untouched(n, nfc') /\ nfc'.st = "W4_HAL_OPEN" /\ ~nfc'.conn /\ nfc'.flags = n.flags
        /\ nfc'.wire = <<>> /\ ~nfc'.open /\ nfc'.tml = nfc.tml /\ nfc'.halq = <<>>
    BY <1>4, <1>9, OpeningFields DEF Opening
  <2> HIDE DEF y
  <2>2. Range(mbox') = Range(mbox) \cup {y} /\ OnWay' = Range(mbox) \cup {y}
    BY <1>3, <1>9, <2>1, RangeAppend, LinedEmpty DEF OnWay
  <2>3. \A m \in Range(mbox) : /\ m.type = "HAL" /\ m.hdr \notin {"OPEN_CPLT", "CLOSE_CPLT"} /\ nfc.tml
    <3> SUFFICES ASSUME NEW m \in Range(mbox)
                 PROVE  m.type = "HAL" /\ m.hdr \notin {"OPEN_CPLT", "CLOSE_CPLT"} /\ nfc.tml
      OBVIOUS
    <3>1. m \in OnWay /\ m \in Message /\ Fits(nfc, ready \/ checked, m)
      BY <1>2, Types DEF Mail, OnWay
    <3>2. m.type = "HAL"
      BY <1>1, <3>1, MessageKinds DEF Fits, Due
    <3> QED
      BY <1>1, <3>1, <3>2 DEF Fits
  <2>4. Lined(mbox', nfc'.halq)
    <3>1. Lined(mbox, <<>>)
      BY <1>2, <1>3, LinedFlushed DEF Mail
    <3>2. \A m \in Range(mbox) : Before(m, y)
      BY <1>3, <2>3 DEF Before
    <3> QED
      BY <1>3, <1>9, <2>1, <3>1, <3>2, LinedAdded, LinedEmpty
  <2>5. ~nfc.tml => Len(mbox') <= 1 /\ n.window = 1
    <3>1. Len(Append(<<>>, y)) = 1
      OBVIOUS
    <3> QED
      BY <1>5, <1>9, <3>1 DEF Opening
  <2>6. \A m \in OnWay' : Fits(nfc', FALSE, m)
    BY <1>3, <2>1, <2>2, <2>3 DEF Fits, Down
  <2>7. Mail'
    BY <1>6, <2>1, <2>4, <2>5, <2>6 DEF Mail
  <2>8. Queues(nfc')
    BY <2>1, LinedEmpty DEF Opening, Queues, Untouched
  <2>9. Phase(nfc')
    BY <2>1 DEF Opening, Phase, Untouched, Up
  <2>10. Running' /\ Faultless' => Healthy'
    <3> SUFFICES ASSUME Faultless
                 PROVE  Healthy'
      BY <1>6
    <3>1. ~nfc.tml /\ n.window = 1
      BY <1>1, <1>2, <2>5 DEF Healthy
    <3>2. OnWay' = {y}
      BY <1>5, <2>2, <3>1, LinedEmpty
    <3> QED
      BY <1>3, <1>6, <2>1, <3>1, <3>2 DEF Healthy, Untouched
  <2> QED
    BY <1>6, <1>7, <2>7, <2>8, <2>9, <2>10, Build
<1> QED
  BY <1>8, <1>9 DEF Opening

\* NFC_Enable.
LEMMA EnableWindow ==
  ASSUME Orderly, IInv, WInv, Enable
  PROVE  WInv'
<1> DEFINE f == Fresh(nfc)
           ow == {"ENABLE"}
           n == [f EXCEPT !.st = "W4_HAL_OPEN", !.resp = TRUE, !.owed = ow]
           w == MaxWindow
           nc == NoCommand
           no == <<>>
           z == 0
           es == {}
           g == [nfc EXCEPT !.window = w, !.q = no, !.flags = es, !.last = nc,
                            !.cback = z, !.nxp = FALSE, !.timer = FALSE, !.listen = FALSE,
                            !.conn = FALSE, !.init = FALSE]
<1>1. /\ nfc.st = "NONE" /\ ~checked /\ ~ready /\ Spend("power")
      /\ \/ ~n.tml /\ nfc' = HalOpened(n) /\ mbox' = mbox
         \/ nfc' = HalOpenFailed(n) /\ mbox' = Append(mbox, Hal("OPEN_FAILED"))
      /\ ready' = ready /\ checked' = checked /\ rf' = rf
  BY DEF Enable, NoStartPending, Orderly
<1>2. nfc \in Nfc /\ Sound(nfc) /\ Spent
  BY Types DEF WInv
<1>3. Spent' /\ (Faultless' => Faultless)
  BY <1>1, <1>2, Spending
<1>4. f = g
  BY DEF Fresh
<1> HIDE DEF w, nc, no, z, es, f
<1>5. /\ g.window = w /\ g.q = no /\ g.flags = es /\ g.last = nc /\ g.timer = FALSE /\ g.nxp = FALSE
      /\ g.conn = FALSE /\ g.wire = nfc.wire /\ g.open = nfc.open /\ g.tml = nfc.tml
      /\ g.halq = nfc.halq
  BY <1>2, Zenon DEF Nfc
<1> HIDE DEF g
<1>6. f \in Nfc /\ ow \in SUBSET Event /\ "W4_HAL_OPEN" \in State
  <2>1. Consistent(f)
    BY <1>2, FreshSound DEF f
  <2> QED
    BY <2>1, Fields DEF Consistent, Event, State
<1> HIDE DEF ow
<1>7. /\ n \in Nfc /\ n.st = "W4_HAL_OPEN" /\ SameCommand(f, n) /\ n.q = f.q /\ n.flags = f.flags
      /\ n.conn = f.conn /\ n.open = f.open /\ n.tml = f.tml /\ n.halq = f.halq
  BY <1>6, Zenon DEF Nfc, SameCommand
<1> HIDE DEF n
<1>8. nc.kind = "plain" /\ nc.hdr = "NONE" /\ Regular(nc)
  BY DEF nc, NoCommand, Regular
<1>9. n.window = 1 /\ n.last = nc /\ ~n.timer /\ ~n.nxp /\ n.wire = nfc.wire /\ n.q = <<>> /\ n.flags = {}
  BY <1>4, <1>5, <1>7 DEF SameCommand, w, MaxWindow, no, es
<1>10. Opening(n)
  BY <1>1, <1>3, <1>4, <1>5, <1>7, <1>8, <1>9 DEF Opening, Down
<1> QED
  BY <1>10, OpeningWindow

\* NFC_SetPowerOffSleep(FALSE).
LEMMA PowerUpWindow ==
  ASSUME Orderly, IInv, WInv, PowerUp
  PROVE  WInv'
<1> DEFINE fl == nfc.flags \cup {"RESTARTING"}
           ow == {"RESTART"}
           n == [nfc EXCEPT !.st = "W4_HAL_OPEN", !.flags = fl, !.owed = ow]
<1>1. /\ nfc.st = "NFCC_POWER_OFF_SLEEP" /\ ~checked /\ ~ready
      /\ \/ ~n.tml /\ nfc' = HalOpened(n) /\ mbox' = mbox
         \/ nfc' = HalOpenFailed(n) /\ mbox' = Append(mbox, Hal("OPEN_FAILED"))
      /\ budget' = budget \/ Spend("faults")
      /\ ready' = ready /\ checked' = checked /\ rf' = rf
  BY DEF PowerUp, NoStartPending, Orderly
<1>2. nfc \in Nfc /\ Spent /\ Queues(nfc) /\ Phase(nfc)
  BY <1>1, Types DEF WInv, Window, Running
<1>3. Spent' /\ (Faultless' => Faultless)
  BY <1>1, <1>2, Spending DEF Spent, Faultless
<1>4. fl \in SUBSET Flag /\ ow \in SUBSET Event /\ "W4_HAL_OPEN" \in State
  <2>1. nfc.flags \in SUBSET Flag
    BY <1>2, Zenon DEF Nfc
  <2> QED
    BY <2>1 DEF Flag, Event, State
<1>5. /\ ~nfc.conn /\ nfc.q = <<>> /\ "DISCOVER_PENDING" \notin fl /\ "POWER_CYCLE_NFCC" \notin fl
      /\ ~nfc.tml => nfc.window = 1
  BY <1>1, <1>2 DEF Phase, Up
<1> HIDE DEF fl, ow
<1>6. /\ n \in Nfc /\ n.st = "W4_HAL_OPEN" /\ SameCommand(nfc, n) /\ n.q = nfc.q /\ n.flags = fl
      /\ n.conn = nfc.conn /\ n.open = nfc.open /\ n.tml = nfc.tml /\ n.halq = nfc.halq
  BY <1>2, <1>4, Zenon DEF Nfc, SameCommand
<1> HIDE DEF n
<1>7. Opening(n)
  BY <1>1, <1>2, <1>3, <1>5, <1>6 DEF Opening, Down, Queues, SameCommand
<1> QED
  BY <1>7, OpeningWindow

\* nfc_task_shutdown_nfcc, when it does not crash.
LEMMA ShutdownFields ==
  ASSUME NEW n, Consistent(n), "POWER_CYCLE_NFCC" \notin n.flags, NEW m, m = ShutdownNfcc(n)
  PROVE  /\ m.reports = n.reports
         /\ m.st # "CRASHED" =>
              /\ n.tml /\ Closed(n, m) /\ m.st = "W4_HAL_CLOSE" /\ m.window = 1 /\ ~m.timer /\ m.q = <<>>
              /\ ~m.conn /\ m.last = n.last /\ m.cback = n.cback /\ m.nxp = n.nxp
              /\ m.flags = n.flags \ {"DISCOVER_PENDING", "CONTROL_REQUESTED"}
<1> DEFINE fl == n.flags \ {"DISCOVER_PENDING", "CONTROL_REQUESTED"}
           w  == MaxWindow
           no == <<>>
           g  == [n EXCEPT !.flags = fl, !.conn = FALSE, !.init = FALSE, !.window = w,
                           !.timer = FALSE, !.q = no]
           a  == [g EXCEPT !.st = "W4_HAL_CLOSE"]
           b  == [g EXCEPT !.st = "W4_HAL_CLOSE", !.listen = FALSE]
<1>1. n \in Nfc /\ fl \in SUBSET Flag /\ w \in Nat /\ no \in Seq(Command) /\ w = 1
      /\ "W4_HAL_CLOSE" \in State
  <2>1. Sound(n)
    BY DEF Consistent
  <2>2. n \in Nfc /\ n.flags \in SUBSET Flag
    BY <2>1, Fields
  <2> QED
    BY <2>2 DEF MaxWindow, State
<1>2. GenCleanup(n) = g
  BY DEF GenCleanup
<1>3. "POWER_CYCLE_NFCC" \notin fl
  OBVIOUS
<1> HIDE DEF fl, w, no
<1>4. /\ g \in Nfc /\ g.flags = fl /\ g.conn = FALSE /\ g.window = w /\ g.timer = FALSE /\ g.q = no
      /\ g.last = n.last /\ g.cback = n.cback /\ g.nxp = n.nxp /\ g.reports = n.reports
      /\ Linked(n, g)
  BY <1>1, Zenon DEF Nfc, Linked
<1> HIDE DEF g
<1>5. m = HalClose(a) \/ m = HalClose(b)
  BY <1>2, <1>3, <1>4 DEF ShutdownNfcc
<1>6. /\ a \in Nfc /\ a.st = "W4_HAL_CLOSE" /\ Untouched(g, a) /\ Linked(g, a)
      /\ a.conn = g.conn /\ a.flags = g.flags
      /\ b \in Nfc /\ b.st = "W4_HAL_CLOSE" /\ b.window = g.window /\ b.last = g.last
      /\ b.timer = g.timer /\ b.cback = g.cback /\ b.nxp = g.nxp /\ b.q = g.q
      /\ b.reports = g.reports /\ Linked(g, b) /\ b.conn = g.conn /\ b.flags = g.flags
  BY <1>1, <1>4, Zenon DEF Nfc, Untouched, Linked
<1> HIDE DEF a, b
<1>7. PICK c : /\ m = HalClose(c) /\ c \in Nfc /\ c.st = "W4_HAL_CLOSE" /\ c.window = g.window
               /\ c.last = g.last /\ c.timer = g.timer /\ c.cback = g.cback /\ c.nxp = g.nxp
               /\ c.q = g.q /\ c.reports = g.reports /\ Linked(g, c) /\ c.conn = g.conn
               /\ c.flags = g.flags
  BY <1>5, <1>6 DEF Untouched
<1>8. m.reports = n.reports
  BY <1>4, <1>7, HalCloseReports
<1>9. ASSUME m.st # "CRASHED"
      PROVE  /\ n.tml /\ Closed(n, m) /\ m.st = "W4_HAL_CLOSE" /\ m.window = 1 /\ ~m.timer /\ m.q = <<>>
             /\ ~m.conn /\ m.last = n.last /\ m.cback = n.cback /\ m.nxp = n.nxp /\ m.flags = fl
  <2>1. c.tml /\ Untouched(c, m) /\ Closed(c, m) /\ m.st = c.st /\ m.conn = c.conn /\ m.flags = c.flags
    BY <1>7, <1>9, HalCloseCloses
  <2> QED
    BY <1>1, <1>4, <1>7, <2>1 DEF Untouched, Closed, Linked, no
<1> QED
  BY <1>8, <1>9 DEF fl

\* The stack is shut down with the control block n.
LEMMA ShutsDown ==
  ASSUME IInv, WInv, Running, ~ready, ~checked, nfc.st \notin Down,
         NEW n, Consistent(n), Untouched(nfc, n), Linked(nfc, n), n.conn = nfc.conn,
         n.flags \subseteq nfc.flags \cup {"POWER_OFF_SLEEP"},
         NEW ow, nfc' = [ShutdownNfcc(n) EXCEPT !.owed = ow],
         mbox' = <<>>, rf' = "idle", ready' = ready, checked' = checked, Spent',
         Faultless' => Faultless
  PROVE  WInv'
<1> DEFINE s == ShutdownNfcc(n)
           t == [s EXCEPT !.owed = ow]
           x == Hal("CLOSE_CPLT")
<1>1. Queues(nfc) /\ Phase(nfc) /\ Mail /\ Outside /\ Healthy
  BY DEF WInv, Window
<1>2. Consistent(s) /\ "POWER_CYCLE_NFCC" \notin n.flags
  BY <1>1, ShutdownNfccSound DEF Phase
<1>3. s \in Nfc
  BY <1>2 DEF Consistent, Sound
<1>4. /\ s.st # "CRASHED" =>
              /\ n.tml /\ Closed(n, s) /\ s.st = "W4_HAL_CLOSE" /\ s.window = 1 /\ ~s.timer /\ s.q = <<>>
              /\ ~s.conn /\ s.last = n.last /\ s.cback = n.cback /\ s.nxp = n.nxp
              /\ s.flags = n.flags \ {"DISCOVER_PENDING", "CONTROL_REQUESTED"}
  BY <1>2, ShutdownFields
<1> HIDE DEF s
<1>5. /\ t.st = s.st /\ t.window = s.window /\ t.timer = s.timer /\ t.q = s.q /\ t.conn = s.conn
      /\ t.last = s.last /\ t.cback = s.cback /\ t.nxp = s.nxp /\ t.flags = s.flags
      /\ t.wire = s.wire /\ t.open = s.open /\ t.tml = s.tml /\ t.halq = s.halq
  BY <1>3, Zenon DEF Nfc
<1>6. nfc' = t
  BY DEF s
<1> HIDE DEF t
<1>7. SUFFICES ASSUME nfc'.st # "CRASHED"
               PROVE  WInv'
  BY Build DEF Running
<1>8. /\ nfc.tml /\ nfc'.wire = <<>> /\ ~nfc'.open /\ ~nfc'.tml /\ nfc'.halq = Append(nfc.halq, x)
      /\ nfc'.st = "W4_HAL_CLOSE" /\ nfc'.window = 1 /\ ~nfc'.timer /\ nfc'.q = <<>> /\ ~nfc'.conn
      /\ nfc'.last = nfc.last /\ nfc'.nxp = nfc.nxp
      /\ "DISCOVER_PENDING" \notin nfc'.flags /\ "POWER_CYCLE_NFCC" \notin nfc'.flags
  <2>1. /\ n.tml /\ Closed(n, s) /\ s.st = "W4_HAL_CLOSE" /\ s.window = 1 /\ ~s.timer /\ s.q = <<>>
        /\ ~s.conn /\ s.last = n.last /\ s.cback = n.cback /\ s.nxp = n.nxp
        /\ s.flags = n.flags \ {"DISCOVER_PENDING", "CONTROL_REQUESTED"}
    BY <1>4, <1>5, <1>6, <1>7
  <2>2. n.last = nfc.last /\ n.nxp = nfc.nxp /\ n.tml = nfc.tml /\ n.halq = nfc.halq
    BY DEF Untouched, Linked
  <2>3. s.wire = <<>> /\ ~s.open /\ ~s.tml /\ s.halq = Append(nfc.halq, x)
    BY <2>1, <2>2 DEF Closed
  <2>4. "DISCOVER_PENDING" \notin s.flags /\ "POWER_CYCLE_NFCC" \notin s.flags
    BY <1>2, <2>1
  <2> QED
    <3>1. /\ n.tml /\ t.wire = <<>> /\ ~t.open /\ ~t.tml /\ t.halq = Append(nfc.halq, x)
          /\ "DISCOVER_PENDING" \notin t.flags /\ "POWER_CYCLE_NFCC" \notin t.flags
      BY <1>5, <2>1, <2>3, <2>4
    <3>2. /\ t.st = "W4_HAL_CLOSE" /\ t.window = 1 /\ ~t.timer /\ t.q = <<>> /\ ~t.conn
          /\ t.last = nfc.last /\ t.nxp = nfc.nxp
      BY <1>5, <2>1, <2>2
    <3> QED
      BY <1>6, <2>2, <3>1, <3>2
<1>9. /\ x \in Message /\ x.type = "HAL" /\ x.hdr = "CLOSE_CPLT"
      /\ mbox \in Seq(Message) /\ nfc.halq \in Seq(Message)
  BY Types, HalMessage DEF Hal, HalEvent
<1> HIDE DEF x
<1>10. ASSUME NEW m \in Range(nfc.halq)
       PROVE  /\ m \in OnWay /\ m.hdr # "CLOSE_CPLT" /\ m.hdr # "OPEN_FAILED" /\ m.hdr # "RESET"
              /\ (m.type = "NTF" => m.hdr # "RESET") /\ (m.hdr = "ERROR" => ~nfc.open)
  <2>1. m \in OnWay /\ Fits(nfc, FALSE, m) /\ m.hdr # "OPEN_FAILED" /\ m \in Message
    BY <1>1, Types DEF Mail, Lined, OnWay
  <2> QED
    BY <1>8, <2>1, MessageKinds DEF Fits, Notification
<1>11. Lined(mbox', nfc'.halq)
  <2>1. Lined(<<>>, nfc.halq)
    BY <1>1, <1>9, LinedFlushed DEF Mail
  <2>2. \A m \in Range(nfc.halq) : Before(m, x)
    BY <1>9, <1>10 DEF Before
  <2>3. <<>> \in Seq(Message) /\ \A m \in Range(<<>>) : Before(m, x)
    BY LinedEmpty
  <2> QED
    BY <1>8, <1>9, <2>1, <2>2, <2>3, LinedAdded
<1>12. OnWay' = Range(nfc.halq) \cup {x}
  <2>1. Range(Append(nfc.halq, x)) = Range(nfc.halq) \cup {x}
    BY <1>9, RangeAppend
  <2> QED
    BY <1>8, <2>1, LinedEmpty DEF OnWay
<1>13. Mail'
  <2>1. ASSUME NEW m \in OnWay'
        PROVE  Fits(nfc', FALSE, m)
    BY <1>8, <1>9, <1>10, <1>12 DEF Fits, Down
  <2> QED
    BY <1>8, <1>11, <2>1, LinedEmpty DEF Mail
<1>14. Queues(nfc')
  BY <1>1, <1>8, LinedEmpty DEF Queues
<1>15. Phase(nfc')
  BY <1>8 DEF Phase, Up
<1>16. Outside'
  BY DEF Outside
<1>17. Running' /\ Faultless' => Healthy'
  BY <1>1, <1>8, <1>9, <1>10, <1>12 DEF Healthy, Down
<1> QED
  BY <1>13, <1>14, <1>15, <1>16, <1>17, Build

\* NFC_Disable.
LEMMA DisableWindow ==
  ASSUME Orderly, IInv, IInv', WInv, Disable
  PROVE  WInv'
<1>1. /\ Running /\ ~checked /\ ~ready /\ Spend("power") /\ rf' = "idle"
      /\ ready' = ready /\ checked' = checked
  BY DEF Disable, NoStartPending, Orderly
<1>2. Queues(nfc) /\ Phase(nfc) /\ Mail /\ Outside /\ Healthy /\ Spent
  BY <1>1 DEF WInv, Window
<1>3. nfc \in Nfc /\ Consistent(nfc)
  BY Types, Split
<1>4. Spent' /\ (Faultless' => Faultless)
  BY <1>1, <1>2, Spending
<1>5. CASE nfc.st \in Down
  <2> DEFINE ow == {}
             n == [nfc EXCEPT !.st = "NONE", !.resp = FALSE, !.owed = ow]
  <2>1. nfc' = n /\ mbox' = mbox
    BY <1>5 DEF Disable, Down
  <2> HIDE DEF ow
  <2>2. /\ n.st = "NONE" /\ n.conn = nfc.conn /\ n.open = nfc.open /\ n.tml = nfc.tml /\ n.halq = nfc.halq
        /\ SameCommand(nfc, n) /\ n.q = nfc.q /\ n.flags = nfc.flags
    BY <1>3, Zenon DEF Nfc, SameCommand
  <2> HIDE DEF n
  <2>3. /\ nfc.st \notin Up /\ nfc.st \notin {"W4_HAL_OPEN", "W4_POST_INIT_CPLT", "W4_HAL_CLOSE", "CORE_INIT"}
    BY <1>5 DEF Down, Up
  <2>4. OnWay' = OnWay
    BY <2>1, <2>2 DEF OnWay
  <2>5. nfc.wire = <<>>
    BY <1>2, <2>3 DEF Queues, Due
  <2>6. Queues(nfc')
    BY <1>2, <2>1, <2>2, <2>5 DEF Queues, SameCommand
  <2>7. Phase(nfc')
    BY <1>2, <2>1, <2>2, <2>3 DEF Phase, SameCommand, Up
  <2>8. \A m \in OnWay : Fits(nfc', FALSE, m)
    BY <1>1, <1>2, <1>5, <2>1, <2>2, <2>3 DEF Mail, Fits, SameCommand, Down, Due, Answers
  <2>9. Mail'
    BY <1>1, <1>2, <2>1, <2>2, <2>4, <2>8 DEF Mail
  <2>10. Outside'
    BY <1>1 DEF Outside
  <2>11. Running' /\ Faultless' => Healthy'
    <3>1. Faultless => ~nfc.tml
      BY <1>1, <1>2, <1>5 DEF Healthy
    <3> QED
      BY <1>1, <1>2, <1>4, <2>1, <2>2, <2>4, <3>1 DEF Healthy, SameCommand
  <2> QED
    BY <1>4, <2>6, <2>7, <2>9, <2>10, <2>11, Build
<1>6. CASE nfc.st \notin Down
  <2>1. nfc' = [ShutdownNfcc(nfc) EXCEPT !.owed = {"DISABLE"}] /\ mbox' = <<>>
    BY <1>6 DEF Disable, Down
  <2>2. Untouched(nfc, nfc) /\ Linked(nfc, nfc)
    BY DEF Untouched, Linked
  <2> QED
    BY <1>1, <1>3, <1>4, <1>6, <2>1, <2>2, ShutsDown
<1> QED
  BY <1>5, <1>6

\* NFC_SetPowerOffSleep(TRUE).
LEMMA PowerDownWindow ==
  ASSUME Orderly, IInv, WInv, PowerDown
  PROVE  WInv'
<1> DEFINE fl == nfc.flags \cup {"POWER_OFF_SLEEP"}
           n  == [nfc EXCEPT !.flags = fl]
<1>1. /\ nfc.st = "IDLE" /\ Spend("power") /\ mbox' = <<>> /\ rf' = "idle"
      /\ ready' = ready /\ checked' = checked
      /\ nfc' = [ShutdownNfcc(n) EXCEPT !.owed = {"POWER_OFF"}]
  BY DEF PowerDown, Orderly
<1>2. Running /\ nfc.st \in Up /\ nfc.st \notin Down /\ nfc.st \notin Starting
  BY <1>1 DEF Running, Up, Down, Starting
<1>3. Queues(nfc) /\ Phase(nfc) /\ Mail /\ Outside /\ Healthy /\ Spent
  BY <1>2 DEF WInv, Window
<1>4. Spent' /\ (Faultless' => Faultless) /\ ~ready /\ ~checked
  BY <1>1, <1>2, <1>3, Spending DEF Outside
<1>5. nfc \in Nfc /\ Consistent(nfc)
  BY Types, Split
<1>6. fl \in SUBSET Flag
  <2>1. nfc.flags \in SUBSET Flag
    BY <1>5, Zenon DEF Nfc
  <2> QED
    BY <2>1 DEF Flag
<1>7. fl \subseteq nfc.flags \cup {"POWER_OFF_SLEEP"}
      /\ fl \cap {"CONTROL_REQUESTED", "DISCOVER_PENDING"} \subseteq nfc.flags
  OBVIOUS
<1> HIDE DEF fl
<1>8. /\ Untouched(nfc, n) /\ Linked(nfc, n) /\ n.conn = nfc.conn /\ n.flags = fl
  BY <1>5, <1>6, Zenon DEF Nfc, Untouched, Linked
<1>9. Consistent(n)
  BY <1>5, <1>6, <1>7, FlagsSound
<1> HIDE DEF n
<1> QED
  BY <1>1, <1>2, <1>4, <1>7, <1>8, <1>9, ShutsDown

-------------------------------------------------------------------------------
(* Calls while the stack is up.                                              *)

\* The stack stays up and nothing changes outside the control block.
LEMMA UpKeeps ==
  ASSUME IInv, WInv, nfc.st \in Up, nfc'.st \in Up, Queues(nfc'), Phase(nfc'),
         nfc'.open = nfc.open, nfc'.tml = nfc.tml, nfc'.halq = nfc.halq,
         \A s, x : Fits(nfc, s, x) => Fits(nfc', s, x),
         nfc'.window = 0 => \/ SameCommand(nfc, nfc')
                            \/ nfc'.timer /\ (nfc.open => nfc'.wire # <<>>),
         mbox' = mbox, ready' = ready, checked' = checked, rf' = rf, budget' = budget
  PROVE  WInv'
<1>1. /\ Running /\ nfc.st \notin Starting /\ nfc'.st \notin Down
      /\ nfc'.st \notin {"W4_HAL_OPEN", "W4_HAL_CLOSE", "CORE_INIT"}
  BY DEF Running, Up, Starting, Down
<1>2. Mail /\ Outside /\ Healthy /\ Spent /\ Phase(nfc)
  BY <1>1 DEF WInv, Window
<1>3. OnWay' = OnWay /\ ~ready /\ ~checked
  BY <1>1, <1>2 DEF OnWay, Outside
<1>4. Mail'
  BY <1>1, <1>2, <1>3 DEF Mail
<1>5. Outside'
  BY <1>3 DEF Outside
<1>6. Spent' /\ (Faultless' <=> Faultless)
  BY <1>2 DEF Spent, Faultless
<1>7. Running' /\ Faultless' => Healthy'
  <2> SUFFICES ASSUME Faultless
               PROVE  Healthy'
    BY <1>6
  <2>1. /\ nfc.tml /\ nfc.open /\ \A m \in OnWay : m.hdr # "ERROR" /\ (m.type = "RSP" => m.res = "ok")
        /\ nfc.window = 0 => nfc.timer /\ (nfc.wire # <<>> \/ \E m \in OnWay : m.type = "RSP")
    BY <1>1, <1>2 DEF Healthy, Phase
  <2>2. nfc'.window = 0 => nfc'.timer /\ (nfc'.wire # <<>> \/ \E m \in OnWay : m.type = "RSP")
    BY <2>1 DEF SameCommand
  <2> QED
    BY <1>1, <1>3, <2>1, <2>2 DEF Healthy
<1> QED
  BY <1>4, <1>5, <1>6, <1>7, Build

\* A command is sent, with the control block changed to o before.
LEMMA UpSendsOne ==
  ASSUME IInv, WInv, nfc.st \in Up, NEW o, Sound(o), Queues(o), Phase(o), o.st \in Up,
         SameCommand(nfc, o), Linked(nfc, o), \A s, x : Fits(nfc, s, x) => Fits(o, s, x),
         NEW all \in Seq(Command), \A c \in Range(all) : Regular(c) /\ c.hdr \notin CoreStart,
         Sends(o, nfc', all),
         mbox' = mbox, ready' = ready, checked' = checked, rf' = rf, budget' = budget
  PROVE  WInv'
<1>1. Queues(nfc') /\ Phase(nfc') /\ \A s, x : Fits(o, s, x) => Fits(nfc', s, x)
  BY UpSends
<1>2. /\ nfc'.st \in Up /\ nfc'.open = nfc.open /\ nfc'.tml = nfc.tml /\ nfc'.halq = nfc.halq
  BY DEF Sends, Alike, Linked
<1>3. nfc'.window = 0 => \/ SameCommand(o, nfc')
                         \/ nfc'.timer /\ o.window = 1 /\ (o.open /\ o.wire = <<>> => nfc'.wire # <<>>)
  BY SentTimed
<1>4. o.window = 1 => o.wire = <<>>
  BY DEF Queues
<1>5. nfc'.window = 0 => \/ SameCommand(nfc, nfc')
                         \/ nfc'.timer /\ (nfc.open => nfc'.wire # <<>>)
  BY <1>3, <1>4 DEF SameCommand, Linked
<1> QED
  BY <1>1, <1>2, <1>5, UpKeeps

\* A new command behind those that wait.
LEMMA NewRegular ==
  ASSUME NEW n, Sound(n), Queues(n), NEW h \in Header, NEW k \in {"plain", "vsc"},
         h \notin CoreStart, h # "SCREEN", (h = "PROP" <=> k = "vsc")
  PROVE  /\ n.q \o NewCommand(n, h, k) \in Seq(Command)
         /\ \A c \in Range(n.q \o NewCommand(n, h, k)) : Regular(c) /\ c.hdr \notin CoreStart
<1> DEFINE c == [id |-> n.next, hdr |-> h, kind |-> k]
<1>1. n.q \in Seq(Command) /\ n.next \in Nat
  BY Fields
<1>2. c \in Command /\ c.hdr = h /\ c.kind = k
  BY <1>1 DEF Command
<1>3. NewCommand(n, h, k) = <<c>>
  BY DEF NewCommand
<1> HIDE DEF c
<1>4. n.q \o <<c>> = Append(n.q, c)
  BY <1>1, <1>2, AppendOne
<1>5. Range(Append(n.q, c)) = Range(n.q) \cup {c} /\ Append(n.q, c) \in Seq(Command)
  BY <1>1, <1>2, RangeAppend
<1>6. Regular(c) /\ c.hdr \notin CoreStart
  BY <1>2 DEF Regular
<1>7. n.q \o NewCommand(n, h, k) = Append(n.q, c)
  BY <1>3, <1>4
<1>8. \A x \in Range(Append(n.q, c)) : Regular(x) /\ x.hdr \notin CoreStart
  BY <1>5, <1>6 DEF Queues
<1> QED
  BY <1>5, <1>7, <1>8, Zenon

\* A command of the application.
LEMMA SendWindow ==
  ASSUME Orderly, IInv, WInv, Send
  PROVE  WInv'
<1>1. /\ nfc.st \in Up /\ mbox' = mbox /\ ready' = ready /\ checked' = checked /\ rf' = rf
      /\ budget' = budget
      /\ \/ nfc' = SendCmd(nfc, "SET_CONFIG")
         \/ nfc' = SendVendorCmd(nfc, "PROP", "vsc")
  BY DEF Send, Orderly
<1>2. Sound(nfc) /\ Queues(nfc) /\ Phase(nfc)
  BY <1>1, Types DEF WInv, Window, Running, Up
<1>3. SameCommand(nfc, nfc) /\ Linked(nfc, nfc)
  BY DEF SameCommand, Linked
<1>4. CASE nfc' = SendCmd(nfc, "SET_CONFIG")
  <2>1. "SET_CONFIG" \in Header /\ "SET_CONFIG" \notin CoreStart
    BY DEF Header, CoreStart
  <2>2. Sends(nfc, nfc', nfc.q \o NewCommand(nfc, "SET_CONFIG", "plain"))
    BY <1>2, <1>4, <2>1, SendCmdSends
  <2>3. /\ nfc.q \o NewCommand(nfc, "SET_CONFIG", "plain") \in Seq(Command)
        /\ \A c \in Range(nfc.q \o NewCommand(nfc, "SET_CONFIG", "plain")) :
             Regular(c) /\ c.hdr \notin CoreStart
    BY <1>2, <2>1, NewRegular
  <2> QED
    BY <1>1, <1>2, <1>3, <2>2, <2>3, UpSendsOne
<1>5. CASE nfc' = SendVendorCmd(nfc, "PROP", "vsc")
  <2>1. "PROP" \in Header /\ "PROP" \notin CoreStart
    BY DEF Header, CoreStart
  <2>2. Sends(nfc, nfc', nfc.q \o NewCommand(nfc, "PROP", "vsc"))
    BY <1>2, <1>5, <2>1, SendVendorCmdSends
  <2>3. /\ nfc.q \o NewCommand(nfc, "PROP", "vsc") \in Seq(Command)
        /\ \A c \in Range(nfc.q \o NewCommand(nfc, "PROP", "vsc")) :
             Regular(c) /\ c.hdr \notin CoreStart
    BY <1>2, <2>1, NewRegular
  <2> QED
    BY <1>1, <1>2, <1>3, <2>2, <2>3, UpSendsOne
<1> QED
  BY <1>1, <1>4, <1>5

\* Flags change while the stack is up.
LEMMA UpFlags ==
  ASSUME NEW n, NEW d, n.st \in Up, d.st = n.st, d.conn = n.conn, SameCommand(n, d), d.q = n.q,
         Linked(n, d), "POWER_CYCLE_NFCC" \in d.flags => "POWER_CYCLE_NFCC" \in n.flags
  PROVE  /\ Queues(n) => Queues(d)
         /\ Phase(n) => Phase(d)
         /\ \A s, x : Fits(n, s, x) => Fits(d, s, x)
<1>1. /\ d.st \in Up /\ d.st \notin Down
      /\ d.st \notin {"W4_HAL_OPEN", "W4_POST_INIT_CPLT", "W4_HAL_CLOSE", "CORE_INIT"}
  BY DEF Up, Down
<1>2. Queues(n) => Queues(d)
  BY DEF Queues, SameCommand, Linked
<1>3. Phase(n) => Phase(d)
  BY <1>1 DEF Phase, SameCommand, Linked
<1>4. \A s, x : Fits(n, s, x) => Fits(d, s, x)
  BY <1>1 DEF Fits, Answers, SameCommand, Linked
<1> QED
  BY <1>2, <1>3, <1>4

\* NFC_DiscoveryStart.
LEMMA DiscoveryStartWindow ==
  ASSUME IInv, WInv, DiscoveryStart
  PROVE  WInv'
<1> DEFINE fl == nfc.flags \cup {"DISCOVER_PENDING", "CONTROL_REQUESTED"}
           o  == [nfc EXCEPT !.flags = fl]
<1>1. /\ nfc.st = "IDLE" /\ mbox' = mbox /\ ready' = ready /\ checked' = checked /\ rf' = rf
      /\ budget' = budget /\ nfc' = CheckCmdQueue(o, <<>>)
  BY DEF DiscoveryStart
<1>2. nfc.st \in Up /\ Sound(nfc) /\ nfc \in Nfc /\ Queues(nfc) /\ Phase(nfc)
  BY <1>1, Types DEF WInv, Window, Running, Up
<1>3. fl \in SUBSET Flag /\ nfc.q \in Seq(Command)
  <2>1. nfc.flags \in SUBSET Flag /\ nfc.q \in Seq(Command)
    BY <1>2, Fields
  <2> QED
    BY <2>1 DEF Flag
<1>4. "POWER_CYCLE_NFCC" \in fl => "POWER_CYCLE_NFCC" \in nfc.flags
  OBVIOUS
<1> HIDE DEF fl
<1>5. /\ o \in Nfc /\ o.st = nfc.st /\ o.conn = nfc.conn /\ SameCommand(nfc, o) /\ o.q = nfc.q
      /\ o.flags = fl /\ Linked(nfc, o)
  BY <1>2, <1>3, Zenon DEF Nfc, SameCommand, Linked
<1> HIDE DEF o
<1>6. Sound(o)
  BY <1>2, <1>5 DEF Sound, SameCommand
<1>7. Queues(o) /\ Phase(o) /\ \A s, x : Fits(nfc, s, x) => Fits(o, s, x)
  BY <1>2, <1>4, <1>5, UpFlags
<1>8. Sends(o, nfc', o.q \o <<>>) /\ o.q \o <<>> = nfc.q
  <2>1. Sends(o, nfc', o.q \o <<>>)
    BY <1>1, <1>6, CheckCmdQueueSends, EmptyCommands
  <2>2. o.q \o <<>> = nfc.q
    BY <1>3, <1>5
  <2> QED
    BY <2>1, <2>2
<1>9. \A c \in Range(nfc.q) : Regular(c) /\ c.hdr \notin CoreStart
  BY <1>2 DEF Queues
<1> QED
  BY <1>1, <1>2, <1>3, <1>5, <1>6, <1>7, <1>8, <1>9, UpSendsOne

\* NFC_Deactivate.
LEMMA DeactivateWindow ==
  ASSUME IInv, WInv, Deactivate
  PROVE  WInv'
<1> DEFINE fl == nfc.flags \ {"DISCOVER_PENDING", "CONTROL_REQUESTED"}
           a  == [nfc EXCEPT !.flags = fl]
           st == IF nfc.st = "OPEN" THEN "CLOSING" ELSE nfc.st
           b  == [nfc EXCEPT !.st = st]
<1>1. /\ nfc.st \in {"IDLE", "OPEN"}
      /\ mbox' = mbox /\ ready' = ready /\ checked' = checked /\ rf' = rf /\ budget' = budget
      /\ (nfc' = a \/ nfc' = SendCmd(b, "DEACTIVATE"))
  BY DEF Deactivate
<1>2. nfc.st \in Up /\ Sound(nfc) /\ nfc \in Nfc /\ Queues(nfc) /\ Phase(nfc)
  BY <1>1, Types DEF WInv, Window, Running, Up
<1>3. fl \in SUBSET Flag /\ st \in State /\ st \in Up
  <2>1. nfc.flags \in SUBSET Flag
    BY <1>2, Fields
  <2> QED
    BY <1>1, <2>1 DEF State, Up
<1>4. "POWER_CYCLE_NFCC" \in fl => "POWER_CYCLE_NFCC" \in nfc.flags
  OBVIOUS
<1> HIDE DEF fl, st
<1>5. /\ a.st = nfc.st /\ a.conn = nfc.conn /\ SameCommand(nfc, a) /\ a.q = nfc.q
      /\ a.flags = fl /\ Linked(nfc, a)
      /\ b \in Nfc /\ b.st = st /\ b.conn = nfc.conn /\ SameCommand(nfc, b) /\ b.q = nfc.q
      /\ b.flags = nfc.flags /\ Linked(nfc, b)
  BY <1>2, <1>3, Zenon DEF Nfc, SameCommand, Linked
<1> HIDE DEF a, b
<1>6. CASE nfc' = a
  <2>1. Queues(nfc') /\ Phase(nfc') /\ \A s, x : Fits(nfc, s, x) => Fits(nfc', s, x)
    BY <1>2, <1>4, <1>5, <1>6, UpFlags
  <2>2. nfc'.st \in Up /\ nfc'.open = nfc.open /\ nfc'.tml = nfc.tml /\ nfc'.halq = nfc.halq
        /\ SameCommand(nfc, nfc')
    BY <1>2, <1>5, <1>6 DEF Linked
  <2> QED
    BY <1>1, <1>2, <2>1, <2>2, UpKeeps
<1>7. CASE nfc' = SendCmd(b, "DEACTIVATE")
  <2>1. Sound(b) /\ b.st \in Up
    BY <1>2, <1>3, <1>5 DEF Sound, SameCommand
  <2>2. Queues(b) /\ Phase(b) /\ \A s, x : Fits(nfc, s, x) => Fits(b, s, x)
    BY <1>2, <1>5, <2>1, UpMoves
  <2>3. "DEACTIVATE" \in Header /\ "DEACTIVATE" \notin CoreStart
    BY DEF Header, CoreStart
  <2>4. Sends(b, nfc', b.q \o NewCommand(b, "DEACTIVATE", "plain"))
    BY <1>7, <2>1, <2>3, SendCmdSends
  <2>5. /\ b.q \o NewCommand(b, "DEACTIVATE", "plain") \in Seq(Command)
        /\ \A c \in Range(b.q \o NewCommand(b, "DEACTIVATE", "plain")) :
             Regular(c) /\ c.hdr \notin CoreStart
    BY <2>1, <2>2, <2>3, NewRegular
  <2> QED
    BY <1>1, <1>2, <1>5, <2>1, <2>2, <2>4, <2>5, UpSendsOne
<1> QED
  BY <1>1, <1>6, <1>7

-------------------------------------------------------------------------------
(* The client thread and the NFCC.                                           *)

\* The fields that neither the client thread nor the NFCC changes.
Outer(n, m) ==
  /\ m.st = n.st /\ m.conn = n.conn /\ m.tml = n.tml /\ m.window = n.window /\ m.last = n.last
  /\ m.timer = n.timer /\ m.cback = n.cback /\ m.nxp = n.nxp /\ m.q = n.q /\ m.flags = n.flags
  /\ m.reports = n.reports

\* The client thread takes the message e from its queue.
Passing(e) ==
  /\ e \in Message /\ e \in Range(nfc.halq) /\ e \in OnWay /\ e.hdr # "OPEN_FAILED"
  /\ ~checked /\ nfc.halq # <<>>
  /\ Queues(nfc) /\ Phase(nfc) /\ Mail /\ Outside /\ Healthy /\ Spent
  /\ Fits(nfc, ready \/ checked, e)
  /\ Outer(nfc, nfc') /\ nfc'.wire = nfc.wire /\ nfc'.open = nfc.open
  /\ Queues(nfc') /\ Phase(nfc') /\ \A s, x : Fits(nfc, s, x) => Fits(nfc', s, x)
  /\ Range(nfc'.halq) \subseteq Range(nfc.halq) /\ Range(nfc.halq) \subseteq {e} \cup Range(nfc'.halq)
  /\ Lined(mbox, nfc'.halq) /\ Lined(Append(mbox, e), nfc'.halq)
  /\ Range(Append(mbox, e)) = Range(mbox) \cup {e}
  /\ \A m \in Range(mbox) : Before(m, e)
  /\ \A m \in Range(nfc'.halq) : Before(e, m)

\* The client thread takes the head of its queue.
LEMMA ClientTakes ==
  ASSUME IInv, WInv, Running, Next1, nfc' = DropHead
  PROVE  Passing(Head(nfc.halq))
<1> DEFINE e  == Head(nfc.halq)
           hq == Tail(nfc.halq)
<1>1. nfc.halq # <<>> /\ ~checked /\ nfc' = [nfc EXCEPT !.halq = hq]
  BY DEF Next1, DropHead
<1>2. Queues(nfc) /\ Phase(nfc) /\ Mail /\ Outside /\ Healthy /\ Spent
  BY DEF WInv, Window
<1>3. nfc \in Nfc /\ mbox \in Seq(Message) /\ nfc.halq \in Seq(Message)
  BY Types
<1>4. /\ hq \in Seq(Message) /\ e \in Message /\ e \in Range(nfc.halq)
      /\ Range(hq) \subseteq Range(nfc.halq) /\ Range(nfc.halq) \subseteq {e} \cup Range(hq)
  BY <1>1, <1>3, RangeTail
<1>5. /\ Lined(mbox, hq) /\ Lined(Append(mbox, e), hq)
      /\ \A m \in Range(mbox) : Before(m, e)
      /\ \A m \in Range(hq) : Before(e, m)
  BY <1>1, <1>2, <1>3, LinedPassed DEF Mail
<1>6. Range(Append(mbox, e)) = Range(mbox) \cup {e}
  BY <1>3, <1>4, RangeAppend
<1> HIDE DEF hq, e
<1>7. Outer(nfc, nfc') /\ nfc'.wire = nfc.wire /\ nfc'.open = nfc.open /\ nfc'.halq = hq
  BY <1>1, <1>3, Zenon DEF Nfc, Outer
<1>8. Queues(nfc') /\ Phase(nfc') /\ \A s, x : Fits(nfc, s, x) => Fits(nfc', s, x)
  BY <1>2, <1>7, Twin DEF Outer, SameCommand
<1>9. e \in OnWay /\ e.hdr # "OPEN_FAILED"
  BY <1>2, <1>4 DEF OnWay, Mail, Lined
<1>10. Fits(nfc, ready \/ checked, e)
  BY <1>2, <1>9 DEF Mail
<1>11. Passing(e)
  BY <1>1, <1>2, <1>4, <1>5, <1>6, <1>7, <1>8, <1>9, <1>10 DEF Passing
<1> QED
  BY <1>11 DEF e

\* The message is posted to the task's mailbox.
LEMMA PassingOn ==
  ASSUME NEW e, Passing(e), mbox' = Append(mbox, e), nfc.st = "W4_HAL_CLOSE" => e.type = "HAL",
         ready' = ready, checked' = checked, rf' = rf, budget' = budget
  PROVE  WInv'
<1>1. OnWay' = OnWay
  BY DEF Passing, OnWay
<1>2. nfc.tml \/ nfc.st # "W4_HAL_OPEN"
  BY DEF Passing, Mail
<1>3. Mail'
  <2>1. \A m \in OnWay' : Fits(nfc', ready' \/ checked', m)
    BY <1>1 DEF Passing, Mail
  <2>2. nfc'.st = "W4_HAL_CLOSE" => \A m \in Range(mbox') : m.type = "HAL"
    BY DEF Passing, Mail, Outer
  <2> QED
    BY <1>2, <2>1, <2>2 DEF Passing, Mail, Outer
<1>4. Outside'
  BY DEF Passing, Outside, Outer
<1>5. Running' /\ Faultless' => Healthy'
  BY <1>1 DEF Passing, Healthy, Outer, Faultless, Running
<1> QED
  BY <1>3, <1>4, <1>5, Build DEF Passing, Spent

\* The stack does not run any more.
LEMMA Crashed ==
  ASSUME IInv, WInv, ~Running, nfc'.st = nfc.st, Spent'
  PROVE  WInv'
BY Build DEF Running

\* Every step of the client thread.
LEMMA ClientWindow ==
  ASSUME IInv, WInv, Client
  PROVE  WInv'
<1> DEFINE e == Head(nfc.halq)
<1>1. nfc \in Nfc /\ mbox \in Seq(Message)
  BY Types
<1>2. Spent' /\ nfc'.st = nfc.st
  <2>1. budget' = budget /\ (nfc' = nfc \/ nfc' = DropHead)
    BY DEF Client, ClientOpenCplt, ClientSendReady, ClientHalEvent, ClientData
  <2>2. nfc'.st = nfc.st
    <3> DEFINE hq == Tail(nfc.halq)
    <3>1. nfc' = nfc \/ nfc' = [nfc EXCEPT !.halq = hq]
      BY <2>1 DEF DropHead
    <3> HIDE DEF hq
    <3> QED
      BY <1>1, <3>1, Zenon DEF Nfc
  <2> QED
    BY <2>1, <2>2 DEF WInv, Spent
<1>3. CASE ~Running
  BY <1>2, <1>3, Crashed
<1>4. CASE Running /\ ClientSendReady
  <2>1. checked /\ ~checked' /\ ready' /\ nfc' = nfc /\ mbox' = mbox /\ rf' = rf /\ budget' = budget
    BY <1>4 DEF ClientSendReady
  <2>2. Queues(nfc) /\ Phase(nfc) /\ Mail /\ Outside /\ Healthy
    BY <1>4 DEF WInv, Window
  <2>3. OnWay' = OnWay
    BY <2>1 DEF OnWay
  <2>4. Mail'
    BY <2>1, <2>2, <2>3 DEF Mail
  <2>5. Outside'
    BY <2>1, <2>2 DEF Outside
  <2>6. Running' /\ Faultless' => Healthy'
    BY <1>4, <2>1, <2>2, <2>3 DEF Healthy, Faultless
  <2> QED
    BY <1>2, <2>1, <2>2, <2>4, <2>5, <2>6, Build
<1>5. CASE Running /\ ClientHalEvent
  <2>1. Passing(e)
    BY <1>5, ClientTakes DEF ClientHalEvent
  <2> QED
    BY <1>5, <2>1, PassingOn DEF ClientHalEvent
<1>6. CASE Running /\ ClientData /\ nfc.st # "W4_HAL_CLOSE"
  <2>1. Passing(e)
    BY <1>6, ClientTakes DEF ClientData
  <2> QED
    BY <1>6, <2>1, PassingOn DEF ClientData
<1>7. CASE Running /\ ClientData /\ nfc.st = "W4_HAL_CLOSE"
  <2>1. Passing(e)
    BY <1>7, ClientTakes DEF ClientData
  <2> HIDE DEF e
  <2>2. mbox' = mbox /\ ready' = ready /\ checked' = checked /\ rf' = rf
    BY <1>7 DEF ClientData
  <2>3. OnWay' \subseteq OnWay
    BY <2>1, <2>2 DEF Passing, OnWay
  <2>4. nfc'.st = "W4_HAL_CLOSE" /\ nfc'.window = 1 /\ ~nfc.tml /\ ~nfc'.tml
    BY <1>2, <1>7, <2>1 DEF Passing, Phase
  <2>5. Mail'
    BY <1>7, <2>1, <2>2, <2>3, <2>4 DEF Passing, Mail
  <2>6. Outside'
    BY <2>1, <2>2 DEF Passing, Outside, Outer
  <2>7. Running' /\ Faultless' => Healthy'
    <3>1. budget' = budget
      BY <1>7 DEF ClientData
    <3> QED
      BY <1>7, <2>1, <2>2, <2>3, <2>4, <3>1 DEF Passing, Healthy, Faultless
  <2> QED
    BY <1>2, <2>1, <2>5, <2>6, <2>7, Build DEF Passing
<1>8. CASE Running /\ ClientOpenCplt
  <2>1. Passing(e) /\ e = Hal("OPEN_CPLT") /\ mbox' = mbox /\ ready' = ready /\ rf' = rf
        /\ budget' = budget
    BY <1>8, ClientTakes DEF ClientOpenCplt
  <2>2. checked' <=> nfc.st = "W4_HAL_OPEN"
    BY <1>8, Zenon DEF ClientOpenCplt
  <2> HIDE DEF e
  <2>3. e.hdr = "OPEN_CPLT" /\ e.type = "HAL"
    BY <2>1 DEF Hal
  <2>4. mbox = <<>>
    <3>1. Range(mbox) = {}
      BY <2>1, <2>3 DEF Passing, Before
    <3> QED
      BY <1>1, <3>1, RangeEmpty
  <2>5. /\ OnWay' = Range(nfc'.halq) /\ OnWay' \subseteq OnWay
        /\ \A m \in OnWay' : m.hdr \notin {"OPEN_CPLT", "OPEN_FAILED"}
    <3>1. OnWay' = Range(nfc'.halq)
      BY <2>1, <2>4, LinedEmpty DEF OnWay
    <3>2. \A m \in Range(nfc'.halq) : m.hdr # "OPEN_FAILED" /\ m \in OnWay
      BY <2>1 DEF Passing, Lined, OnWay
    <3>3. \A m \in Range(nfc'.halq) : m.hdr # "OPEN_CPLT"
      BY <2>1 DEF Passing, Before
    <3> QED
      BY <3>1, <3>2, <3>3
  <2>6. CASE nfc.st = "W4_HAL_OPEN"
    <3>1. ~ready /\ checked' /\ nfc.window = 1 /\ nfc.tml
      BY <2>1, <2>2, <2>3, <2>6 DEF Passing, Fits, Mail
    <3>2. \A m \in OnWay' : Fits(nfc', TRUE, m)
      <4> SUFFICES ASSUME NEW m \in OnWay'
                   PROVE  Fits(nfc', TRUE, m)
        OBVIOUS
      <4>1. Fits(nfc', ready \/ checked, m) /\ m.hdr \notin {"OPEN_CPLT", "OPEN_FAILED"}
        BY <2>1, <2>5 DEF Passing, Mail
      <4> QED
        BY <4>1 DEF Fits
    <3>3. Mail'
      BY <1>2, <2>1, <2>4, <2>6, <3>1, <3>2 DEF Mail, Passing, Outer
    <3>4. Outside'
      BY <2>1, <2>6, <3>1 DEF Outside, Passing, Outer, Starting
    <3>5. Running' /\ Faultless' => Healthy'
      <4> SUFFICES ASSUME Faultless
                   PROVE  Healthy'
        BY <2>1 DEF Faultless
      <4>1. nfc'.tml /\ nfc'.open /\ nfc'.window = 1 /\ nfc'.st \notin Down
        BY <1>8, <2>1, <2>6, <3>1 DEF Passing, Outer, Healthy
      <4>2. \A m \in OnWay' : m.hdr # "ERROR" /\ (m.type = "RSP" => m.res = "ok")
        BY <1>8, <2>1, <2>5 DEF Passing, Healthy
      <4> QED
        BY <4>1, <4>2 DEF Healthy
    <3> QED
      BY <1>2, <2>1, <3>3, <3>4, <3>5, Build DEF Passing
  <2>7. CASE nfc.st # "W4_HAL_OPEN"
    <3>1. nfc.st = "W4_HAL_CLOSE" /\ ~checked' /\ nfc.window = 1 /\ ~nfc.tml
      BY <2>1, <2>2, <2>3, <2>7 DEF Passing, Fits, Phase
    <3>2. \A m \in OnWay' : Fits(nfc', ready' \/ checked', m)
      <4> SUFFICES ASSUME NEW m \in OnWay'
                   PROVE  Fits(nfc', ready' \/ checked', m)
        OBVIOUS
      <4>1. Fits(nfc', ready \/ checked, m)
        BY <2>1, <2>5 DEF Passing, Mail
      <4> QED
        BY <2>1, <3>1, <4>1 DEF Fits, Passing
    <3>3. Mail'
      BY <1>2, <2>1, <2>4, <3>1, <3>2 DEF Mail, Passing, Outer
    <3>4. Outside'
      BY <2>1, <3>1 DEF Outside, Passing, Outer
    <3>5. Running' /\ Faultless' => Healthy'
      BY <1>8, <2>1, <2>5, <3>1 DEF Passing, Outer, Healthy, Faultless
    <3> QED
      BY <1>2, <2>1, <3>3, <3>4, <3>5, Build DEF Passing
  <2> QED
    BY <2>6, <2>7
<1> QED
  BY <1>3, <1>4, <1>5, <1>6, <1>7, <1>8 DEF Client

\* What the reader puts into the client thread's queue.
LEMMA Outward ==
  ASSUME IInv, WInv, Running, nfc.open, Outer(nfc, nfc'),
         nfc'.wire # <<>> => nfc'.wire = nfc.wire /\ nfc'.open,
         Lined(mbox, nfc'.halq),
         \A e \in Range(nfc'.halq) : e \in Range(nfc.halq) \/ Fits(nfc', ready \/ checked, e),
         mbox' = mbox, ready' = ready, checked' = checked
  PROVE  Queues(nfc') /\ Phase(nfc') /\ Mail'
<1>1. Queues(nfc) /\ Phase(nfc) /\ Mail
  BY DEF WInv, Window
<1>2. nfc.tml /\ nfc.st # "W4_HAL_CLOSE"
  BY <1>1 DEF Phase
<1>3. Queues(nfc')
  BY <1>1 DEF Queues, Outer
<1>4. Phase(nfc')
  BY <1>1 DEF Phase, Outer
<1>5. \A m \in OnWay' : m \in OnWay \/ Fits(nfc', ready \/ checked, m)
  BY DEF OnWay
<1>6. \A m \in OnWay : Fits(nfc', ready \/ checked, m)
  <2> SUFFICES ASSUME NEW m \in OnWay
               PROVE  Fits(nfc', ready \/ checked, m)
    OBVIOUS
  <2>1. Fits(nfc, ready \/ checked, m)
    BY <1>1 DEF Mail
  <2> QED
    BY <1>2, <2>1 DEF Fits, Answers, Outer
<1>7. Mail'
  BY <1>1, <1>2, <1>5, <1>6 DEF Mail, Outer
<1> QED
  BY <1>3, <1>4, <1>7

\* While the transport is open, no HAL event but its open is on its way.
LEMMA OpenMail ==
  ASSUME WInv, Running, nfc.open
  PROVE  \A m \in OnWay : m.hdr \notin {"ERROR", "OPEN_FAILED", "CLOSE_CPLT"}
<1>1. Phase(nfc) /\ Mail
  BY DEF WInv, Window
<1> QED
  BY <1>1 DEF Phase, Mail, Fits

\* A message goes behind all that is on its way.
LEMMA Behind ==
  ASSUME IInv, WInv, Running, NEW e \in Message, e.hdr # "OPEN_FAILED",
         \A m \in OnWay : Before(m, e)
  PROVE  /\ Lined(mbox, Append(nfc.halq, e))
         /\ Append(nfc.halq, e) \in Seq(Message)
         /\ Range(Append(nfc.halq, e)) = Range(nfc.halq) \cup {e}
<1>1. mbox \in Seq(Message) /\ nfc.halq \in Seq(Message) /\ Lined(mbox, nfc.halq)
  BY Types DEF WInv, Window, Mail
<1>2. (\A m \in Range(mbox) : Before(m, e)) /\ (\A m \in Range(nfc.halq) : Before(m, e))
  BY DEF OnWay
<1> QED
  BY <1>1, <1>2, LinedAdded, RangeAppend

\* RF goes on as the stack says.
LEMMA NfccNotifyWindow ==
  ASSUME IInv, WInv, NfccNotify
  PROVE  WInv'
<1>1. PICK h \in {"ACTIVATED", "LISTEN_ACTIVATED", "DEACTIVATED"} :
        nfc' = [nfc EXCEPT !.halq = Append(nfc.halq, Ntf(h))]
  BY DEF NfccNotify
<1>2. /\ nfc.open /\ Spend("ntf") /\ rf # "idle" /\ rf' # "idle"
      /\ mbox' = mbox /\ ready' = ready /\ checked' = checked
  BY DEF NfccNotify
<1> DEFINE e  == Ntf(h)
           hq == Append(nfc.halq, e)
<1>3. Spent' /\ (Faultless' <=> Faultless) /\ nfc \in Nfc
  BY <1>2, Spending, Types DEF WInv
<1>4. e \in Message /\ e.type = "NTF" /\ e.hdr \in {"ACTIVATED", "LISTEN_ACTIVATED", "DEACTIVATED"}
  BY NtfMessage DEF Ntf, Notification
<1> HIDE DEF hq
<1>5. Outer(nfc, nfc') /\ nfc'.halq = hq /\ nfc'.wire = nfc.wire /\ nfc'.open = nfc.open
  BY <1>1, <1>3, Zenon DEF Nfc, Outer, hq
<1> HIDE DEF e
<1>6. CASE ~Running
  BY <1>3, <1>5, <1>6, Crashed DEF Outer
<1>7. CASE Running
  <2>1. Outside /\ Healthy /\ Phase(nfc) /\ Mail
    BY <1>7 DEF WInv, Window
  <2>2. nfc.st \in Up /\ nfc.tml /\ ~ready /\ ~checked
    BY <1>2, <2>1 DEF Outside, Phase, Up, Starting, Down
  <2>3. \A m \in OnWay : Before(m, e)
    BY <1>2, <1>4, <1>7, OpenMail DEF Before
  <2>4. Lined(mbox, hq) /\ Range(hq) = Range(nfc.halq) \cup {e}
    BY <1>4, <1>7, <2>3, Behind DEF hq
  <2>5. Fits(nfc', ready \/ checked, e)
    BY <1>4, <1>5, <2>2 DEF Fits, Outer, Up
  <2>6. Queues(nfc') /\ Phase(nfc') /\ Mail'
    <3>1. \A x \in Range(nfc'.halq) : x \in Range(nfc.halq) \/ Fits(nfc', ready \/ checked, x)
      BY <1>5, <2>4, <2>5
    <3> QED
      BY <1>2, <1>5, <1>7, <2>4, <3>1, Outward
  <2>7. Outside'
    BY <1>2, <1>5, <2>2 DEF Outside, Outer
  <2>8. Running' /\ Faultless' => Healthy'
    <3>1. OnWay' = OnWay \cup {e}
      BY <1>2, <1>5, <2>4 DEF OnWay
    <3> QED
      BY <1>2, <1>3, <1>4, <1>5, <1>7, <2>1, <3>1 DEF Healthy, Outer
  <2> QED
    BY <1>3, <2>6, <2>7, <2>8, Build
<1> QED
  BY <1>6, <1>7

\* Commands are lost, or the bus fails.
LEMMA NfccFaultWindow ==
  ASSUME IInv, WInv, NfccLose \/ TransportError
  PROVE  WInv'
<1> DEFINE e  == Hal("ERROR")
           hq == Append(nfc.halq, e)
           w  == <<>>
<1>1. /\ nfc.open /\ Spend("faults") /\ rf' = rf
      /\ mbox' = mbox /\ ready' = ready /\ checked' = checked
      /\ \/ nfc' = [nfc EXCEPT !.wire = w]
         \/ nfc' = [nfc EXCEPT !.open = FALSE, !.wire = w, !.halq = hq]
  BY DEF NfccLose, TransportError
<1>2. Spent' /\ ~Faultless' /\ nfc \in Nfc
  BY <1>1, Spending, Types DEF WInv
<1>3. e \in Message /\ e.type = "HAL" /\ e.hdr = "ERROR"
  BY HalMessage DEF Hal, HalEvent
<1> HIDE DEF e, w, hq
<1>4. /\ Outer(nfc, nfc') /\ nfc'.wire = w
      /\ \/ nfc'.halq = nfc.halq /\ nfc'.open = nfc.open
         \/ nfc'.halq = hq /\ nfc'.open = FALSE
  BY <1>1, <1>2, Zenon DEF Nfc, Outer
<1>5. CASE ~Running
  BY <1>2, <1>4, <1>5, Crashed DEF Outer
<1>6. CASE Running
  <2>1. Outside /\ Phase(nfc) /\ Mail
    BY <1>6 DEF WInv, Window
  <2>2. \A m \in OnWay : Before(m, e)
    BY <1>1, <1>3, <1>6, OpenMail DEF Before
  <2>3. Lined(mbox, hq) /\ Range(hq) = Range(nfc.halq) \cup {e}
    BY <1>3, <1>6, <2>2, Behind DEF hq
  <2>4. CASE nfc'.halq = nfc.halq /\ nfc'.open = nfc.open
    <3>1. Queues(nfc') /\ Phase(nfc') /\ Mail'
      <4>1. Lined(mbox, nfc'.halq)
        BY <2>1, <2>4 DEF Mail
      <4> QED
        BY <1>1, <1>4, <1>6, <2>4, <4>1, Outward DEF w
    <3>2. Outside'
      BY <1>1, <1>4, <2>1 DEF Outside, Outer
    <3> QED
      BY <1>2, <3>1, <3>2, Build
  <2>5. CASE nfc'.halq = hq /\ nfc'.open = FALSE
    <3>1. Fits(nfc', ready \/ checked, e)
      BY <1>1, <1>3, <1>4, <2>1, <2>5 DEF Fits, Outer, Phase
    <3>2. Queues(nfc') /\ Phase(nfc') /\ Mail'
      <4>1. \A x \in Range(nfc'.halq) : x \in Range(nfc.halq) \/ Fits(nfc', ready \/ checked, x)
        BY <2>3, <2>5, <3>1
      <4> QED
        BY <1>1, <1>4, <1>6, <2>3, <2>5, <4>1, Outward DEF w
    <3>3. Outside'
      BY <1>1, <1>4, <2>1 DEF Outside, Outer
    <3> QED
      BY <1>2, <3>2, <3>3, Build
  <2> QED
    BY <1>4, <2>4, <2>5
<1> QED
  BY <1>5, <1>6

\* The answer takes the place of its command.
LEMMA NfccRespondWindow ==
  ASSUME IInv, WInv, NfccRespond
  PROVE  WInv'
<1> DEFINE c  == Head(nfc.wire)
           w  == Tail(nfc.wire)
<1>1. PICK r \in Result :
        /\ \/ r = "ok" /\ budget' = budget
           \/ Spend("faults")
        /\ nfc' = [nfc EXCEPT !.wire = Tail(nfc.wire),
                              !.halq = Append(nfc.halq, Rsp(c.hdr, c.id, r)) \o NtfAfter(c.hdr)]
  BY DEF NfccRespond
<1>2. /\ nfc.open /\ nfc.wire # <<>> /\ rf' = RfAfter(c.hdr)
      /\ mbox' = mbox /\ ready' = ready /\ checked' = checked
  BY DEF NfccRespond
<1> DEFINE x  == Rsp(c.hdr, c.id, r)
           q1 == Append(nfc.halq, x)
           hq == q1 \o NtfAfter(c.hdr)
           d  == Ntf("DEACTIVATED")
<1>3. /\ nfc \in Nfc /\ Spent' /\ (Faultless' => Faultless /\ r = "ok")
      /\ nfc.wire \in Seq(Command) /\ mbox \in Seq(Message) /\ nfc.halq \in Seq(Message)
  <2>1. nfc \in Nfc /\ nfc.wire \in Seq(Command) /\ mbox \in Seq(Message) /\ nfc.halq \in Seq(Message)
    BY Types, Fields
  <2>2. Spent
    BY DEF WInv
  <2>3. CASE r = "ok" /\ budget' = budget
    BY <2>1, <2>2, <2>3 DEF Spent, Faultless
  <2>4. CASE Spend("faults")
    BY <2>1, <2>2, <2>4, Spending
  <2> QED
    BY <1>1, <2>3, <2>4
<1>4. c \in Command /\ c.hdr \in Header /\ c.id \in Nat
  <2>1. c \in Command
    BY <1>2, <1>3
  <2> QED
    BY <2>1 DEF Command
<1>5. x \in Message /\ x.type = "RSP" /\ x.hdr = c.hdr /\ x.id = c.id /\ x.res = r
  BY <1>4 DEF Message, Rsp
<1>6. d \in Message /\ d.type = "NTF" /\ d.hdr = "DEACTIVATED"
  BY NtfMessage DEF Ntf, Notification
<1>7. NtfAfter(c.hdr) = IF c.hdr = "DEACTIVATE" /\ rf = "active" THEN <<d>> ELSE <<>>
  BY DEF NtfAfter
<1> HIDE DEF w, hq
<1>8. Outer(nfc, nfc') /\ nfc'.halq = hq /\ nfc'.wire = w /\ nfc'.open = nfc.open
  BY <1>1, <1>3, Zenon DEF Nfc, Outer, w, hq
<1>9. CASE ~Running
  BY <1>3, <1>8, <1>9, Crashed DEF Outer
<1>10. CASE Running
  <2>1. Outside /\ Healthy /\ Phase(nfc) /\ Mail /\ Queues(nfc)
    BY <1>10 DEF WInv, Window
  <2>2. nfc.wire = <<nfc.last>> /\ nfc.window = 0 /\ Due(nfc.st, nfc.last.hdr) /\ nfc.tml
    BY <1>2, <2>1 DEF Queues, Phase
  <2>3. c = nfc.last /\ w = <<>>
    BY <2>2 DEF w
  <2> HIDE DEF c, x, d
  <2>4. nfc.st \in Up \cup {"CORE_INIT"} /\ ~ready /\ ~checked
    BY <2>1, <2>2 DEF Due, Outside
  <2>5. nfc.st \notin {"W4_HAL_OPEN", "W4_HAL_CLOSE"}
    BY <2>4 DEF Up
  <2>6. \A m \in OnWay : /\ m.type # "RSP"
                         /\ m.hdr \notin {"ERROR", "OPEN_FAILED", "CLOSE_CPLT"}
    <3>1. \A m \in OnWay : m.type # "RSP"
      BY <1>2, <2>1, <2>5 DEF Mail, Fits
    <3> QED
      BY <1>2, <1>10, <3>1, OpenMail
  <2>7. x.hdr \notin {"OPEN_CPLT", "CLOSE_CPLT", "OPEN_FAILED", "ERROR"}
    BY <1>4, <1>5 DEF Header
  <2>8. Lined(mbox, q1) /\ q1 \in Seq(Message) /\ Range(q1) = Range(nfc.halq) \cup {x}
    <3>1. \A m \in OnWay : Before(m, x)
      BY <2>6, <2>7 DEF Before
    <3> QED
      BY <1>5, <1>10, <2>7, <3>1, Behind
  <2> HIDE DEF q1
  <2>9. Fits(nfc', ready \/ checked, x)
    BY <1>5, <1>8, <2>2, <2>3, <2>4, <2>5, <2>7 DEF Fits, Outer, Answers
  <2>10. ASSUME ~(c.hdr = "DEACTIVATE" /\ rf = "active")
        PROVE  Queues(nfc') /\ Phase(nfc') /\ Mail'
               /\ x \in OnWay' /\ OnWay' \subseteq OnWay \cup {x, d}
    <3>1. hq = q1
      BY <1>7, <2>8, <2>10 DEF hq
    <3>2. Queues(nfc') /\ Phase(nfc') /\ Mail'
      <4>1. \A m \in Range(nfc'.halq) : m \in Range(nfc.halq) \/ Fits(nfc', ready \/ checked, m)
        BY <1>8, <2>8, <2>9, <3>1
      <4> QED
        BY <1>2, <1>8, <1>10, <2>3, <2>8, <3>1, <4>1, Outward
    <3>3. OnWay' = OnWay \cup {x}
      BY <1>2, <1>8, <2>8, <3>1 DEF OnWay
    <3> QED
      BY <3>2, <3>3
  <2>11. ASSUME c.hdr = "DEACTIVATE", rf = "active"
        PROVE  Queues(nfc') /\ Phase(nfc') /\ Mail'
               /\ x \in OnWay' /\ OnWay' \subseteq OnWay \cup {x, d}
    <3>1. hq = Append(q1, d)
      BY <1>6, <1>7, <2>8, <2>11, AppendOne DEF hq
    <3>2. \A m \in OnWay \cup {x} : Before(m, d)
      BY <1>6, <2>6, <2>7 DEF Before
    <3>3. Lined(mbox, hq) /\ Range(hq) = Range(nfc.halq) \cup {x, d}
      <4>1. \A m \in Range(mbox) : Before(m, d)
        BY <3>2 DEF OnWay
      <4>2. \A m \in Range(q1) : Before(m, d)
        BY <2>8, <3>2 DEF OnWay
      <4>3. Range(Append(q1, d)) = Range(q1) \cup {d}
        BY <1>6, <2>8, RangeAppend
      <4>4. Lined(mbox, Append(q1, d))
        BY <1>3, <1>6, <2>8, <4>1, <4>2, LinedAdded
      <4> QED
        BY <2>8, <3>1, <4>3, <4>4
    <3>4. Fits(nfc', ready \/ checked, d)
      <4>1. nfc.st \in Up
        BY <2>1, <2>11 DEF Outside
      <4> QED
        BY <1>6, <1>8, <2>2, <4>1 DEF Fits, Outer
    <3>5. Queues(nfc') /\ Phase(nfc') /\ Mail'
      <4>1. \A m \in Range(nfc'.halq) : m \in Range(nfc.halq) \/ Fits(nfc', ready \/ checked, m)
        BY <1>8, <2>9, <3>3, <3>4
      <4> QED
        BY <1>2, <1>8, <1>10, <2>3, <3>3, <4>1, Outward
    <3>6. OnWay' = OnWay \cup {x, d}
      BY <1>2, <1>8, <3>3 DEF OnWay
    <3> QED
      BY <3>5, <3>6
  <2>12. /\ Queues(nfc') /\ Phase(nfc') /\ Mail'
         /\ x \in OnWay' /\ OnWay' \subseteq OnWay \cup {x, d}
    BY <2>10, <2>11
  <2>13. Outside'
    <3>1. rf' # "idle" => nfc.st \in Up
      <4>1. CASE c.hdr = "DISCOVER"
        BY <2>2, <2>3, <4>1 DEF Due, CoreStart
      <4>2. CASE c.hdr # "DISCOVER"
        BY <1>2, <2>1, <4>2 DEF RfAfter, Outside
      <4> QED
        BY <4>1, <4>2
    <3> QED
      BY <1>2, <1>8, <2>4, <3>1 DEF Outside, Outer
  <2>14. Running' /\ Faultless' => Healthy'
    <3> SUFFICES ASSUME Faultless'
                 PROVE  Healthy'
      OBVIOUS
    <3>1. /\ nfc.open /\ nfc.st \notin Down /\ nfc.timer
          /\ \A m \in OnWay : m.hdr # "ERROR" /\ (m.type = "RSP" => m.res = "ok")
      BY <1>2, <1>3, <1>10, <2>1, <2>2 DEF Healthy
    <3>2. \A m \in OnWay' : m.hdr # "ERROR" /\ (m.type = "RSP" => m.res = "ok")
      BY <1>3, <1>5, <1>6, <2>7, <2>12, <3>1
    <3> QED
      BY <1>5, <1>8, <2>2, <2>12, <3>1, <3>2 DEF Healthy, Outer
  <2> QED
    BY <1>3, <2>12, <2>13, <2>14, Build
<1> QED
  BY <1>9, <1>10

-------------------------------------------------------------------------------
(* Vendor callbacks: nothing but the answer to a vendor command makes one.    *)

\* phNxpNciHal_close, nfc_main_notify_enable_status, nfc_enabled and the shut-down make none.
LEMMA HalCloseQuiet ==
  ASSUME NEW n \in Nfc
  PROVE  HalClose(n).reports = n.reports
BY DEF HalClose, Nfc

\* nfc_main_notify_enable_status calls p_resp_cback, no vendor callback.
LEMMA NotifyQuiet ==
  ASSUME NEW n \in Nfc, NEW ok
  PROVE  NotifyEnableStatus(n, ok).reports = n.reports
BY DEF NotifyEnableStatus, Report, Nfc

\* A start that fails makes none.
LEMMA EnabledFailedQuiet ==
  ASSUME NEW n, Consistent(n)
  PROVE  EnabledFailed(n).reports = n.reports
<1> DEFINE a == [n EXCEPT !.st = "NFCC_POWER_OFF_SLEEP"]
           b == [n EXCEPT !.conn = FALSE]
           c == [n EXCEPT !.conn = FALSE, !.st = "NONE"]
<1>1. n \in Nfc /\ "NFCC_POWER_OFF_SLEEP" \in State /\ "NONE" \in State
  BY Fields DEF Consistent, State
<1>2. a \in Nfc /\ b \in Nfc /\ c \in Nfc
      /\ a.reports = n.reports /\ b.reports = n.reports /\ c.reports = n.reports
  BY <1>1, Zenon DEF Nfc
<1> DEFINE an == NotifyEnableStatus(a, FALSE)
           bc == HalClose(b)
           cn == NotifyEnableStatus(c, FALSE)
<1>3. EnabledFailed(n) = an \/ EnabledFailed(n) = bc \/ EnabledFailed(n) = cn
  BY DEF EnabledFailed
<1> HIDE DEF a, b, c
<1>4. an.reports = a.reports /\ bc.reports = b.reports /\ cn.reports = c.reports
  BY <1>2, HalCloseQuiet, NotifyQuiet
<1> HIDE DEF an, bc, cn
<1> QED
  BY <1>2, <1>3, <1>4

\* A start that succeeds makes none.
LEMMA EnabledOkQuiet ==
  ASSUME NEW n, Sound(n)
  PROVE  EnabledOk(n).reports = n.reports
<1> DEFINE a == [n EXCEPT !.st = "IDLE", !.conn = TRUE]
           s == SendCmd(a, "DISCOVER_MAP")
<1>1. n \in Nfc /\ "IDLE" \in State /\ "DISCOVER_MAP" \in Header
  BY DEF Sound, State, Header
<1>2. a \in Nfc /\ a.window = n.window /\ a.reports = n.reports
  BY <1>1, Zenon DEF Nfc
<1>3. EnabledOk(n) = NotifyEnableStatus(s, TRUE)
  BY DEF EnabledOk
<1> HIDE DEF a
<1>4. Sound(a)
  BY <1>2 DEF Sound
<1>5. Sends(a, s, a.q \o NewCommand(a, "DISCOVER_MAP", "plain"))
  BY <1>1, <1>4, SendCmdSends
<1>6. s.reports = a.reports /\ s \in Nfc
  BY <1>1, <1>4, <1>5, SendCmdSound DEF Sends, Alike, Sound, Consistent
<1> HIDE DEF s
<1> QED
  BY <1>2, <1>3, <1>6, NotifyQuiet

\* nfc_task_shutdown_nfcc makes none.
LEMMA ShutdownQuiet ==
  ASSUME NEW n, Consistent(n)
  PROVE  ShutdownNfcc(n).reports = n.reports
<1> DEFINE c == GenCleanup(n)
           hq == Append(c.halq, Hal("OPEN_CPLT"))
           a == [c EXCEPT !.st = "W4_HAL_CLOSE"]
           b == [c EXCEPT !.st = "W4_HAL_OPEN", !.wire = <<>>, !.halq = hq]
           d == [c EXCEPT !.st = "W4_HAL_CLOSE", !.listen = FALSE]
<1>1. n \in Nfc /\ c \in Nfc /\ "W4_HAL_CLOSE" \in State
  BY GenCleanupSound DEF Consistent, Sound, State
<1>2. c.reports = n.reports
  BY <1>1 DEF GenCleanup, Nfc
<1>3. ShutdownNfcc(n) \in {HalClose(a), b, HalClose(d)}
  BY DEF ShutdownNfcc
<1> HIDE DEF c
<1>4. a \in Nfc /\ d \in Nfc
      /\ a.reports = c.reports /\ b.reports = c.reports /\ d.reports = c.reports
  BY <1>1, Zenon DEF Nfc
<1> HIDE DEF a, b, d
<1> QED
  BY <1>2, <1>3, <1>4, HalCloseQuiet

\* A HAL event makes none.
LEMMA HandleHalQuiet ==
  ASSUME NEW n, Consistent(n), NEW e \in HalEvent, e # "OPEN_CPLT"
  PROVE  HandleHalEvt(n, e).reports = n.reports
<1> DEFINE a == [n EXCEPT !.st = "NONE"]
           fl == n.flags \ {"POWER_OFF_SLEEP"}
           b == [n EXCEPT !.flags = fl, !.st = "NFCC_POWER_OFF_SLEEP"]
           c == IF n.init /\ n.st = "W4_POST_INIT_CPLT" THEN EnabledOk(n) ELSE n
           r == HandleHalEvt(n, e)
<1>1. n \in Nfc /\ Sound(n) /\ "NONE" \in State /\ "NFCC_POWER_OFF_SLEEP" \in State
      /\ fl \in SUBSET Flag
  BY Fields, Zenon DEF Consistent, State
<1>2. CASE e = "OPEN_FAILED" \/ e = "ERROR"
  BY <1>2, EnabledFailedQuiet DEF HandleHalEvt
<1>3. CASE e = "CLOSE_CPLT"
  <2> DEFINE an == NotifyEnableStatus(a, FALSE)
             bo == Report(b, "POWER_OFF")
             ra == Report(a, "DISABLE")
             ad == [ra EXCEPT !.resp = FALSE]
  <2>1. r = n \/ r = an \/ r = bo \/ r = ad
    BY <1>3 DEF HandleHalEvt
  <2> HIDE DEF r, fl
  <2>2. a \in Nfc /\ b \in Nfc /\ a.reports = n.reports /\ b.reports = n.reports
    BY <1>1, Zenon DEF Nfc
  <2> HIDE DEF a, b
  <2>3. "POWER_OFF" \in Event /\ "DISABLE" \in Event
    BY DEF Event
  <2>4. an.reports = n.reports /\ bo.reports = n.reports /\ ra.reports = n.reports /\ ra \in Nfc
    <3>1. an.reports = a.reports
      BY <2>2, NotifyQuiet
    <3>2. Untouched(b, bo) /\ Untouched(a, ra) /\ ra \in Nfc
      BY <2>2, <2>3, ReportTells
    <3> QED
      BY <2>2, <3>1, <3>2 DEF Untouched
  <2> HIDE DEF an, bo, ra
  <2>5. ad.reports = n.reports
    BY <2>4, Zenon DEF Nfc
  <2> HIDE DEF ad
  <2>6. r.reports = n.reports
    BY <2>1, <2>4, <2>5
  <2> QED
    BY <2>6 DEF r
<1>4. CASE e = "POST_INIT_CPLT"
  <2>1. r = [c EXCEPT !.init = FALSE]
    BY <1>4 DEF HandleHalEvt
  <2>2. c \in Nfc /\ c.reports = n.reports
    BY <1>1, EnabledOkQuiet, EnabledOkSound DEF Consistent, Sound
  <2> HIDE DEF c, r
  <2>3. r.reports = n.reports
    BY <2>1, <2>2, Zenon DEF Nfc
  <2> QED
    BY <2>3 DEF r
<1> QED
  BY <1>2, <1>3, <1>4 DEF HalEvent

\* The task's other events, a notification while no NXP command is out, and the recovery.
LEMMA TaskQuiet ==
  ASSUME IInv, WInv, TransportReady \/ HandleNtf \/ HandleHal \/ HandleResetNtf \/ Timers
  PROVE  nfc'.reports = nfc.reports
<1> DEFINE a == [nfc EXCEPT !.st = "CORE_INIT"]
           b == Arrived(nfc)
           c == [nfc EXCEPT !.timer = FALSE]
           d == [nfc EXCEPT !.listen = FALSE]
<1>1. Consistent(nfc) /\ Rest /\ Sound(nfc) /\ nfc \in Nfc
  BY Split, Fields DEF Consistent
<1>2. /\ a \in Nfc /\ a.reports = nfc.reports /\ a.window = nfc.window
      /\ c \in Nfc /\ c.reports = nfc.reports
      /\ d \in Nfc /\ d.reports = nfc.reports
  <2>1. "CORE_INIT" \in State
    BY DEF State
  <2> QED
    BY <1>1, <2>1, Zenon DEF Nfc
<1>3. b \in Nfc /\ b.reports = nfc.reports /\ b.nxp = nfc.nxp
  BY <1>1, ArrivedFields DEF Alike, SameCommand
<1> HIDE DEF a, b, c, d
<1>4. CASE TransportReady
  <2>1. nfc' = SendCmd(a, "CORE_RESET") /\ "CORE_RESET" \in Header
    BY <1>4 DEF TransportReady, Header, a
  <2>2. Sound(a)
    BY <1>1, <1>2 DEF Sound
  <2>3. Sends(a, nfc', a.q \o NewCommand(a, "CORE_RESET", "plain"))
    BY <2>1, <2>2, SendCmdSends
  <2> QED
    BY <1>2, <2>3 DEF Sends, Alike
<1>5. CASE HandleNtf
  <2>1. ~nfc.nxp
    BY <1>5 DEF HandleNtf, WInv, Window, Queues
  <2>2. Head(mbox).hdr \in Notification \ {"RESET"}
    BY <1>1, <1>5, <2>1, TakeHead, PostedFields DEF HandleNtf
  <2>3. nfc' = ProcessNtf(b, Head(mbox).hdr)
    BY <1>3, <1>5, <2>1 DEF HandleNtf, b
  <2> QED
    BY <1>3, <2>2, <2>3 DEF ProcessNtf, Nfc, Notification
<1>6. CASE HandleHal
  <2>1. Head(mbox).hdr \in HalEvent /\ Head(mbox).hdr # "OPEN_CPLT"
    BY <1>1, <1>6, TakeHead, PostedFields DEF HandleHal
  <2> QED
    BY <1>1, <1>6, <2>1, HandleHalQuiet DEF HandleHal
<1>7. CASE HandleResetNtf \/ Timers
  <2>1. nfc' \in {CmdTimeoutRecovery(b), CmdTimeoutRecovery(c), CmdTimeoutRecovery(d)}
    BY <1>7 DEF HandleResetNtf, Timers, CmdTimeout, ListenTimeout, Recover, b, c, d
  <2>2. PICK n \in {b, c, d} : nfc' = CmdTimeoutRecovery(n)
    BY <2>1
  <2>3. n \in Nfc /\ n.reports = nfc.reports
    BY <1>2, <1>3
  <2> QED
    BY <2>2, <2>3 DEF CmdTimeoutRecovery, Nfc
<1> QED
  BY <1>4, <1>5, <1>6, <1>7

\* NFC_Enable, NFC_Disable and the power modes.
LEMMA PowerQuiet ==
  ASSUME IInv, Enable \/ Disable \/ PowerDown \/ PowerUp
  PROVE  nfc'.reports = nfc.reports
<1>1. Consistent(nfc) /\ nfc \in Nfc /\ nfc.flags \in SUBSET Flag
  BY Split, Fields DEF Consistent
<1>2. ASSUME NEW n, Consistent(n), n.reports = nfc.reports, NEW ow,
             nfc' = [ShutdownNfcc(n) EXCEPT !.owed = ow]
      PROVE  nfc'.reports = nfc.reports
  <2> DEFINE s == ShutdownNfcc(n)
  <2>1. s \in Nfc /\ s.reports = n.reports
    BY <1>2, ShutdownQuiet, ShutdownNfccSound DEF Consistent, Sound
  <2>2. nfc' = [s EXCEPT !.owed = ow]
    BY <1>2
  <2> HIDE DEF s
  <2> QED
    BY <1>2, <2>1, <2>2, Zenon DEF Nfc
<1>3. ASSUME NEW n \in Nfc, n.reports = nfc.reports, nfc' = HalOpened(n) \/ nfc' = HalOpenFailed(n)
      PROVE  nfc'.reports = nfc.reports
  BY <1>3 DEF HalOpened, HalOpenFailed, Nfc
<1>4. CASE Enable
  <2> DEFINE ow == {"ENABLE"}
             f  == Fresh(nfc)
             n  == [f EXCEPT !.st = "W4_HAL_OPEN", !.resp = TRUE, !.owed = ow]
  <2>1. nfc' = HalOpened(n) \/ nfc' = HalOpenFailed(n)
    BY <1>4 DEF Enable
  <2>2. f \in Nfc
    BY <1>1, FreshSound DEF Consistent, Sound
  <2>3. f.reports = nfc.reports
    BY <1>1, Zenon DEF Fresh, Nfc
  <2>4. ow \in SUBSET Event /\ "W4_HAL_OPEN" \in State
    BY DEF Event, State
  <2> HIDE DEF ow, f
  <2>5. n \in Nfc /\ n.reports = f.reports
    BY <2>2, <2>4, Zenon DEF Nfc
  <2> HIDE DEF n
  <2> QED
    BY <1>3, <2>1, <2>3, <2>5
<1>5. CASE Disable
  <2> DEFINE ow == {"DISABLE"}
             z == {}
             a == [nfc EXCEPT !.st = "NONE", !.resp = FALSE, !.owed = z]
  <2>1. nfc' = a \/ nfc' = [ShutdownNfcc(nfc) EXCEPT !.owed = ow]
    BY <1>5 DEF Disable
  <2> HIDE DEF ow, z
  <2>2. a.reports = nfc.reports
    BY <1>1, Zenon DEF Nfc
  <2> HIDE DEF a
  <2> QED
    BY <1>1, <1>2, <2>1, <2>2
<1>6. CASE PowerDown
  <2>1. PICK f \in {"POWER_OFF_SLEEP", "POWER_CYCLE_NFCC"} :
          nfc' = [ShutdownNfcc([nfc EXCEPT !.flags = @ \cup {f}])
                    EXCEPT !.owed = {IF f = "POWER_OFF_SLEEP" THEN "POWER_OFF" ELSE "RESTART"}]
    BY <1>6 DEF PowerDown
  <2> DEFINE fl == nfc.flags \cup {f}
             ow == {IF f = "POWER_OFF_SLEEP" THEN "POWER_OFF" ELSE "RESTART"}
             n  == [nfc EXCEPT !.flags = fl]
  <2>2. nfc' = [ShutdownNfcc(n) EXCEPT !.owed = ow]
    BY <2>1
  <2>3. fl \in SUBSET Flag
    BY <1>1, <2>1 DEF Flag
  <2>4. fl \cap {"CONTROL_REQUESTED", "DISCOVER_PENDING"} \subseteq nfc.flags
    BY <2>1
  <2> HIDE DEF fl, ow
  <2>5. Consistent(n)
    BY <1>1, <2>3, <2>4, FlagsSound
  <2>6. n.reports = nfc.reports
    BY <1>1, Zenon DEF Nfc
  <2> HIDE DEF n
  <2> QED
    BY <1>2, <2>2, <2>5, <2>6
<1>7. CASE PowerUp
  <2> DEFINE fl == nfc.flags \cup {"RESTARTING"}
             ow == {"RESTART"}
             n == [nfc EXCEPT !.st = "W4_HAL_OPEN", !.flags = fl, !.owed = ow]
  <2>1. nfc' = HalOpened(n) \/ nfc' = HalOpenFailed(n)
    BY <1>7 DEF PowerUp
  <2>2. fl \in SUBSET Flag /\ ow \in SUBSET Event /\ "W4_HAL_OPEN" \in State
    BY <1>1 DEF Flag, Event, State
  <2> HIDE DEF fl, ow
  <2>3. n \in Nfc /\ n.reports = nfc.reports
    BY <1>1, <2>2, Zenon DEF Nfc
  <2> HIDE DEF n
  <2> QED
    BY <1>3, <2>1, <2>3
<1> QED
  BY <1>4, <1>5, <1>6, <1>7

\* Sending a command, and what the client thread and the NFCC do.
LEMMA UseQuiet ==
  ASSUME IInv, Send \/ DiscoveryStart \/ Deactivate
  PROVE  nfc'.reports = nfc.reports
<1>1. Consistent(nfc) /\ Sound(nfc) /\ nfc \in Nfc /\ nfc.flags \in SUBSET Flag /\ nfc.st \in State
  BY Split, Fields DEF Consistent
<1>2. "SET_CONFIG" \in Header /\ "PROP" \in Header /\ "DEACTIVATE" \in Header
  BY DEF Header
<1>3. CASE Send
  <2>1. \/ nfc' = SendCmd(nfc, "SET_CONFIG")
        \/ \E h \in Header, k \in {"vsc", "nxp"} : nfc' = SendVendorCmd(nfc, h, k)
    BY <1>2, <1>3 DEF Send
  <2>2. \E all : Sends(nfc, nfc', all)
    BY <1>1, <1>2, <2>1, SendCmdSends, SendVendorCmdSends
  <2> QED
    BY <2>2 DEF Sends, Alike
<1>4. CASE DiscoveryStart
  <2> DEFINE fl == nfc.flags \cup {"DISCOVER_PENDING", "CONTROL_REQUESTED"}
             n  == [nfc EXCEPT !.flags = fl]
  <2>1. nfc' = CheckCmdQueue(n, <<>>)
    BY <1>4 DEF DiscoveryStart
  <2>2. fl \in SUBSET Flag
    BY <1>1 DEF Flag
  <2> HIDE DEF fl
  <2>3. n \in Nfc /\ n.window = nfc.window /\ n.reports = nfc.reports
    BY <1>1, <2>2, Zenon DEF Nfc
  <2> HIDE DEF n
  <2>4. Sends(n, nfc', n.q \o <<>>)
    BY <1>1, <2>1, <2>3, EmptyCommands, CheckCmdQueueSends DEF Sound
  <2> QED
    BY <2>3, <2>4 DEF Sends, Alike
<1>5. CASE Deactivate
  <2> DEFINE fl == nfc.flags \ {"DISCOVER_PENDING", "CONTROL_REQUESTED"}
             s  == IF nfc.st = "OPEN" THEN "CLOSING" ELSE nfc.st
             a  == [nfc EXCEPT !.flags = fl]
             b  == [nfc EXCEPT !.st = s]
  <2>1. nfc' = a \/ nfc' = SendCmd(b, "DEACTIVATE")
    BY <1>5 DEF Deactivate
  <2>2. s \in State
    BY <1>1 DEF State
  <2> HIDE DEF fl, s
  <2>3. a.reports = nfc.reports /\ b.reports = nfc.reports /\ b.window = nfc.window /\ b \in Nfc
    BY <1>1, <2>2, Zenon DEF Nfc
  <2> HIDE DEF a, b
  <2>4. Sends(b, SendCmd(b, "DEACTIVATE"), b.q \o NewCommand(b, "DEACTIVATE", "plain"))
    BY <1>1, <1>2, <2>3, SendCmdSends DEF Sound
  <2> QED
    BY <2>1, <2>3, <2>4 DEF Sends, Alike
<1> QED
  BY <1>3, <1>4, <1>5

\* The client thread and the NFCC make none.
LEMMA OutsideQuiet ==
  ASSUME IInv, Client \/ Nfcc
  PROVE  nfc'.reports = nfc.reports
<1>1. nfc \in Nfc
  BY Types
<1>2. \/ nfc' = nfc
      \/ \E hq, w : \/ nfc' = [nfc EXCEPT !.halq = hq]
                    \/ nfc' = [nfc EXCEPT !.wire = w]
                    \/ nfc' = [nfc EXCEPT !.wire = w, !.halq = hq]
                    \/ nfc' = [nfc EXCEPT !.open = FALSE, !.wire = w, !.halq = hq]
  BY DEF Client, ClientOpenCplt, ClientSendReady, ClientHalEvent, ClientData, DropHead,
         Nfcc, NfccRespond, NfccLose, NfccReset, NfccNotify, TransportError
<1> QED
  BY <1>1, <1>2, Zenon DEF Nfc

\* A response while the start-up waits for it makes none.
LEMMA StartQuiet ==
  ASSUME NEW n, Consistent(n), n.window = 0, n.q = <<>>, n.conn = FALSE,
         NEW r \in Message, r.hdr \in CoreStart
  PROVE  UpdateWindow(DispatchRsp(n, r)).reports = n.reports
<1> DEFINE d == DispatchRsp(n, r)
<1>0. Sound(n) /\ n \in Nfc /\ r.id \in Nat
  BY MessageKinds DEF Consistent, Sound
<1>1. Sound(d)
  BY <1>0, DispatchRspSound DEF Consistent
<1>2. d = IF r.hdr = "CORE_RESET" THEN ProcResetRsp(n, r) ELSE ProcInitRsp(n, r)
  BY DEF DispatchRsp, CoreStart
<1> HIDE DEF d
<1>3. CASE r.hdr = "CORE_RESET"
  <2>1. Alike(n, d) \/ d = EnabledFailed(n)
    BY <1>0, <1>2, <1>3, ResetRspFields
  <2>2. d.reports = n.reports
    BY <2>1, EnabledFailedQuiet DEF Alike
  <2>3. UpdateWindow(d).reports = n.reports
    BY <1>1, <2>2, UpdateWindowAlike DEF Alike
  <2> QED
    BY <2>3 DEF d
<1>4. CASE r.hdr # "CORE_RESET"
  <2>1. \/ d.reports = n.reports
        \/ \E o \in Nfc : /\ d = EnabledFailed(o) /\ Sound(o) /\ Untouched(n, o)
                          /\ o.flags = n.flags
    BY <1>0, <1>2, <1>4, InitRspFields
  <2>2. ASSUME NEW o \in Nfc, d = EnabledFailed(o), Sound(o), Untouched(n, o), o.flags = n.flags
        PROVE  d.reports = n.reports
    <3>1. Consistent(o) /\ o.reports = n.reports
      BY <2>2, KeepsConsistent DEF Untouched
    <3> QED
      BY <2>2, <3>1, EnabledFailedQuiet
  <2>3. d.reports = n.reports
    BY <2>1, <2>2
  <2>4. UpdateWindow(d).reports = n.reports
    BY <1>1, <2>3, UpdateWindowAlike DEF Alike
  <2> QED
    BY <2>4 DEF d
<1> QED
  BY <1>3, <1>4

\* The callback that a response is given is that of its own command.
LEMMA HandleRspOwn ==
  ASSUME IInv, WInv, CallbackOwn, HandleRsp
  PROVE  CallbackOwn'
<1> DEFINE r == Head(mbox)
           n == Arrived(nfc)
           d == DispatchRsp(n, r)
<1>1. /\ r \in Message /\ r.id \in Nat /\ Consistent(n) /\ Sound(n) /\ Queues(n) /\ Phase(n)
      /\ Alike(nfc, n) /\ n.window = 0 /\ n.wire = <<>> /\ Due(n.st, r.hdr) /\ Answers(n, r)
      /\ nfc' = ProcessRsp(n, r)
  BY RspTaken
<1>2. nfc' = IF Matches(n, r) THEN UpdateWindow(d) ELSE n
  BY <1>1 DEF ProcessRsp
<1>3. n.reports = nfc.reports
  BY <1>1 DEF Alike
<1>4. Consistent(d)
  BY <1>1, DispatchRspSound
<1>5. CASE ~Matches(n, r)
  BY <1>2, <1>3, <1>5 DEF CallbackOwn
<1>6. CASE Matches(n, r) /\ n.st \notin Up
  <2> HIDE DEF r, n
  <2>1. r.hdr \in CoreStart
    BY <1>1, <1>6 DEF Due
  <2>2. n.q = <<>> /\ n.conn = FALSE
    <3>1. n.conn \in BOOLEAN
      BY <1>1, Fields
    <3> QED
      BY <1>1, <1>6, <3>1 DEF Phase
  <2>3. UpdateWindow(d).reports = n.reports
    BY <1>1, <2>1, <2>2, StartQuiet
  <2> QED
    BY <1>2, <1>3, <1>6, <2>3 DEF CallbackOwn
<1>7. CASE Matches(n, r) /\ n.st \in Up
  <2> HIDE DEF r, n
  <2>1. r.hdr \notin CoreStart
    BY <1>1, <1>7 DEF Due, Up
  <2>2. d.reports = n.reports \/ (r.hdr \in {"PROP", "SCREEN"} /\ d = Vendor(n, r.id))
    BY <1>1, <1>7, <2>1, UpDispatch
  <2> HIDE DEF d
  <2>3. nfc'.reports = d.reports
    BY <1>2, <1>4, <1>7, UpdateWindowAlike DEF Alike, Consistent
  <2>4. CASE d.reports = n.reports
    BY <1>3, <2>3, <2>4 DEF CallbackOwn
  <2>5. CASE r.hdr \in {"PROP", "SCREEN"} /\ d = Vendor(n, r.id)
    <3>1. r.hdr = n.last.hdr /\ Regular(n.last)
      BY <1>1, <1>7 DEF Matches, Queues
    <3>2. r.hdr = "PROP" /\ r.id = n.last.id /\ n.cback \in {0, n.last.id}
      BY <1>1, <2>5, <3>1 DEF Regular, Answers, Queues
    <3> DEFINE rs == IF n.cback = 0 THEN n.reports
                     ELSE n.reports \cup {[cb |-> n.cback, rsp |-> r.id]}
    <3>3. d = [n EXCEPT !.reports = rs] /\ n \in Nfc
      BY <1>1, <2>5 DEF Vendor, Sound
    <3> HIDE DEF rs
    <3>4. d.reports = rs
      BY <3>3, Zenon DEF Nfc
    <3>5. \A x \in rs : x \in n.reports \/ x.rsp = x.cb
      BY <3>2 DEF rs
    <3> QED
      BY <1>3, <2>3, <3>4, <3>5 DEF CallbackOwn
  <2> QED
    BY <2>2, <2>4, <2>5
<1> QED
  BY <1>5, <1>6, <1>7

-------------------------------------------------------------------------------
(* Every step.                                                               *)

\* At first the stack is down and nothing is on its way.
LEMMA InitWindow == Init => WInv /\ CallbackOwn
<1> SUFFICES ASSUME Init
             PROVE  WInv /\ CallbackOwn
  OBVIOUS
<1>1. /\ nfc.st = "NONE" /\ nfc.window = 1 /\ nfc.q = <<>> /\ nfc.flags = {} /\ nfc.last = NoCommand
      /\ nfc.cback = 0 /\ nfc.nxp = FALSE /\ nfc.timer = FALSE /\ nfc.conn = FALSE
      /\ nfc.reports = {} /\ nfc.wire = <<>> /\ nfc.open = FALSE /\ nfc.tml = FALSE /\ nfc.halq = <<>>
      /\ mbox = <<>> /\ ready = FALSE /\ checked = FALSE /\ rf = "idle" /\ budget.faults = MaxFaults
  BY DEF Init, MaxWindow
<1>2. OnWay = {} /\ Lined(mbox, nfc.halq) /\ Range(nfc.q) = {}
  BY <1>1, LinedEmpty DEF OnWay
<1>3. Regular(NoCommand)
  BY DEF Regular, NoCommand
<1>4. Queues(nfc)
  BY <1>1, <1>2, <1>3 DEF Queues
<1>5. Phase(nfc)
  BY <1>1 DEF Phase, Up
<1>6. Mail /\ Outside
  BY <1>1, <1>2 DEF Mail, Outside
<1>7. Healthy
  BY <1>1, <1>2 DEF Healthy
<1>8. Spent
  BY <1>1, BoundAssumption DEF Spent
<1>9. CallbackOwn
  BY <1>1 DEF CallbackOwn
<1> QED
  BY <1>4, <1>5, <1>6, <1>7, <1>8, <1>9 DEF WInv, Window

\* A step that changes nothing.
LEMMA StutterWindow ==
  ASSUME WInv, UNCHANGED vars
  PROVE  WInv'
<1>1. nfc' = nfc /\ mbox' = mbox /\ ready' = ready /\ checked' = checked /\ rf' = rf /\ budget' = budget
  BY DEF vars
<1>2. OnWay' = OnWay /\ (Running' <=> Running) /\ (Faultless' <=> Faultless)
  BY <1>1 DEF OnWay, Running, Faultless
<1>3. Window'
  BY <1>1, <1>2 DEF WInv, Window, Mail, Outside
<1>4. Healthy' /\ Spent'
  BY <1>1, <1>2 DEF WInv, Healthy, Spent
<1> QED
  BY <1>3, <1>4 DEF WInv

\* The invariant is inductive for an orderly stack.
LEMMA NextWindow == Orderly /\ IInv /\ WInv /\ CallbackOwn /\ [Next]_vars => WInv' /\ CallbackOwn'
<1> SUFFICES ASSUME Orderly, IInv, WInv, CallbackOwn, [Next]_vars
             PROVE  WInv' /\ CallbackOwn'
  OBVIOUS
<1>1. IInv'
  BY NextIInv
<1>2. CASE UNCHANGED vars
  <2>1. CallbackOwn'
    BY <1>2 DEF CallbackOwn, vars
  <2> QED
    BY <1>2, <2>1, StutterWindow
<1>3. CASE Task
  <2>1. WInv'
    BY <1>1, <1>3, TransportReadyWindow, HandleRspWindow, HandleNtfWindow, HandleResetNtfWindow,
       HandleHalWindow DEF Task
  <2>2. CASE HandleRsp
    BY <2>1, <2>2, HandleRspOwn
  <2>3. CASE TransportReady \/ HandleNtf \/ HandleResetNtf \/ HandleHal
    BY <2>1, <2>3, TaskQuiet DEF CallbackOwn
  <2> QED
    BY <1>3, <2>2, <2>3 DEF Task
<1>4. CASE Timers
  <2>1. ~ListenTimeout
    BY DEF ListenTimeout, Orderly
  <2>2. WInv'
    BY <1>1, <1>4, <2>1, CmdTimeoutWindow DEF Timers
  <2> QED
    BY <1>4, <2>2, TaskQuiet DEF CallbackOwn
<1>5. CASE Enable \/ Disable \/ PowerDown \/ PowerUp
  <2>1. WInv'
    BY <1>1, <1>5, EnableWindow, DisableWindow, PowerDownWindow, PowerUpWindow
  <2> QED
    BY <1>5, <2>1, PowerQuiet DEF CallbackOwn
<1>6. CASE Send \/ DiscoveryStart \/ Deactivate
  <2>1. WInv'
    BY <1>6, SendWindow, DiscoveryStartWindow, DeactivateWindow
  <2> QED
    BY <1>6, <2>1, UseQuiet DEF CallbackOwn
<1>7. CASE Client
  BY <1>7, ClientWindow, OutsideQuiet DEF CallbackOwn
<1>8. CASE Nfcc
  <2>1. ~NfccReset
    BY DEF NfccReset, Orderly
  <2>2. WInv'
    BY <1>8, <2>1, NfccRespondWindow, NfccFaultWindow, NfccNotifyWindow DEF Nfcc
  <2> QED
    BY <1>8, <2>2, OutsideQuiet DEF CallbackOwn
<1> QED
  BY <1>2, <1>3, <1>4, <1>5, <1>6, <1>7, <1>8 DEF Next, Application

-------------------------------------------------------------------------------
(* What follows from the invariant.                                          *)

\* At most one answer is on its way.
LEMMA OneAnswer ==
  ASSUME IInv, Lined(mbox, nfc.halq), NEW c
  PROVE  /\ InFlight(c) \in 0 .. 1
         /\ (\A m \in OnWay : m.type # "RSP") => InFlight(c) = 0
<1> DEFINE S(q) == {i \in DOMAIN q : q[i].type = "RSP" /\ q[i].id = c.id}
<1>1. mbox \in Seq(Message) /\ nfc.halq \in Seq(Message)
  BY Types
<1>2. ASSUME NEW q \in Seq(Message), InLine(q)
      PROVE  /\ S(q) = {} \/ \E i \in DOMAIN q : S(q) = {i} /\ q[i].type = "RSP"
             /\ Cardinality(S(q)) \in 0 .. 1
             /\ S(q) = {} => Cardinality(S(q)) = 0
  <2>1. DOMAIN q = 1 .. Len(q) /\ Len(q) \in Nat
    BY <1>2
  <2>2. \A i, j \in S(q) : i = j
    <3> SUFFICES ASSUME NEW i \in S(q), NEW j \in S(q), i < j
                 PROVE  FALSE
      BY <2>1
    <3> QED
      BY <1>2, <2>1 DEF InLine, Before
  <2>3. S(q) = {} \/ \E i \in DOMAIN q : S(q) = {i} /\ q[i].type = "RSP"
    BY <2>2
  <2> HIDE DEF S
  <2>4. Cardinality({}) = 0 /\ \A i : Cardinality({i}) = 1
    BY FS_EmptySet, FS_Singleton
  <2>5. CASE S(q) = {}
    <3>1. Cardinality(S(q)) = 0
      BY <2>4, <2>5
    <3> QED
      BY <2>5, <3>1
  <2>6. CASE S(q) # {}
    <3>1. PICK i \in DOMAIN q : S(q) = {i} /\ q[i].type = "RSP"
      BY <2>3, <2>6
    <3>2. Cardinality(S(q)) = 1
      BY <2>4, <3>1
    <3> QED
      BY <2>6, <3>1, <3>2
  <2> QED
    BY <2>5, <2>6
<1>3. InLine(mbox) /\ InLine(nfc.halq)
  BY DEF Lined
<1>4. InFlight(c) = Cardinality(S(nfc.halq)) + Cardinality(S(mbox))
  BY DEF InFlight
<1>5. S(nfc.halq) = {} \/ S(mbox) = {}
  <2> SUFFICES ASSUME NEW i \in S(nfc.halq), NEW j \in S(mbox)
               PROVE  FALSE
    OBVIOUS
  <2>1. nfc.halq[i] \in Range(nfc.halq) /\ mbox[j] \in Range(mbox)
    BY DEF Range
  <2> QED
    BY <2>1 DEF Lined, Before
<1>6. ASSUME \A m \in OnWay : m.type # "RSP"
      PROVE  S(nfc.halq) = {} /\ S(mbox) = {}
  BY <1>6 DEF OnWay, Range
<1>7. /\ Cardinality(S(nfc.halq)) \in 0 .. 1 /\ (S(nfc.halq) = {} => Cardinality(S(nfc.halq)) = 0)
      /\ Cardinality(S(mbox)) \in 0 .. 1 /\ (S(mbox) = {} => Cardinality(S(mbox)) = 0)
  BY <1>1, <1>2, <1>3
<1> HIDE DEF S
<1> QED
  BY <1>4, <1>5, <1>6, <1>7

\* At most one command or answer, from the shape of the queues.
LEMMA WindowOutstanding == IInv /\ WInv => OneOutstanding
<1> SUFFICES ASSUME IInv, WInv, nfc.open, nfc.st \in Up \cup {"CORE_INIT", "W4_POST_INIT_CPLT"}
             PROVE  nfc.window + Len(nfc.wire) + InFlight(nfc.last) <= 1
  BY DEF OneOutstanding, MaxWindow
<1>1. nfc.st # "CRASHED" /\ nfc.st # "W4_HAL_CLOSE"
  BY DEF Up
<1>2. Queues(nfc) /\ Mail
  BY <1>1 DEF WInv, Window, Running
<1>3. nfc.window \in 0 .. 1
  BY Types, Fields
<1>4. /\ InFlight(nfc.last) \in 0 .. 1
      /\ (\A m \in OnWay : m.type # "RSP") => InFlight(nfc.last) = 0
  BY <1>2, OneAnswer DEF Mail
<1>5. Len(<<>>) = 0 /\ Len(<<nfc.last>>) = 1
  OBVIOUS
<1>6. CASE \A m \in OnWay : m.type # "RSP"
  <2>1. nfc.window + Len(nfc.wire) \in 0 .. 1
    <3>1. CASE nfc.wire = <<>>
      BY <1>3, <1>5, <3>1
    <3>2. CASE nfc.wire # <<>>
      <4>1. nfc.window = 0 /\ nfc.wire = <<nfc.last>>
        BY <1>2, <3>2 DEF Queues
      <4>2. Len(nfc.wire) = 1
        BY <1>5, <4>1, Zenon
      <4> QED
        BY <4>1, <4>2
    <3> QED
      BY <3>1, <3>2
  <2> QED
    BY <1>4, <1>6, <2>1
<1>7. CASE \E m \in OnWay : m.type = "RSP"
  <2>1. nfc.window = 0 /\ nfc.wire = <<>>
    BY <1>1, <1>2, <1>7 DEF Mail, Fits
  <2> QED
    BY <1>4, <1>5, <2>1
<1> QED
  BY <1>6, <1>7

\* The timer runs only with the window closed, and always then if nothing failed.
LEMMA WindowTimer == IInv /\ WInv => TimerGuardsWindow
BY DEF WInv, Window, Healthy, Queues, TimerGuardsWindow

\* What holds in every state of an orderly stack.
LEMMA Holds == Orderly => (Spec => [](IInv /\ WInv /\ CallbackOwn))
<1> SUFFICES ASSUME Orderly
             PROVE  Spec => [](IInv /\ WInv /\ CallbackOwn)
  OBVIOUS
<1>1. Init => IInv /\ WInv /\ CallbackOwn
  BY InitIInv, InitWindow
<1>2. IInv /\ WInv /\ CallbackOwn /\ [Next]_vars => (IInv /\ WInv /\ CallbackOwn)'
  BY NextIInv, NextWindow
<1> QED
  BY <1>1, <1>2, PTL DEF Spec

\* NCI flow control: the window, the command the NFCC holds and its answer on the way to
\* nfc_ncif_process_event are never more than the one credit the NFCC gives.
THEOREM OneCommandOut == Orderly => (Spec => []OneOutstanding)
BY Holds, WindowOutstanding, PTL

\* A callback given to NFC_SendVsCommand gets the response to its own command
\* (p_vsc_cback, which nci_proc_prop_rsp calls).
THEOREM CallbacksOwn == Orderly => (Spec => []CallbackOwn)
BY Holds, PTL

\* As long as nothing fails, nci_wait_rsp_timer runs exactly while a command is out
\* (nfc_ncif_check_cmd_queue starts it, nfc_ncif_update_window stops it).
THEOREM TimerRuns == Orderly => (Spec => []TimerGuardsWindow)
BY Holds, WindowTimer, PTL

-------------------------------------------------------------------------------
(* Agreement with the NFCC.                                                  *)

\* A message that tells of an activation, and one that tells of the end of it: the
\* notification, or the response to NFC_Deactivate's command.
Begins(m) == m.hdr \in {"ACTIVATED", "LISTEN_ACTIVATED"}
Ends(m) == m.hdr \in {"DEACTIVATED", "DEACTIVATE"}

\* Whether a remote device is active when the messages s have been handled, if b says
\* whether one is before.
After(s, b) ==
  \/ \E i \in 1 .. Len(s) : Begins(s[i]) /\ \A j \in (i + 1) .. Len(s) : ~Ends(s[j])
  \/ b /\ \A i \in 1 .. Len(s) : ~Ends(s[i])

\* A deactivation waits, is at the NFCC or has its response on the way.
DeactivationDue ==
  \/ \E c \in Range(nfc.q) \cup Range(nfc.wire) : c.hdr = "DEACTIVATE"
  \/ \E m \in OnWay : m.hdr = "DEACTIVATE"

\* The messages on their way take the stack to what the NFCC says.
Told == rf = "active" <=> After(nfc.halq, After(mbox, nfc.st \in {"OPEN", "CLOSING"}))

\* Without faults the stack learns what the NFCC says, and a stack that is closing a
\* link will have it closed.
Agreement ==
  Running /\ Faultless /\ nfc.st \in Up => Told /\ (nfc.st = "CLOSING" => DeactivationDue)

\* One message more behind the others, and one less in front of them.
LEMMA AfterAppend ==
  ASSUME NEW s \in Seq(Message), NEW e \in Message, NEW b \in BOOLEAN
  PROVE  After(Append(s, e), b) <=> Begins(e) \/ (After(s, b) /\ ~Ends(e))
<1> DEFINE t == Append(s, e)
           n == Len(s)
<1>1. /\ n \in Nat /\ Len(t) = n + 1 /\ t[n + 1] = e
      /\ \A i \in 1 .. n : t[i] = s[i]
  OBVIOUS
<1> HIDE DEF t, n
<1>2. \A i \in 1 .. (n + 1) : i \in 1 .. n \/ i = n + 1
  BY <1>1
<1>3. (\A i \in 1 .. Len(t) : ~Ends(t[i])) <=> ~Ends(e) /\ \A i \in 1 .. n : ~Ends(s[i])
  <2>1. n + 1 \in 1 .. (n + 1) /\ \A i \in 1 .. n : i \in 1 .. (n + 1)
    BY <1>1
  <2> QED
    BY <1>1, <1>2, <2>1
<1>4. ASSUME NEW i \in 1 .. n
      PROVE  (Begins(t[i]) /\ \A j \in (i + 1) .. Len(t) : ~Ends(t[j]))
               <=> Begins(s[i]) /\ ~Ends(e) /\ \A j \in (i + 1) .. n : ~Ends(s[j])
  <2>1. n + 1 \in (i + 1) .. (n + 1) /\ \A j \in (i + 1) .. n : j \in (i + 1) .. (n + 1) /\ j \in 1 .. n
    BY <1>1, <1>4
  <2>2. \A j \in (i + 1) .. (n + 1) : j \in (i + 1) .. n \/ j = n + 1
    BY <1>1, <1>4
  <2>3. (\A j \in (i + 1) .. (n + 1) : ~Ends(t[j])) <=> ~Ends(e) /\ \A j \in (i + 1) .. n : ~Ends(s[j])
    BY <1>1, <2>1, <2>2
  <2> QED
    BY <1>1, <1>4, <2>3
<1>5. (\E i \in 1 .. Len(t) : Begins(t[i]) /\ \A j \in (i + 1) .. Len(t) : ~Ends(t[j]))
        <=> \/ Begins(e)
            \/ ~Ends(e) /\ \E i \in 1 .. n : Begins(s[i]) /\ \A j \in (i + 1) .. n : ~Ends(s[j])
  <2>1. n + 1 \in 1 .. (n + 1) /\ \A i \in 1 .. n : i \in 1 .. (n + 1)
    BY <1>1
  <2>2. \A j \in (n + 1 + 1) .. (n + 1) : FALSE
    BY <1>1
  <2>3. Begins(t[n + 1]) /\ (\A j \in (n + 1 + 1) .. Len(t) : ~Ends(t[j])) <=> Begins(e)
    BY <1>1, <2>2
  <2> QED
    BY <1>1, <1>2, <1>4, <2>1, <2>3
<1>6. After(t, b) <=> Begins(e) \/ (After(s, b) /\ ~Ends(e))
  BY <1>3, <1>5 DEF After, n
<1> QED
  BY <1>6 DEF t

\* The first message is handled: it moves what the others start from.
LEMMA AfterTail ==
  ASSUME NEW s \in Seq(Message), s # <<>>, NEW b \in BOOLEAN
  PROVE  After(s, b) <=> After(Tail(s), Begins(Head(s)) \/ (b /\ ~Ends(Head(s))))
<1> DEFINE t == Tail(s)
           n == Len(t)
           e == Head(s)
<1>1. /\ n \in Nat /\ Len(s) = n + 1 /\ s[1] = e
      /\ \A i \in 1 .. n : t[i] = s[i + 1]
  OBVIOUS
<1> HIDE DEF t, n, e
<1>2. /\ \A i \in 1 .. (n + 1) : i = 1 \/ i - 1 \in 1 .. n
      /\ \A i \in 1 .. (n + 1) : i = 1 \/ s[i] = t[i - 1]
      /\ \A i \in 1 .. n : i + 1 \in 1 .. (n + 1)
      /\ 1 \in 1 .. (n + 1)
  <2>1. \A i \in 1 .. (n + 1) : i = 1 \/ (i - 1 \in 1 .. n /\ (i - 1) + 1 = i)
    BY <1>1
  <2>2. \A i \in 1 .. n : i + 1 \in 1 .. (n + 1)
    BY <1>1
  <2> QED
    BY <1>1, <2>1, <2>2
<1>3. (\A i \in 1 .. Len(s) : ~Ends(s[i])) <=> ~Ends(e) /\ \A i \in 1 .. n : ~Ends(t[i])
  BY <1>1, <1>2
<1>4. ASSUME NEW i \in 1 .. n
      PROVE  (\A j \in (i + 1 + 1) .. (n + 1) : ~Ends(s[j])) <=> \A j \in (i + 1) .. n : ~Ends(t[j])
  <2>1. \A j \in (i + 1) .. n : j + 1 \in (i + 1 + 1) .. (n + 1) /\ t[j] = s[j + 1]
    BY <1>1, <1>4
  <2>2. \A j \in (i + 1 + 1) .. (n + 1) : j - 1 \in (i + 1) .. n /\ j \in 1 .. (n + 1) /\ j # 1
    BY <1>1, <1>4
  <2>3. \A j \in (i + 1 + 1) .. (n + 1) : s[j] = t[j - 1]
    BY <1>2, <2>2
  <2> QED
    BY <2>1, <2>2, <2>3
<1>5. (\A j \in (1 + 1) .. (n + 1) : ~Ends(s[j])) <=> \A i \in 1 .. n : ~Ends(t[i])
  <2>1. \A j \in 1 .. n : j + 1 \in (1 + 1) .. (n + 1) /\ t[j] = s[j + 1]
    BY <1>1
  <2>2. \A j \in (1 + 1) .. (n + 1) : j - 1 \in 1 .. n /\ j \in 1 .. (n + 1) /\ j # 1
    BY <1>1
  <2>3. \A j \in (1 + 1) .. (n + 1) : s[j] = t[j - 1]
    BY <1>2, <2>2
  <2> QED
    BY <2>1, <2>2, <2>3
<1>6. ASSUME NEW i \in 1 .. n
      PROVE  (Begins(s[i + 1]) /\ \A j \in (i + 1 + 1) .. (n + 1) : ~Ends(s[j]))
               <=> Begins(t[i]) /\ \A j \in (i + 1) .. n : ~Ends(t[j])
  BY <1>1, <1>4, <1>6
<1>7. ASSUME NEW i \in 1 .. (n + 1), i # 1, Begins(s[i]), \A j \in (i + 1) .. (n + 1) : ~Ends(s[j])
      PROVE  \E k \in 1 .. n : Begins(t[k]) /\ \A j \in (k + 1) .. n : ~Ends(t[j])
  <2>1. i - 1 \in 1 .. n /\ (i - 1) + 1 = i
    BY <1>1, <1>7
  <2>2. Begins(t[i - 1]) /\ \A j \in ((i - 1) + 1) .. n : ~Ends(t[j])
    <3>1. ((i - 1) + 1) + 1 = i + 1
      BY <2>1
    <3> QED
      BY <1>7, <2>1, <3>1, <1>6
  <2> QED
    BY <2>1, <2>2
<1>8. (\E i \in 1 .. (n + 1) : Begins(s[i]) /\ \A j \in (i + 1) .. (n + 1) : ~Ends(s[j]))
        <=> \/ Begins(e) /\ \A i \in 1 .. n : ~Ends(t[i])
            \/ \E i \in 1 .. n : Begins(t[i]) /\ \A j \in (i + 1) .. n : ~Ends(t[j])
  <2>1. ASSUME NEW i \in 1 .. (n + 1), Begins(s[i]), \A j \in (i + 1) .. (n + 1) : ~Ends(s[j])
        PROVE  \/ Begins(e) /\ \A k \in 1 .. n : ~Ends(t[k])
               \/ \E k \in 1 .. n : Begins(t[k]) /\ \A j \in (k + 1) .. n : ~Ends(t[j])
    <3>1. CASE i = 1
      BY <1>1, <1>5, <2>1, <3>1
    <3>2. CASE i # 1
      BY <1>7, <2>1, <3>2
    <3> QED
      BY <3>1, <3>2
  <2>2. ASSUME Begins(e), \A i \in 1 .. n : ~Ends(t[i])
        PROVE  \E i \in 1 .. (n + 1) : Begins(s[i]) /\ \A j \in (i + 1) .. (n + 1) : ~Ends(s[j])
    <3>1. Begins(s[1]) /\ \A j \in (1 + 1) .. (n + 1) : ~Ends(s[j])
      BY <1>1, <1>5, <2>2
    <3> QED
      BY <1>2, <3>1
  <2>3. ASSUME NEW i \in 1 .. n, Begins(t[i]), \A j \in (i + 1) .. n : ~Ends(t[j])
        PROVE  \E k \in 1 .. (n + 1) : Begins(s[k]) /\ \A j \in (k + 1) .. (n + 1) : ~Ends(s[j])
    <3>1. i + 1 \in 1 .. (n + 1) /\ Begins(s[i + 1]) /\ \A j \in (i + 1 + 1) .. (n + 1) : ~Ends(s[j])
      BY <1>2, <1>6, <2>3
    <3> QED
      BY <3>1
  <2> QED
    BY <2>1, <2>2, <2>3
<1>9. After(s, b) <=> After(t, Begins(e) \/ (b /\ ~Ends(e)))
  BY <1>1, <1>3, <1>8 DEF After, n
<1> QED
  BY <1>9 DEF t, e

\* Nothing on its way, or nothing that tells of activations.
LEMMA AfterQuiet ==
  ASSUME NEW s \in Seq(Message), NEW b \in BOOLEAN,
         \A m \in Range(s) : ~Begins(m) /\ ~Ends(m)
  PROVE  After(s, b) <=> b
<1>1. \A i \in 1 .. Len(s) : s[i] \in Range(s)
  BY DEF Range
<1> QED
  BY <1>1 DEF After

\* What the messages tell is a truth value, whatever they are.
LEMMA AfterType ==
  ASSUME NEW s, NEW b \in BOOLEAN
  PROVE  After(s, b) \in BOOLEAN
BY DEF After

\* What has to be shown after a step.
LEMMA AgreementNext ==
  ASSUME Running' /\ Faultless' /\ nfc'.st \in Up => Told' /\ (nfc'.st = "CLOSING" => DeactivationDue')
  PROVE  Agreement'
BY DEF Agreement

\* A stack that is not up, or that has had a fault, owes nothing.
LEMMA AgreementNot ==
  ASSUME nfc'.st \notin Up \/ ~Faultless'
  PROVE  Agreement'
BY DEF Agreement

\* A stack that is up has its transport, no start event pending and no event of a HAL
\* that opens or closes on its way.
LEMMA UpFacts ==
  ASSUME IInv, WInv, nfc.st \in Up
  PROVE  /\ Running /\ Queues(nfc) /\ Phase(nfc) /\ Mail /\ Outside /\ Healthy /\ Spent
         /\ nfc.tml /\ ~ready /\ ~checked
         /\ Faultless => nfc.open
         /\ Sound(nfc) /\ nfc \in Nfc /\ mbox \in Seq(Message) /\ nfc.halq \in Seq(Message)
         /\ nfc.st \notin Down
         /\ nfc.st \notin {"W4_HAL_OPEN", "W4_POST_INIT_CPLT", "W4_HAL_CLOSE", "CORE_INIT", "CRASHED"}
         /\ \A m \in OnWay : m.hdr \notin {"CLOSE_CPLT", "OPEN_FAILED", "OPEN_CPLT"}
<1>1. /\ nfc.st \notin Down /\ nfc.st \notin Starting
      /\ nfc.st \notin {"W4_HAL_OPEN", "W4_POST_INIT_CPLT", "W4_HAL_CLOSE", "CORE_INIT", "CRASHED"}
  BY DEF Up, Down, Starting
<1>2. Running /\ Queues(nfc) /\ Phase(nfc) /\ Mail /\ Outside /\ Healthy /\ Spent
  BY <1>1 DEF WInv, Window, Running
<1>3. nfc.tml /\ ~ready /\ ~checked
  BY <1>1, <1>2 DEF Phase, Outside
<1>4. \A m \in OnWay : m.hdr \notin {"CLOSE_CPLT", "OPEN_FAILED", "OPEN_CPLT"}
  BY <1>1, <1>2, <1>3 DEF Mail, Fits
<1>5. Faultless => nfc.open
  BY <1>2, <1>3 DEF Healthy
<1> QED
  BY <1>1, <1>2, <1>3, <1>4, <1>5, Types

\* nfc_ncif_check_cmd_queue drops no command: it is in the queue or at the NFCC.
LEMMA SendsKeeps ==
  ASSUME NEW o, Sound(o), Queues(o), o.open, NEW all \in Seq(Command), NEW m, Sends(o, m, all)
  PROVE  Range(all) \cup Range(o.wire) \subseteq Range(m.q) \cup Range(m.wire)
<1>1. CASE SameCommand(o, m) /\ m.q = all
  BY <1>1 DEF SameCommand
<1>2. CASE Goes(o, m)
  <2>1. o.wire = <<>>
    BY <1>2 DEF Goes, Queues
  <2>2. m.wire = Append(<<>>, m.last)
    BY <1>2, <2>1 DEF Goes
  <2>3. Range(o.wire) = {}
    BY <2>1, LinedEmpty
  <2>4. CASE all # <<>> /\ m.last = Head(all) /\ m.q = Tail(all)
    <3>1. Head(all) \in Command /\ Range(all) \subseteq {Head(all)} \cup Range(m.q)
      BY <2>4, RangeTail
    <3>2. m.last \in Command
      BY <2>4, <3>1
    <3> DEFINE no == <<>>
    <3>3. no \in Seq(Command) /\ m.wire = Append(no, m.last)
      BY <2>2, EmptyCommands
    <3> HIDE DEF no
    <3>4. Range(m.wire) = Range(no) \cup {m.last}
      BY <3>2, <3>3, RangeAppend
    <3> QED
      BY <2>3, <2>4, <3>1, <3>4
  <2>5. CASE all = <<>>
    <3>1. Range(all) = {}
      BY <2>5, LinedEmpty
    <3> QED
      BY <2>3, <3>1
  <2> QED
    BY <1>2, <2>4, <2>5 DEF Sends, Goes, SameCommand
<1> QED
  BY <1>1, <1>2 DEF Sends

\* A new command behind those that wait.
LEMMA NewKeeps ==
  ASSUME NEW n, Sound(n), NEW h \in Header, NEW k \in {"plain", "vsc"}
  PROVE  /\ Range(n.q) \subseteq Range(n.q \o NewCommand(n, h, k))
         /\ \E c \in Range(n.q \o NewCommand(n, h, k)) : c.hdr = h
<1> DEFINE c == [id |-> n.next, hdr |-> h, kind |-> k]
<1>1. n.q \in Seq(Command) /\ n.next \in Nat
  BY Fields
<1>2. c \in Command /\ c.hdr = h
  BY <1>1 DEF Command
<1>3. NewCommand(n, h, k) = <<c>>
  BY DEF NewCommand
<1> HIDE DEF c
<1>4. n.q \o NewCommand(n, h, k) = Append(n.q, c)
  BY <1>1, <1>2, <1>3, AppendOne
<1>5. Range(Append(n.q, c)) = Range(n.q) \cup {c}
  BY <1>1, <1>2, RangeAppend
<1> QED
  BY <1>2, <1>4, <1>5

\* The stack stays up, with the same state or one that stands for the same, and drops no
\* command.
LEMMA StaysUp ==
  ASSUME IInv, WInv, Agreement, nfc.st \in Up,
         nfc'.st \in {"OPEN", "CLOSING"} <=> nfc.st \in {"OPEN", "CLOSING"},
         nfc'.st = "CLOSING" /\ Faultless =>
           DeactivationDue' \/ (nfc.st = "CLOSING"
             /\ Range(nfc.q) \cup Range(nfc.wire) \subseteq Range(nfc'.q) \cup Range(nfc'.wire)),
         nfc'.halq = nfc.halq, mbox' = mbox, rf' = rf, Faultless' => Faultless
  PROVE  Agreement'
<1> SUFFICES ASSUME Faultless
             PROVE  Told' /\ (nfc'.st = "CLOSING" => DeactivationDue')
  BY AgreementNext
<1>1. Told /\ (nfc.st = "CLOSING" => DeactivationDue)
  BY UpFacts DEF Agreement
<1>2. Told'
  BY <1>1 DEF Told
<1>3. OnWay' = OnWay
  BY DEF OnWay
<1> QED
  BY <1>1, <1>2, <1>3 DEF DeactivationDue

\* nfc_task takes the start event: the stack starts up.
LEMMA TransportReadyAgrees ==
  ASSUME IInv, WInv, TransportReady
  PROVE  Agreement'
<1> DEFINE n == [nfc EXCEPT !.st = "CORE_INIT"]
<1>1. nfc' = SendCmd(n, "CORE_RESET") /\ nfc \in Nfc /\ Sound(nfc)
  BY Types DEF TransportReady
<1>2. "CORE_INIT" \in State /\ "CORE_RESET" \in Header
  BY DEF State, Header
<1>3. n \in Nfc /\ n.st = "CORE_INIT" /\ n.window = nfc.window
  BY <1>1, <1>2, Zenon DEF Nfc
<1> HIDE DEF n
<1>4. Sound(n)
  BY <1>1, <1>3 DEF Sound
<1>5. nfc'.st = "CORE_INIT"
  BY <1>1, <1>2, <1>3, <1>4, SendCmdSends DEF Sends, Alike
<1> QED
  BY <1>5, AgreementNot DEF Up

\* NFC_Enable leaves the stack waiting for the HAL to open.
LEMMA EnableAgrees ==
  ASSUME IInv, Enable
  PROVE  Agreement'
<1> DEFINE f == Fresh(nfc)
           ow == {"ENABLE"}
           n == [f EXCEPT !.st = "W4_HAL_OPEN", !.resp = TRUE, !.owed = ow]
<1>1. nfc' = HalOpened(n) \/ nfc' = HalOpenFailed(n)
  BY DEF Enable
<1>2. f \in Nfc /\ ow \in SUBSET Event /\ "W4_HAL_OPEN" \in State
  <2>1. Consistent(f)
    BY Types, FreshSound DEF f
  <2> QED
    BY <2>1, Fields DEF Consistent, Event, State
<1> HIDE DEF ow, f
<1>3. n \in Nfc /\ n.st = "W4_HAL_OPEN"
  BY <1>2, Zenon DEF Nfc
<1> HIDE DEF n
<1>4. nfc'.st = "W4_HAL_OPEN"
  BY <1>1, <1>3, OpeningFields
<1> QED
  BY <1>4, AgreementNot DEF Up

\* So does NFC_SetPowerOffSleep(FALSE).
LEMMA PowerUpAgrees ==
  ASSUME IInv, PowerUp
  PROVE  Agreement'
<1> DEFINE fl == nfc.flags \cup {"RESTARTING"}
           ow == {"RESTART"}
           n == [nfc EXCEPT !.st = "W4_HAL_OPEN", !.flags = fl, !.owed = ow]
<1>1. nfc' = HalOpened(n) \/ nfc' = HalOpenFailed(n)
  BY DEF PowerUp
<1>2. nfc \in Nfc /\ fl \in SUBSET Flag /\ ow \in SUBSET Event /\ "W4_HAL_OPEN" \in State
  <2>1. nfc \in Nfc /\ nfc.flags \in SUBSET Flag
    BY Types, Fields
  <2> QED
    BY <2>1 DEF Flag, Event, State
<1> HIDE DEF ow, fl
<1>3. n \in Nfc /\ n.st = "W4_HAL_OPEN"
  BY <1>2, Zenon DEF Nfc
<1> HIDE DEF n
<1>4. nfc'.st = "W4_HAL_OPEN"
  BY <1>1, <1>3, OpeningFields
<1> QED
  BY <1>4, AgreementNot DEF Up

\* NFC_Disable leaves the stack down, or waiting for the HAL to close.
LEMMA DisableAgrees ==
  ASSUME Orderly, IInv, WInv, Disable
  PROVE  Agreement'
<1>1. Running /\ nfc \in Nfc /\ Consistent(nfc) /\ Phase(nfc)
  BY Types, Split DEF Disable, WInv, Window
<1>2. CASE nfc.st \in Down
  <2> DEFINE ow == {}
             n == [nfc EXCEPT !.st = "NONE", !.resp = FALSE, !.owed = ow]
  <2>1. nfc' = n
    BY <1>2 DEF Disable, Down
  <2> HIDE DEF ow
  <2>2. n.st = "NONE"
    BY <1>1, Zenon DEF Nfc
  <2> QED
    BY <2>1, <2>2, AgreementNot DEF Up
<1>3. CASE nfc.st \notin Down
  <2> DEFINE m  == ShutdownNfcc(nfc)
             ow == {"DISABLE"}
  <2>1. nfc' = [m EXCEPT !.owed = ow]
    BY <1>3 DEF Disable, Down
  <2>2. m \in Nfc
    BY <1>1, ShutdownNfccSound DEF Consistent, Sound
  <2>3. m.st = "CRASHED" \/ m.st = "W4_HAL_CLOSE"
    BY <1>1, ShutdownFields DEF Phase
  <2> HIDE DEF m, ow
  <2>4. nfc'.st = m.st
    BY <2>1, <2>2, Zenon DEF Nfc
  <2> QED
    BY <2>3, <2>4, AgreementNot DEF Up
<1> QED
  BY <1>2, <1>3

\* So does NFC_SetPowerOffSleep(TRUE).
LEMMA PowerDownAgrees ==
  ASSUME Orderly, IInv, WInv, PowerDown
  PROVE  Agreement'
<1> DEFINE fl == nfc.flags \cup {"POWER_OFF_SLEEP"}
           n  == [nfc EXCEPT !.flags = fl]
           m  == ShutdownNfcc(n)
           ow == {"POWER_OFF"}
<1>1. nfc.st = "IDLE" /\ nfc' = [m EXCEPT !.owed = ow]
  BY DEF PowerDown, Orderly
<1>2. nfc \in Nfc /\ Consistent(nfc) /\ Phase(nfc)
  BY <1>1, Types, Split DEF WInv, Window, Running
<1>3. fl \in SUBSET Flag
  <2>1. nfc.flags \in SUBSET Flag
    BY <1>2, Zenon DEF Nfc
  <2> QED
    BY <2>1 DEF Flag
<1>4. /\ fl \cap {"CONTROL_REQUESTED", "DISCOVER_PENDING"} \subseteq nfc.flags
      /\ "POWER_CYCLE_NFCC" \notin fl
  BY <1>2 DEF Phase
<1> HIDE DEF fl
<1>5. n.flags = fl
  BY <1>2, <1>3, Zenon DEF Nfc
<1>6. Consistent(n)
  BY <1>2, <1>3, <1>4, FlagsSound
<1> HIDE DEF n
<1>7. m \in Nfc
  BY <1>6, ShutdownNfccSound DEF Consistent, Sound
<1>8. m.st = "CRASHED" \/ m.st = "W4_HAL_CLOSE"
  BY <1>4, <1>5, <1>6, ShutdownFields
<1> HIDE DEF m, ow
<1>9. nfc'.st = m.st
  BY <1>1, <1>7, Zenon DEF Nfc
<1> QED
  BY <1>8, <1>9, AgreementNot DEF Up

\* Without a fault the timer does not expire.
LEMMA CmdTimeoutAgrees ==
  ASSUME Orderly, IInv, WInv, CmdTimeout
  PROVE  Agreement'
<1>1. /\ Running /\ nfc.timer /\ nfc.wire = <<>> /\ ~AnswerOnItsWay /\ budget' = budget
  BY DEF CmdTimeout, Orderly
<1>2. Queues(nfc) /\ Phase(nfc) /\ Mail /\ Healthy
  BY <1>1 DEF WInv, Window
<1>3. nfc.window = 0 /\ nfc.st # "W4_HAL_CLOSE"
  BY <1>1, <1>2 DEF Queues, Phase
<1>4. ASSUME Faultless
      PROVE  FALSE
  <2>1. PICK m \in OnWay : m.type = "RSP"
    BY <1>1, <1>2, <1>3, <1>4 DEF Healthy
  <2>2. m.hdr = nfc.last.hdr
    BY <1>1, <1>2, <1>3, <2>1 DEF Mail, Fits, Answers
  <2> QED
    BY <1>1, <2>1, <2>2 DEF AnswerOnItsWay, OnWay, Range
<1>5. ~Faultless'
  BY <1>1, <1>4 DEF Faultless
<1> QED
  BY <1>5, AgreementNot

\* A command of the application goes behind a deactivation that waits.
LEMMA SendAgrees ==
  ASSUME Orderly, IInv, WInv, Agreement, Send
  PROVE  Agreement'
<1>1. /\ nfc.st \in Up /\ mbox' = mbox /\ rf' = rf /\ budget' = budget
      /\ \/ nfc' = SendCmd(nfc, "SET_CONFIG")
         \/ nfc' = SendVendorCmd(nfc, "PROP", "vsc")
  BY DEF Send, Orderly
<1>2. Sound(nfc) /\ Queues(nfc) /\ (Faultless => nfc.open)
  BY <1>1, UpFacts
<1>3. PICK h \in Header, k \in {"plain", "vsc"} :
        Sends(nfc, nfc', nfc.q \o NewCommand(nfc, h, k))
        /\ h \notin CoreStart /\ h # "SCREEN" /\ (h = "PROP" <=> k = "vsc")
  <2>1. /\ "SET_CONFIG" \in Header /\ "PROP" \in Header
        /\ "SET_CONFIG" \notin CoreStart /\ "PROP" \notin CoreStart
    BY DEF Header, CoreStart
  <2>2. CASE nfc' = SendCmd(nfc, "SET_CONFIG")
    BY <1>2, <2>1, <2>2, SendCmdSends
  <2>3. CASE nfc' = SendVendorCmd(nfc, "PROP", "vsc")
    BY <1>2, <2>1, <2>3, SendVendorCmdSends
  <2> QED
    BY <1>1, <2>2, <2>3
<1> DEFINE all == nfc.q \o NewCommand(nfc, h, k)
<1>4. all \in Seq(Command)
  BY <1>2, <1>3, NewRegular
<1>5. Range(nfc.q) \subseteq Range(all)
  BY <1>2, <1>3, NewKeeps
<1> HIDE DEF all
<1>6. Sends(nfc, nfc', all)
  BY <1>3 DEF all
<1>7. nfc'.st = nfc.st /\ nfc'.halq = nfc.halq
  BY <1>6 DEF Sends, Alike
<1>8. Faultless => Range(nfc.q) \cup Range(nfc.wire) \subseteq Range(nfc'.q) \cup Range(nfc'.wire)
  BY <1>2, <1>4, <1>5, <1>6, SendsKeeps
<1>9. Faultless' => Faultless
  BY <1>1 DEF Faultless
<1> QED
  BY <1>1, <1>7, <1>8, <1>9, StaysUp

\* NFC_DiscoveryStart is called in IDLE, and leaves the stack there.
LEMMA DiscoveryStartAgrees ==
  ASSUME IInv, WInv, Agreement, DiscoveryStart
  PROVE  Agreement'
<1> DEFINE fl == nfc.flags \cup {"DISCOVER_PENDING", "CONTROL_REQUESTED"}
           o  == [nfc EXCEPT !.flags = fl]
<1>1. /\ nfc.st = "IDLE" /\ mbox' = mbox /\ rf' = rf /\ budget' = budget
      /\ nfc' = CheckCmdQueue(o, <<>>)
  BY DEF DiscoveryStart
<1>2. nfc.st \in Up /\ nfc \in Nfc /\ Sound(nfc)
  BY <1>1, Types DEF Up
<1>3. fl \in SUBSET Flag
  <2>1. nfc.flags \in SUBSET Flag
    BY <1>2, Fields
  <2> QED
    BY <2>1 DEF Flag
<1> HIDE DEF fl
<1>4. o \in Nfc /\ o.st = nfc.st /\ o.halq = nfc.halq /\ o.window = nfc.window
  BY <1>2, <1>3, Zenon DEF Nfc
<1> HIDE DEF o
<1>5. Sound(o)
  BY <1>2, <1>4 DEF Sound
<1>6. nfc'.st = nfc.st /\ nfc'.halq = nfc.halq
  BY <1>1, <1>4, <1>5, CheckCmdQueueSends, EmptyCommands DEF Sends, Alike
<1> QED
  BY <1>1, <1>2, <1>6, StaysUp DEF Faultless

\* NFC_Deactivate closes a link by a command that waits or goes out.
LEMMA DeactivateAgrees ==
  ASSUME IInv, WInv, Agreement, Deactivate
  PROVE  Agreement'
<1> DEFINE fl == nfc.flags \ {"DISCOVER_PENDING", "CONTROL_REQUESTED"}
           a  == [nfc EXCEPT !.flags = fl]
           st == IF nfc.st = "OPEN" THEN "CLOSING" ELSE nfc.st
           b  == [nfc EXCEPT !.st = st]
<1>1. /\ nfc.st \in {"IDLE", "OPEN"} /\ mbox' = mbox /\ rf' = rf /\ budget' = budget
      /\ (nfc' = a \/ nfc' = SendCmd(b, "DEACTIVATE"))
  BY DEF Deactivate
<1>2. nfc.st \in Up
  BY <1>1 DEF Up
<1>3. nfc \in Nfc /\ Sound(nfc) /\ Queues(nfc) /\ Phase(nfc) /\ (Faultless => nfc.open)
  BY <1>2, UpFacts
<1>4. /\ fl \in SUBSET Flag /\ st \in State /\ st \in Up
      /\ st \in {"OPEN", "CLOSING"} <=> nfc.st \in {"OPEN", "CLOSING"}
  <2>1. nfc.flags \in SUBSET Flag
    BY <1>3, Fields
  <2> QED
    BY <1>1, <2>1 DEF State, Up
<1> HIDE DEF fl, st
<1>5. /\ a.st = nfc.st /\ SameCommand(nfc, a) /\ a.q = nfc.q /\ a.halq = nfc.halq
      /\ b \in Nfc /\ b.st = st /\ b.conn = nfc.conn /\ SameCommand(nfc, b) /\ b.q = nfc.q
      /\ b.flags = nfc.flags /\ Linked(nfc, b)
  BY <1>3, <1>4, Zenon DEF Nfc, SameCommand, Linked
<1> HIDE DEF a, b
<1>6. CASE nfc' = a
  BY <1>1, <1>2, <1>5, <1>6, StaysUp DEF SameCommand, Faultless
<1>7. CASE nfc' = SendCmd(b, "DEACTIVATE")
  <2> DEFINE all == b.q \o NewCommand(b, "DEACTIVATE", "plain")
  <2>1. Sound(b) /\ Queues(b)
    BY <1>2, <1>3, <1>4, <1>5, UpMoves DEF Sound, SameCommand
  <2>2. "DEACTIVATE" \in Header /\ "DEACTIVATE" \notin CoreStart
    BY DEF Header, CoreStart
  <2>3. Sends(b, nfc', all)
    BY <1>7, <2>1, <2>2, SendCmdSends
  <2>4. all \in Seq(Command) /\ \E c \in Range(all) : c.hdr = "DEACTIVATE"
    BY <2>1, <2>2, NewRegular, NewKeeps
  <2> HIDE DEF all
  <2>5. nfc'.st = st /\ nfc'.halq = nfc.halq
    BY <1>5, <2>3 DEF Sends, Alike, Linked
  <2>6. Faultless => DeactivationDue'
    <3>1. Faultless => Range(all) \subseteq Range(nfc'.q) \cup Range(nfc'.wire)
      BY <1>3, <1>5, <2>1, <2>3, <2>4, SendsKeeps DEF Linked
    <3> QED
      BY <2>4, <3>1 DEF DeactivationDue
  <2> QED
    BY <1>1, <1>2, <1>4, <2>5, <2>6, StaysUp DEF Faultless
<1> QED
  BY <1>1, <1>6, <1>7

\* The task takes a message that moves the state as it says.
LEMMA TakesOne ==
  ASSUME IInv, Told, mbox # <<>>, mbox' = Tail(mbox), nfc'.halq = nfc.halq, rf' = rf,
         nfc'.st \in {"OPEN", "CLOSING"}
           <=> Begins(Head(mbox)) \/ (nfc.st \in {"OPEN", "CLOSING"} /\ ~Ends(Head(mbox)))
  PROVE  Told'
<1> DEFINE b == nfc.st \in {"OPEN", "CLOSING"}
           d == nfc'.st \in {"OPEN", "CLOSING"}
<1>1. mbox \in Seq(Message) /\ b \in BOOLEAN /\ d \in BOOLEAN
  BY Types
<1>2. d = (Begins(Head(mbox)) \/ (b /\ ~Ends(Head(mbox))))
  BY <1>1 DEF Begins, Ends
<1> HIDE DEF b, d
<1>3. After(mbox, b) = After(Tail(mbox), d)
  <2>1. After(mbox, b) <=> After(Tail(mbox), d)
    BY <1>1, <1>2, AfterTail
  <2>2. After(mbox, b) \in BOOLEAN /\ After(Tail(mbox), d) \in BOOLEAN
    BY <1>1, AfterType
  <2> QED
    BY <2>1, <2>2
<1>4. rf = "active" <=> After(nfc.halq, After(mbox, b))
  BY DEF Told, b
<1>5. rf' = "active" <=> After(nfc'.halq, After(mbox', d))
  BY <1>3, <1>4
<1> QED
  BY <1>5 DEF Told, d

\* nfc_ncif_proc_activate and nfc_ncif_proc_deactivate do as the notification says.
LEMMA HandleNtfAgrees ==
  ASSUME IInv, WInv, Agreement, HandleNtf
  PROVE  Agreement'
<1> DEFINE e == Head(mbox)
           n == Arrived(nfc)
           a == [n EXCEPT !.st = "OPEN"]
           b == [n EXCEPT !.st = "OPEN", !.listen = TRUE]
           c == [n EXCEPT !.st = "IDLE"]
<1>1. /\ Running /\ mbox # <<>> /\ e.type = "NTF" /\ mbox' = Tail(mbox) /\ rf' = rf /\ budget' = budget
      /\ nfc' = (IF n.nxp THEN ProcessNxpRsp(n, 0) ELSE ProcessNtf(n, e.hdr))
  BY DEF HandleNtf
<1>2. Queues(nfc) /\ Phase(nfc) /\ Mail
  BY <1>1 DEF WInv, Window
<1>3. nfc \in Nfc /\ mbox \in Seq(Message)
  BY Types
<1>4. e \in Message /\ e \in Range(mbox)
  BY <1>1, <1>3, RangeTail
<1>5. nfc.st \in Up /\ e.hdr \in Notification /\ e.hdr # "RESET"
  <2>1. nfc.st # "W4_HAL_CLOSE"
    BY <1>1, <1>2, <1>4 DEF Mail
  <2> QED
    BY <1>1, <1>2, <1>4, <2>1, MessageKinds DEF Mail, Fits, OnWay
<1>6. n \in Nfc /\ Alike(nfc, n) /\ SameCommand(nfc, n)
  BY <1>3, ArrivedFields
<1>7. ~n.nxp
  BY <1>2, <1>6 DEF Queues, SameCommand
<1>8. \/ e.hdr = "ACTIVATED" /\ nfc' = a
      \/ e.hdr = "LISTEN_ACTIVATED" /\ nfc' = b
      \/ e.hdr = "DEACTIVATED" /\ nfc' = c
  BY <1>1, <1>5, <1>7 DEF ProcessNtf, Notification
<1> HIDE DEF n
<1>9. /\ a.st = "OPEN" /\ a.halq = n.halq /\ b.st = "OPEN" /\ b.halq = n.halq
      /\ c.st = "IDLE" /\ c.halq = n.halq
  BY <1>6, Zenon DEF Nfc
<1> HIDE DEF a, b, c
<1>10. /\ nfc'.halq = nfc.halq /\ nfc'.st # "CLOSING"
       /\ nfc'.st \in {"OPEN", "CLOSING"}
            <=> Begins(e) \/ (nfc.st \in {"OPEN", "CLOSING"} /\ ~Ends(e))
  BY <1>6, <1>8, <1>9 DEF Alike, Begins, Ends
<1>11. Faultless' => Told'
  <2>1. Faultless' => Told
    BY <1>1, <1>5 DEF Agreement, Faultless
  <2> QED
    BY <1>1, <1>10, <2>1, TakesOne
<1> QED
  BY <1>10, <1>11, AgreementNext

\* No HAL event but the end of the start changes a stack that is up, or brings one up.
LEMMA HandleHalAgrees ==
  ASSUME IInv, WInv, Agreement, HandleHal
  PROVE  Agreement'
<1> DEFINE e == Head(mbox)
<1>1. HalTaken(e) /\ mbox # <<>> /\ mbox' = Tail(mbox) /\ rf' = rf /\ budget' = budget
  BY HalIsTaken DEF HandleHal
<1>2. /\ e \in OnWay /\ e.hdr \in {"OPEN_FAILED", "POST_INIT_CPLT", "CLOSE_CPLT", "ERROR"}
      /\ Running /\ Phase(nfc) /\ Mail /\ Outside /\ Healthy /\ Queues(nfc)
      /\ nfc' = HandleHalEvt(nfc, e.hdr) /\ nfc \in Nfc /\ Sound(nfc)
      /\ mbox \in Seq(Message) /\ nfc.halq \in Seq(Message) /\ mbox' \in Seq(Message)
      /\ Range(mbox) \subseteq {e} \cup Range(mbox') /\ Range(mbox') \subseteq Range(mbox)
  BY <1>1, Types DEF HalTaken, HalEvent
<1>3. ~Begins(e) /\ ~Ends(e) /\ e.hdr # "DEACTIVATE"
  BY <1>2 DEF Begins, Ends
<1>4. Faultless' = Faultless
  BY <1>1 DEF Faultless
<1> SUFFICES ASSUME Faultless, nfc'.st \in Up
             PROVE  Told' /\ (nfc'.st = "CLOSING" => DeactivationDue')
  BY <1>4, AgreementNext
<1> HIDE DEF e
<1>5. e.hdr # "ERROR"
  BY <1>2 DEF Healthy
<1>6. e.hdr # "CLOSE_CPLT"
  <2> SUFFICES ASSUME e.hdr = "CLOSE_CPLT"
               PROVE  FALSE
    OBVIOUS
  <2>1. nfc.st \notin Up
    BY <1>1, <1>2 DEF HalTaken, Fits, Phase
  <2>2. nfc' = nfc \/ nfc'.st \in Down
    BY <1>2, CloseFields
  <2> QED
    BY <2>1, <2>2 DEF Up, Down
<1>7. e.hdr # "OPEN_FAILED"
  <2> SUFFICES ASSUME e.hdr = "OPEN_FAILED"
               PROVE  FALSE
    OBVIOUS
  <2>1. nfc' = EnabledFailed(nfc)
    BY <1>2 DEF HandleHalEvt
  <2> QED
    BY <1>2, <2>1, EnabledFailedFields DEF Up
<1>8. e.hdr = "POST_INIT_CPLT"
  BY <1>2, <1>5, <1>6, <1>7
<1> DEFINE go == nfc.init /\ nfc.st = "W4_POST_INIT_CPLT"
           c  == IF go THEN EnabledOk(nfc) ELSE nfc
           d  == [c EXCEPT !.init = FALSE]
<1>9. nfc' = d
  BY <1>2, <1>8 DEF HandleHalEvt
<1>10. go => c.st = "IDLE" /\ c.halq = nfc.halq /\ c \in Nfc
  BY <1>2, EnabledOkFields
<1>11. /\ ~go => c = nfc
       /\ go => nfc.st = "W4_POST_INIT_CPLT"
  OBVIOUS
<1>12. c \in Nfc
  BY <1>2, <1>10, <1>11
<1> HIDE DEF c, go
<1>13. d.st = c.st /\ d.halq = c.halq /\ d.q = c.q /\ d.wire = c.wire
  BY <1>12, Zenon DEF Nfc
<1> HIDE DEF d
<1>14. CASE go
  <2>1. nfc'.st = "IDLE" /\ nfc'.halq = nfc.halq
    BY <1>9, <1>10, <1>13, <1>14
  <2>2. /\ nfc.window = 1 /\ rf = "idle"
        /\ nfc.st \notin Up /\ nfc.st \notin {"W4_HAL_CLOSE", "CORE_INIT"}
    BY <1>2, <1>11, <1>14 DEF Phase, Outside, Up
  <2>3. \A m \in OnWay : ~Begins(m) /\ ~Ends(m)
    <3> SUFFICES ASSUME NEW m \in OnWay
                 PROVE  ~Begins(m) /\ ~Ends(m)
      OBVIOUS
    <3>1. m \in Message /\ m.type # "RSP" /\ m.type # "NTF"
      BY <1>2, <2>2, Types DEF Mail, Fits
    <3>2. m.hdr \in HalEvent
      BY <3>1, MessageKinds
    <3> QED
      BY <3>2 DEF Begins, Ends, HalEvent
  <2>4. After(mbox', FALSE) = FALSE
    <3>1. \A m \in Range(mbox') : ~Begins(m) /\ ~Ends(m)
      BY <1>2, <2>3 DEF OnWay
    <3>2. After(mbox', FALSE) <=> FALSE
      BY <1>2, <3>1, AfterQuiet
    <3> QED
      BY <3>2, AfterType
  <2>5. After(nfc.halq, FALSE) = FALSE
    <3>1. \A m \in Range(nfc.halq) : ~Begins(m) /\ ~Ends(m)
      BY <2>3 DEF OnWay
    <3>2. After(nfc.halq, FALSE) <=> FALSE
      BY <1>2, <3>1, AfterQuiet
    <3> QED
      BY <3>2, AfterType
  <2>6. (nfc'.st \in {"OPEN", "CLOSING"}) = FALSE
    BY <2>1
  <2>7. Told'
    BY <1>1, <2>1, <2>2, <2>4, <2>5, <2>6 DEF Told
  <2> QED
    BY <2>1, <2>7
<1>15. CASE ~go
  <2>1. nfc'.st = nfc.st /\ nfc'.halq = nfc.halq /\ nfc'.q = nfc.q /\ nfc'.wire = nfc.wire
    BY <1>9, <1>11, <1>13, <1>15
  <2>2. Told /\ (nfc.st = "CLOSING" => DeactivationDue)
    BY <1>2, <2>1 DEF Agreement
  <2>3. Told'
    BY <1>1, <1>3, <2>1, <2>2, TakesOne DEF e
  <2>4. OnWay \subseteq OnWay' \cup {e}
    BY <1>2, <2>1 DEF OnWay
  <2>5. DeactivationDue => DeactivationDue'
    BY <1>3, <2>1, <2>4 DEF DeactivationDue
  <2> QED
    BY <2>1, <2>2, <2>3, <2>5
<1> QED
  BY <1>14, <1>15

\* The answer to a deactivation ends what was active; another leaves the state alone and
\* lets the next command go.
LEMMA HandleRspAgrees ==
  ASSUME IInv, WInv, Agreement, HandleRsp
  PROVE  Agreement'
<1> DEFINE r == Head(mbox)
           n == Arrived(nfc)
           d == DispatchRsp(n, r)
<1>1. /\ r \in Message /\ r.type = "RSP" /\ r \in OnWay
      /\ Consistent(n) /\ Sound(n) /\ Queues(n) /\ Phase(n) /\ Mail /\ Outside
      /\ Alike(nfc, n) /\ SameCommand(nfc, n) /\ n.q = nfc.q
      /\ n.window = 0 /\ n.wire = <<>> /\ Due(n.st, r.hdr) /\ Answers(n, r)
      /\ mbox' = Tail(mbox) /\ Faultless' = Faultless /\ rf' = rf
      /\ \A m \in Range(mbox') \cup Range(n.halq) : m.type # "RSP"
      /\ nfc' = ProcessRsp(n, r)
  BY RspTaken
<1>2. Running /\ mbox # <<>> /\ mbox \in Seq(Message) /\ Range(mbox) \subseteq {r} \cup Range(mbox')
  <2>1. Running /\ mbox # <<>> /\ mbox \in Seq(Message)
    BY Types DEF HandleRsp
  <2> QED
    BY <1>1, <2>1, RangeTail
<1>3. r.hdr \in Header /\ ~Begins(r) /\ (Ends(r) <=> r.hdr = "DEACTIVATE")
  <2>1. r.hdr \in Header
    BY <1>1, MessageKinds
  <2> QED
    BY <2>1 DEF Header, Begins, Ends
<1>4. nfc.st = n.st /\ nfc.halq = n.halq /\ nfc.open = n.open /\ nfc.wire = <<>>
  BY <1>1 DEF Alike, SameCommand
<1>5. n \in Nfc
  BY <1>1 DEF Sound
<1>6. Sound(d)
  BY <1>1, DispatchRspSound, MessageKinds DEF Consistent
<1> SUFFICES ASSUME Faultless, nfc'.st \in Up
             PROVE  Told' /\ (nfc'.st = "CLOSING" => DeactivationDue')
  BY <1>1, AgreementNext
<1> HIDE DEF r, n
<1>7. Matches(n, r)
  <2>1. n.timer /\ Queues(nfc)
    BY <1>1, <1>2 DEF WInv, Window, Healthy, SameCommand
  <2> QED
    BY <1>1, <2>1 DEF Answers, Matches
<1>8. nfc' = UpdateWindow(d)
  BY <1>1, <1>7 DEF ProcessRsp
<1>9. Alike(d, nfc')
  BY <1>6, <1>8, UpdateWindowAlike
<1>10. n.st \in Up
  <2> SUFFICES ASSUME n.st = "CORE_INIT", r.hdr \in CoreStart
               PROVE  FALSE
    BY <1>1 DEF Due
  <2>1. Starts(n, r, nfc')
    BY <1>1, <1>8, StartOutcome DEF Up
  <2> QED
    BY <2>1 DEF Starts, FailsStart, Up
<1>11. r.hdr \notin CoreStart
  BY <1>1, <1>10 DEF Due, Up
<1>12. /\ Queues(d) /\ d.st \in Up /\ SameCommand(n, d) /\ d.q = n.q /\ Linked(n, d)
  BY <1>1, <1>10, <1>11, UpDispatch
<1>13. d.st = IF r.hdr = "DEACTIVATE" THEN "IDLE" ELSE n.st
  <2> DEFINE o  == [n EXCEPT !.st = "IDLE"]
             rs == IF n.cback = 0 THEN n.reports
                   ELSE n.reports \cup {[cb |-> n.cback, rsp |-> r.id]}
             v  == [n EXCEPT !.reports = rs]
  <2>1. \/ d = o /\ r.hdr = "DEACTIVATE"
        \/ d = v /\ r.hdr # "DEACTIVATE"
        \/ d = n /\ r.hdr # "DEACTIVATE"
    BY <1>11 DEF DispatchRsp, CoreStart, Vendor
  <2> HIDE DEF rs
  <2>2. o.st = "IDLE" /\ v.st = n.st
    BY <1>5, Zenon DEF Nfc
  <2> HIDE DEF o, v, d
  <2> QED
    BY <2>1, <2>2
<1> HIDE DEF d
<1>14. Told /\ (nfc.st = "CLOSING" => DeactivationDue)
  BY <1>2, <1>4, <1>10 DEF Agreement
<1>15. nfc'.st = d.st /\ nfc'.halq = nfc.halq
  BY <1>4, <1>9, <1>12 DEF Alike, Linked
<1>16. Told'
  <2>1. nfc'.st \in {"OPEN", "CLOSING"} <=> Begins(r) \/ (nfc.st \in {"OPEN", "CLOSING"} /\ ~Ends(r))
    BY <1>3, <1>4, <1>13, <1>15
  <2> QED
    BY <1>1, <1>2, <1>14, <1>15, <2>1, TakesOne DEF r
<1>17. ASSUME nfc'.st = "CLOSING"
       PROVE  DeactivationDue'
  <2>1. r.hdr # "DEACTIVATE" /\ DeactivationDue
    BY <1>4, <1>13, <1>14, <1>15, <1>17
  <2>2. \A m \in OnWay : m.hdr # "DEACTIVATE"
    <3> SUFFICES ASSUME NEW m \in OnWay, m.hdr = "DEACTIVATE"
                 PROVE  FALSE
      OBVIOUS
    <3>1. m \in Message /\ "DEACTIVATE" \in Header
      BY Types DEF Header
    <3>2. m.type = "RSP"
      BY <3>1, MessageKinds
    <3>3. m = r \/ m \in Range(mbox') \cup Range(n.halq)
      BY <1>2, <1>4 DEF OnWay
    <3> QED
      BY <1>1, <2>1, <3>2, <3>3
  <2>3. PICK c \in Range(nfc.q) : c.hdr = "DEACTIVATE"
    <3>1. Range(nfc.wire) = {}
      BY <1>4, LinedEmpty
    <3> QED
      BY <2>1, <2>2, <3>1 DEF DeactivationDue
  <2>4. d.window = 0 /\ d.wire = <<>> /\ d.open
    <3>1. nfc.open
      BY <1>4, <1>10, UpFacts
    <3> QED
      BY <1>1, <1>4, <1>12, <3>1 DEF SameCommand, Linked
  <2>5. PICK o : Opened(d, o) /\ Sends(o, nfc', d.q)
    BY <1>6, <1>8, <2>4, UpdateWindowOpens
  <2>6. Sound(o) /\ Queues(o) /\ o.open
    BY <1>12, <2>4, <2>5 DEF Queues, Opened, Alike
  <2>7. d.q \in Seq(Command)
    BY <1>6, Fields
  <2>8. Range(d.q) \subseteq Range(nfc'.q) \cup Range(nfc'.wire)
    BY <2>5, <2>6, <2>7, SendsKeeps
  <2> QED
    BY <1>1, <1>12, <2>3, <2>8 DEF DeactivationDue
<1> QED
  BY <1>16, <1>17

\* A message that the client thread posts is the last in the mailbox, in front of what the
\* thread still has.
LEMMA ClientAgrees ==
  ASSUME IInv, WInv, Agreement, Client
  PROVE  Agreement'
<1> DEFINE e  == Head(nfc.halq)
           hq == Tail(nfc.halq)
           b  == nfc.st \in {"OPEN", "CLOSING"}
           x  == After(mbox, b)
<1>1. nfc \in Nfc /\ mbox \in Seq(Message) /\ nfc.halq \in Seq(Message)
  BY Types
<1>2. budget' = budget /\ rf' = rf /\ (nfc' = nfc \/ nfc' = [nfc EXCEPT !.halq = hq])
  BY DEF Client, ClientOpenCplt, ClientSendReady, ClientHalEvent, ClientData, DropHead
<1> HIDE DEF hq
<1>3. nfc'.st = nfc.st
  BY <1>1, <1>2, Zenon DEF Nfc
<1>4. Faultless' = Faultless
  BY <1>2 DEF Faultless
<1> SUFFICES ASSUME nfc.st \in Up, Faultless
             PROVE  Told' /\ (nfc'.st = "CLOSING" => DeactivationDue')
  BY <1>3, <1>4, AgreementNext
<1>5. /\ Running /\ ~checked /\ nfc.st # "W4_HAL_CLOSE"
      /\ \A m \in OnWay : m.hdr \notin {"CLOSE_CPLT", "OPEN_FAILED", "OPEN_CPLT"}
      /\ Told /\ (nfc.st = "CLOSING" => DeactivationDue)
  BY UpFacts DEF Agreement
<1>6. /\ Next1 /\ nfc' = DropHead
      /\ \/ e = Hal("OPEN_CPLT")
         \/ mbox' = Append(mbox, e)
  BY <1>5 DEF Client, ClientOpenCplt, ClientSendReady, ClientHalEvent, ClientData
<1>7. Passing(e)
  BY <1>5, <1>6, ClientTakes
<1>8. nfc.halq # <<>> /\ nfc' = [nfc EXCEPT !.halq = hq]
  BY <1>6 DEF Next1, DropHead, hq
<1>9. nfc'.halq = hq
  BY <1>1, <1>8, Zenon DEF Nfc
<1> HIDE DEF e
<1>10. mbox' = Append(mbox, e) /\ e \in Message
  <2>1. e.hdr # "OPEN_CPLT"
    BY <1>5, <1>7 DEF Passing
  <2> QED
    BY <1>6, <1>7, <2>1 DEF Passing, Hal
<1>11. OnWay' = OnWay
  BY <1>7, <1>10 DEF Passing, OnWay
<1>12. b \in BOOLEAN /\ x \in BOOLEAN
  BY DEF After
<1>13. (nfc'.st \in {"OPEN", "CLOSING"}) = b
  BY <1>3
<1> HIDE DEF b
<1>14. After(mbox', b) <=> Begins(e) \/ (x /\ ~Ends(e))
  BY <1>1, <1>10, <1>12, AfterAppend
<1>15. After(nfc.halq, x) <=> After(hq, Begins(e) \/ (x /\ ~Ends(e)))
  BY <1>1, <1>8, <1>12, AfterTail DEF e, hq
<1>16. After(mbox', b) = (Begins(e) \/ (x /\ ~Ends(e)))
  <2>1. After(mbox', b) \in BOOLEAN
    BY <1>12, AfterType
  <2>2. (Begins(e) \/ (x /\ ~Ends(e))) \in BOOLEAN
    BY DEF Begins, Ends
  <2> QED
    BY <1>14, <2>1, <2>2
<1>17. After(hq, After(mbox', b)) <=> After(nfc.halq, x)
  BY <1>15, <1>16
<1>18. Told'
  <2>1. rf = "active" <=> After(nfc.halq, x)
    BY <1>5 DEF Told, b
  <2> HIDE DEF x
  <2>2. rf' = "active" <=> After(nfc'.halq, After(mbox', b))
    BY <1>2, <1>9, <1>17, <2>1
  <2> QED
    BY <1>13, <2>2 DEF Told
<1>19. nfc.st = "CLOSING" => DeactivationDue'
  BY <1>5, <1>7, <1>11 DEF DeactivationDue, Passing, Outer
<1> QED
  BY <1>3, <1>18, <1>19

\* The NFCC says last what it does.
LEMMA NfccNotifyAgrees ==
  ASSUME IInv, WInv, Agreement, NfccNotify
  PROVE  Agreement'
<1>1. PICK h \in {"ACTIVATED", "LISTEN_ACTIVATED", "DEACTIVATED"} :
        /\ nfc' = [nfc EXCEPT !.halq = Append(nfc.halq, Ntf(h))]
        /\ rf' = "active" <=> h # "DEACTIVATED"
  BY DEF NfccNotify
<1>2. Spend("ntf") /\ mbox' = mbox
  BY DEF NfccNotify
<1> DEFINE e  == Ntf(h)
           hq == Append(nfc.halq, e)
<1>3. /\ (Faultless' <=> Faultless) /\ nfc \in Nfc
      /\ mbox \in Seq(Message) /\ nfc.halq \in Seq(Message)
  BY <1>2, Spending, Types DEF WInv
<1>4. e \in Message /\ e.hdr = h
  BY NtfMessage DEF Ntf, Notification
<1>5. (Begins(e) <=> h # "DEACTIVATED") /\ (Ends(e) <=> h = "DEACTIVATED")
  BY <1>4 DEF Begins, Ends
<1> HIDE DEF hq
<1>6. Outer(nfc, nfc') /\ nfc'.halq = hq /\ nfc'.wire = nfc.wire
  BY <1>1, <1>3, Zenon DEF Nfc, Outer, hq
<1> HIDE DEF e
<1> SUFFICES ASSUME nfc.st \in Up, Faultless
             PROVE  Told' /\ (nfc'.st = "CLOSING" => DeactivationDue')
  BY <1>3, <1>6, AgreementNext DEF Outer
<1>7. nfc.st = "CLOSING" => DeactivationDue
  BY UpFacts DEF Agreement
<1>8. Range(hq) = Range(nfc.halq) \cup {e}
  BY <1>3, <1>4, RangeAppend DEF hq
<1>9. OnWay \subseteq OnWay'
  BY <1>2, <1>6, <1>8 DEF OnWay
<1>10. \A x \in BOOLEAN : After(hq, x) <=> h # "DEACTIVATED"
  BY <1>3, <1>4, <1>5, AfterAppend DEF hq
<1>11. After(mbox', nfc'.st \in {"OPEN", "CLOSING"}) \in BOOLEAN
  BY DEF After
<1>12. Told'
  BY <1>1, <1>6, <1>10, <1>11 DEF Told
<1> QED
  BY <1>6, <1>7, <1>9, <1>12 DEF DeactivationDue, Outer

\* The answer takes the place of its command.
LEMMA NfccRespondAgrees ==
  ASSUME IInv, WInv, Agreement, NfccRespond
  PROVE  Agreement'
<1> DEFINE c  == Head(nfc.wire)
           w  == Tail(nfc.wire)
<1>1. PICK r \in Result :
        /\ budget' = budget \/ Spend("faults")
        /\ nfc' = [nfc EXCEPT !.wire = Tail(nfc.wire),
                              !.halq = Append(nfc.halq, Rsp(c.hdr, c.id, r)) \o NtfAfter(c.hdr)]
  BY DEF NfccRespond
<1>2. nfc.wire # <<>> /\ rf' = RfAfter(c.hdr) /\ mbox' = mbox
  BY DEF NfccRespond
<1> DEFINE x  == Rsp(c.hdr, c.id, r)
           q1 == Append(nfc.halq, x)
           hq == q1 \o NtfAfter(c.hdr)
           d  == Ntf("DEACTIVATED")
           y  == After(mbox, nfc.st \in {"OPEN", "CLOSING"})
<1>3. /\ nfc \in Nfc /\ (Faultless' => Faultless)
      /\ nfc.wire \in Seq(Command) /\ mbox \in Seq(Message) /\ nfc.halq \in Seq(Message)
  <2>1. nfc \in Nfc /\ nfc.wire \in Seq(Command) /\ mbox \in Seq(Message) /\ nfc.halq \in Seq(Message)
    BY Types, Fields
  <2>2. Spend("faults") => ~Faultless'
    BY Spending DEF WInv
  <2> QED
    BY <1>1, <2>1, <2>2 DEF Faultless
<1>4. c \in Command /\ c.hdr \in Header /\ c.id \in Nat
  <2>1. c \in Command
    BY <1>2, <1>3
  <2> QED
    BY <2>1 DEF Command
<1>5. x \in Message /\ x.hdr = c.hdr
  BY <1>4 DEF Message, Rsp
<1>6. d \in Message /\ d.hdr = "DEACTIVATED"
  BY NtfMessage DEF Ntf, Notification
<1>7. NtfAfter(c.hdr) = IF c.hdr = "DEACTIVATE" /\ rf = "active" THEN <<d>> ELSE <<>>
  BY DEF NtfAfter
<1> HIDE DEF w, hq
<1>8. Outer(nfc, nfc') /\ nfc'.halq = hq /\ nfc'.wire = w
  BY <1>1, <1>3, Zenon DEF Nfc, Outer, w, hq
<1> SUFFICES ASSUME nfc.st \in Up, Faultless
             PROVE  Told' /\ (nfc'.st = "CLOSING" => DeactivationDue')
  BY <1>3, <1>8, AgreementNext DEF Outer
<1>9. Queues(nfc) /\ Told /\ (nfc.st = "CLOSING" => DeactivationDue)
  BY UpFacts DEF Agreement
<1>10. nfc.wire = <<nfc.last>> /\ Due(nfc.st, nfc.last.hdr)
  BY <1>2, <1>9 DEF Queues
<1>11. c = nfc.last /\ w = <<>>
  BY <1>10 DEF w
<1>12. c.hdr \notin CoreStart
  BY <1>10, <1>11 DEF Due, Up
<1>13. Range(nfc.wire) = {c}
  <2> DEFINE no == <<>>
  <2>1. no \in Seq(Command) /\ nfc.wire = Append(no, c) /\ Range(no) = {}
    BY <1>10, <1>11, EmptyCommands, LinedEmpty
  <2> HIDE DEF no, c
  <2> QED
    BY <1>4, <2>1, RangeAppend
<1> HIDE DEF c, x, d
<1>14. q1 \in Seq(Message) /\ Range(q1) = Range(nfc.halq) \cup {x}
  BY <1>3, <1>5, RangeAppend
<1>15. ~Begins(x) /\ (Ends(x) <=> c.hdr = "DEACTIVATE") /\ ~Begins(d) /\ Ends(d)
  BY <1>4, <1>5, <1>6 DEF Begins, Ends, Header
<1>16. y \in BOOLEAN
  BY DEF After
<1> HIDE DEF y
<1>17. After(q1, y) <=> After(nfc.halq, y) /\ c.hdr # "DEACTIVATE"
  BY <1>3, <1>5, <1>15, <1>16, AfterAppend
<1> HIDE DEF q1
<1>18. /\ After(hq, y) <=> After(nfc.halq, y) /\ c.hdr # "DEACTIVATE"
       /\ Range(q1) \subseteq Range(hq)
  <2>1. CASE c.hdr = "DEACTIVATE" /\ rf = "active"
    <3>1. hq = Append(q1, d)
      BY <1>6, <1>7, <1>14, <2>1, AppendOne DEF hq
    <3>2. After(hq, y) <=> FALSE
      BY <1>6, <1>14, <1>15, <1>16, <3>1, AfterAppend
    <3>3. Range(hq) = Range(q1) \cup {d}
      BY <1>6, <1>14, <3>1, RangeAppend
    <3> QED
      BY <2>1, <3>2, <3>3
  <2>2. CASE ~(c.hdr = "DEACTIVATE" /\ rf = "active")
    <3>1. hq = q1
      BY <1>7, <1>14, <2>2 DEF hq
    <3> QED
      BY <1>17, <3>1
  <2> QED
    BY <2>1, <2>2
<1>19. rf' = "active" <=> rf = "active" /\ c.hdr # "DEACTIVATE"
  BY <1>2, <1>12 DEF RfAfter, CoreStart
<1>20. Told'
  <2>1. rf = "active" <=> After(nfc.halq, y)
    BY <1>9 DEF Told, y
  <2>2. rf' = "active" <=> After(nfc'.halq, y)
    BY <1>8, <1>18, <1>19, <2>1
  <2> QED
    BY <1>2, <1>8, <2>2 DEF Told, y, Outer
<1>21. OnWay \cup {x} \subseteq OnWay'
  BY <1>2, <1>8, <1>14, <1>18 DEF OnWay
<1>22. nfc.st = "CLOSING" => DeactivationDue'
  <2>1. CASE c.hdr = "DEACTIVATE"
    BY <1>5, <1>21, <2>1 DEF DeactivationDue
  <2>2. CASE c.hdr # "DEACTIVATE"
    BY <1>8, <1>9, <1>13, <1>21, <2>2 DEF DeactivationDue, Outer
  <2> QED
    BY <2>1, <2>2
<1> QED
  BY <1>8, <1>20, <1>22 DEF Outer

\* After a fault nothing is claimed.
LEMMA NfccFaultAgrees ==
  ASSUME IInv, WInv, NfccLose \/ TransportError
  PROVE  Agreement'
<1>1. Spend("faults")
  BY DEF NfccLose, TransportError
<1>2. ~Faultless'
  BY <1>1, Spending DEF WInv
<1> QED
  BY <1>2, AgreementNot

\* At first the stack is down.
LEMMA InitAgreement == Init => Agreement
BY DEF Init, Agreement, Up

\* A step that changes nothing.
LEMMA StutterAgrees ==
  ASSUME Agreement, UNCHANGED vars
  PROVE  Agreement'
<1>1. nfc' = nfc /\ mbox' = mbox /\ rf' = rf /\ budget' = budget
  BY DEF vars
<1>2. OnWay' = OnWay /\ (Running' <=> Running) /\ (Faultless' <=> Faultless)
  BY <1>1 DEF OnWay, Running, Faultless
<1> QED
  BY <1>1, <1>2 DEF Agreement, Told, DeactivationDue

\* The agreement is inductive for an orderly stack.
LEMMA NextAgreement == Orderly /\ IInv /\ WInv /\ Agreement /\ [Next]_vars => Agreement'
<1> SUFFICES ASSUME Orderly, IInv, WInv, Agreement, [Next]_vars
             PROVE  Agreement'
  OBVIOUS
<1>1. CASE UNCHANGED vars
  BY <1>1, StutterAgrees
<1>2. CASE Task
  <2>1. ~HandleResetNtf
    BY HandleResetNtfWindow
  <2> QED
    BY <1>2, <2>1, TransportReadyAgrees, HandleRspAgrees, HandleNtfAgrees, HandleHalAgrees DEF Task
<1>3. CASE Timers
  <2>1. ~ListenTimeout
    BY DEF ListenTimeout, Orderly
  <2> QED
    BY <1>3, <2>1, CmdTimeoutAgrees DEF Timers
<1>4. CASE Application
  BY <1>4, EnableAgrees, DisableAgrees, PowerDownAgrees, PowerUpAgrees, SendAgrees,
     DiscoveryStartAgrees, DeactivateAgrees DEF Application
<1>5. CASE Client
  BY <1>5, ClientAgrees
<1>6. CASE Nfcc
  <2>1. ~NfccReset
    BY DEF NfccReset, Orderly
  <2> QED
    BY <1>6, <2>1, NfccRespondAgrees, NfccFaultAgrees, NfccNotifyAgrees DEF Nfcc
<1> QED
  BY <1>1, <1>2, <1>3, <1>4, <1>5, <1>6 DEF Next

\* With nothing on its way the stack is where the NFCC is: a deactivation that waits in the
\* queue would have its window closed, so that a command is out or answered.
LEMMA AgreementAgrees == IInv /\ WInv /\ Agreement => AgreesWithNfcc
<1> SUFFICES ASSUME IInv, WInv, Agreement, Faultless, nfc.st \in Up,
                    nfc.halq = <<>>, mbox = <<>>, nfc.wire = <<>>
             PROVE  nfc.st = "OPEN" <=> rf = "active"
  BY DEF AgreesWithNfcc
<1> DEFINE b == nfc.st \in {"OPEN", "CLOSING"}
<1>1. /\ Running /\ Healthy /\ Sound(nfc) /\ mbox \in Seq(Message) /\ nfc.halq \in Seq(Message)
      /\ Told /\ (nfc.st = "CLOSING" => DeactivationDue)
  BY UpFacts DEF Agreement
<1>2. Range(mbox) = {} /\ Range(nfc.halq) = {} /\ Range(nfc.wire) = {} /\ OnWay = {}
  BY LinedEmpty DEF OnWay
<1>3. \A x \in BOOLEAN : (After(mbox, x) <=> x) /\ (After(nfc.halq, x) <=> x)
  BY <1>1, <1>2, AfterQuiet
<1>4. b \in BOOLEAN /\ After(mbox, b) \in BOOLEAN
  BY DEF After
<1>5. rf = "active" <=> b
  BY <1>1, <1>3, <1>4 DEF Told
<1>6. nfc.st # "CLOSING"
  <2> SUFFICES ASSUME nfc.st = "CLOSING"
               PROVE  FALSE
    OBVIOUS
  <2>1. Range(nfc.q) # {}
    BY <1>1, <1>2 DEF DeactivationDue
  <2>2. nfc.q # <<>>
    BY <2>1, LinedEmpty
  <2>3. nfc.window = 0
    <3>1. nfc.window \in 0 .. 1
      BY <1>1, Fields
    <3> QED
      BY <2>2, <3>1 DEF IInv, NoStrandedCommand, MaxWindow
  <2> QED
    BY <1>1, <1>2, <2>3 DEF Healthy
<1> QED
  BY <1>5, <1>6

\* As long as nothing fails, nfc_state says that a remote device is active exactly when the
\* NFCC does, once everything on its way has been handled: activations, deactivations and
\* responses that cross each other leave the two in agreement (nfc_ncif_proc_activate,
\* nfc_ncif_proc_deactivate, nci_proc_rf_management_rsp).
THEOREM AgreesAtRest == Orderly => (Spec => []AgreesWithNfcc)
<1> SUFFICES ASSUME Orderly
             PROVE  Spec => []AgreesWithNfcc
  OBVIOUS
<1>1. Init => Agreement
  BY InitAgreement
<1>2. IInv /\ WInv /\ Agreement /\ [Next]_vars => Agreement'
  BY NextAgreement
<1>3. Spec => [](IInv /\ WInv)
  BY Holds, PTL
<1>4. IInv /\ WInv /\ Agreement => AgreesWithNfcc
  BY AgreementAgrees
<1> QED
  BY <1>1, <1>2, <1>3, <1>4, PTL DEF Spec
===============================================================================
