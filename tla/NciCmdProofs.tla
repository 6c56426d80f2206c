----------------------------- MODULE NciCmdProofs -----------------------------
(***************************************************************************)
(* Proofs about the command plane NciCmd, for every choice of command      *)
(* kinds, cases and bounds: the control block keeps its type with          *)
(* nci_cmd_window at most NCI_MAX_CMD_WINDOW, no command is ever stranded  *)
(* behind an open window, and commands go out in the order of their issue. *)
(***************************************************************************)
EXTENDS NciCmd, TLAPS

Sound(n) == n \in Nfc /\ n.window <= MaxWindow

Settled(n) ==
  n.window = MaxWindow
    => n.q = <<>> /\ ~({"CONTROL_REQUESTED", "DISCOVER_PENDING"} \subseteq n.flags)

\* The fields of a control block of the right type.
LEMMA Fields ==
  ASSUME NEW n, Sound(n)
  PROVE  /\ n \in Nfc
         /\ n.st \in State /\ n.window \in Nat /\ n.q \in Seq(Command)
         /\ n.flags \in SUBSET Flag /\ n.last \in Command /\ n.cback \in Nat
         /\ n.nxp \in BOOLEAN /\ n.timer \in BOOLEAN /\ n.listen \in BOOLEAN
         /\ n.conn \in BOOLEAN /\ n.init \in BOOLEAN /\ n.retry \in Nat
         /\ n.resp \in BOOLEAN /\ n.owed \in SUBSET Event
         /\ n.reports \in SUBSET [cb : Nat, rsp : Nat] /\ n.next \in Nat
         /\ n.wire \in Seq(Command) /\ n.open \in BOOLEAN /\ n.tml \in BOOLEAN
         /\ n.halq \in Seq(Message)
         /\ n.window \in 0 .. 1
<1>1. n.window <= 1
  BY DEF Sound, MaxWindow
<1>2. n \in Nfc
  BY DEF Sound
<1>3. n.window \in Nat
  BY <1>2, Zenon DEF Nfc
<1>4. n.window \in 0 .. 1
  BY <1>1, <1>3
<1> QED
  BY <1>2, <1>4, Zenon DEF Nfc

LEMMA TransmitSound ==
  ASSUME NEW n, Sound(n), n.window > 0, NEW c \in Command
  PROVE  /\ Sound(Transmit(n, c))
         /\ Transmit(n, c).window = 0
<1> DEFINE cb   == IF c.kind = "plain" THEN n.cback ELSE c.id
           nx   == n.nxp \/ c.kind = "nxp"
           sent == IF n.open THEN Append(n.wire, c) ELSE n.wire
           w    == n.window - 1
           t    == [n EXCEPT !.last = c, !.cback = cb, !.nxp = nx, !.wire = sent,
                             !.window = w, !.timer = TRUE]
<1>0. n \in Nfc /\ n.cback \in Nat /\ n.wire \in Seq(Command) /\ n.window \in 0 .. 1
  BY Fields
<1>1. cb \in Nat /\ sent \in Seq(Command) /\ w = 0
  <2>1. c.id \in Nat
    BY Zenon DEF Command
  <2>2. sent \in Seq(Command)
    BY <1>0
  <2> QED
    BY <1>0, <2>1, <2>2
<1>2. nx \in BOOLEAN
  OBVIOUS
<1>3. Transmit(n, c) = t
  BY DEF Transmit
<1>4. w \in Nat
  BY <1>1
<1> HIDE DEF cb, nx, sent, w
<1>5. t \in Nfc /\ t.window = w
  BY <1>0, <1>1, <1>2, <1>4, Zenon DEF Nfc
<1> QED
  BY <1>1, <1>3, <1>5 DEF Sound, MaxWindow

LEMMA IssueSound ==
  ASSUME NEW n, Sound(n), n.window > 0
  PROVE  /\ Sound(IssuePendingDiscover(n))
         /\ IssuePendingDiscover(n).window = 0
<1> DEFINE fl == n.flags \ {"CONTROL_REQUESTED", "DISCOVER_PENDING"}
           nx == n.next + 1
           m  == [n EXCEPT !.flags = fl, !.listen = FALSE, !.next = nx]
           c  == [id |-> n.next, hdr |-> "DISCOVER", kind |-> "plain"]
<1>1. fl \in SUBSET Flag
  BY Fields, Zenon
<1>2. nx \in Nat
  BY Fields
<1>3. c \in Command
  BY Fields DEF Command, Header
<1>4. IssuePendingDiscover(n) = Transmit(m, c)
  BY DEF IssuePendingDiscover
<1> HIDE DEF fl, nx, c
<1>5. m \in Nfc /\ m.window = n.window
  <2>1. n \in Nfc
    BY Fields
  <2> QED
    BY <2>1, <1>1, <1>2, Zenon DEF Nfc
<1>6. Sound(m) /\ m.window > 0
  BY <1>5 DEF Sound
<1> HIDE DEF m
<1> QED
  BY <1>3, <1>4, <1>6, TransmitSound

\* nfc_ncif_check_cmd_queue settles the queue, whatever state it finds it in.
LEMMA CheckCmdQueueSound ==
  ASSUME NEW n, Sound(n), NEW cs \in Seq(Command)
  PROVE  Sound(CheckCmdQueue(n, cs)) /\ Settled(CheckCmdQueue(n, cs))
<1> DEFINE all  == n.q \o cs
           tl   == Tail(all)
           rest == [n EXCEPT !.q = tl]
           held == [n EXCEPT !.q = all]
           sent == IF n.window > 0 /\ all # <<>> THEN Transmit(rest, Head(all)) ELSE held
           due  == sent.window = MaxWindow
                   /\ {"CONTROL_REQUESTED", "DISCOVER_PENDING"} \subseteq sent.flags
<1>0. n \in Nfc /\ n.q \in Seq(Command)
  BY Fields
<1>1. all \in Seq(Command)
  BY <1>0
<1>2. Sound(sent) /\ (sent.window = MaxWindow => sent.q = <<>>)
  <2>1. CASE n.window > 0 /\ all # <<>>
    <3>1. Head(all) \in Command /\ tl \in Seq(Command)
      BY <1>1, <2>1
    <3> HIDE DEF tl, all
    <3>2. rest \in Nfc /\ rest.window = n.window
      BY <1>0, <3>1, Zenon DEF Nfc
    <3>3. Sound(rest) /\ rest.window > 0
      BY <2>1, <3>2 DEF Sound
    <3> HIDE DEF rest
    <3> QED
      BY <2>1, <3>1, <3>3, TransmitSound DEF MaxWindow
  <2>2. CASE ~(n.window > 0 /\ all # <<>>)
    <3>1. ASSUME NEW a \in Seq(Command)
          PROVE  /\ [n EXCEPT !.q = a] \in Nfc
                 /\ [n EXCEPT !.q = a].window = n.window
                 /\ [n EXCEPT !.q = a].q = a
      BY <1>0, Zenon DEF Nfc
    <3>2. held \in Nfc /\ held.window = n.window /\ held.q = all
      BY <1>1, <3>1
    <3> HIDE DEF held, all
    <3> QED
      BY <2>2, <3>2 DEF Sound, MaxWindow
  <2> QED
    BY <2>1, <2>2
<1>3. CheckCmdQueue(n, cs) = IF due THEN IssuePendingDiscover(sent) ELSE sent
  BY DEF CheckCmdQueue
<1> HIDE DEF sent
<1>4. CASE due
  BY <1>2, <1>3, <1>4, IssueSound DEF Settled, MaxWindow
<1>5. CASE ~due
  BY <1>2, <1>3, <1>5 DEF Settled
<1> QED
  BY <1>4, <1>5

\* A control block in the state every handler starts from and must leave.
Consistent(n) == Sound(n) /\ Settled(n)

\* An update that leaves the window and the queue alone, and raises neither of the
\* discovery flags, keeps the control block consistent.
LEMMA KeepsConsistent ==
  ASSUME NEW n, Consistent(n), NEW m \in Nfc, m.window = n.window, m.q = n.q,
         m.flags \cap {"CONTROL_REQUESTED", "DISCOVER_PENDING"} \subseteq n.flags
  PROVE  Consistent(m)
<1>1. Sound(m)
  BY DEF Consistent, Sound
<1>2. {"CONTROL_REQUESTED", "DISCOVER_PENDING"} \subseteq m.flags
        => {"CONTROL_REQUESTED", "DISCOVER_PENDING"} \subseteq n.flags
  OBVIOUS
<1>3. Settled(m)
  BY <1>2 DEF Consistent, Settled
<1> QED
  BY <1>1, <1>3 DEF Consistent

LEMMA NewCommandType ==
  ASSUME NEW n, Sound(n), NEW h \in Header, NEW k \in {"plain", "vsc", "nxp"}
  PROVE  NewCommand(n, h, k) \in Seq(Command)
<1>1. n.next \in Nat
  BY Fields
<1>2. [id |-> n.next, hdr |-> h, kind |-> k] \in Command
  BY <1>1, Zenon DEF Command
<1> QED
  BY <1>2 DEF NewCommand

LEMMA SendCmdSound ==
  ASSUME NEW n, Sound(n), NEW h \in Header
  PROVE  Consistent(SendCmd(n, h))
<1> DEFINE nx == n.next + 1
           m  == [n EXCEPT !.next = nx, !.listen = FALSE]
<1>1. n \in Nfc /\ nx \in Nat
  BY Fields
<1>2. NewCommand(n, h, "plain") \in Seq(Command)
  BY NewCommandType
<1>3. SendCmd(n, h) = CheckCmdQueue(m, NewCommand(n, h, "plain"))
  BY DEF SendCmd
<1> HIDE DEF nx
<1>4. m \in Nfc /\ m.window = n.window
  BY <1>1, Zenon DEF Nfc
<1> HIDE DEF m
<1>5. Sound(m)
  BY <1>4 DEF Sound
<1> QED
  BY <1>2, <1>3, <1>5, CheckCmdQueueSound DEF Consistent

LEMMA SendVendorCmdSound ==
  ASSUME NEW n, Sound(n), NEW h \in Header, NEW k \in {"vsc", "nxp"}
  PROVE  Consistent(SendVendorCmd(n, h, k))
<1> DEFINE nx == n.next + 1
           m  == [n EXCEPT !.next = nx]
<1>1. n \in Nfc /\ nx \in Nat
  BY Fields
<1>2. NewCommand(n, h, k) \in Seq(Command)
  BY NewCommandType
<1>3. SendVendorCmd(n, h, k) = CheckCmdQueue(m, NewCommand(n, h, k))
  BY DEF SendVendorCmd
<1> HIDE DEF nx
<1>4. m \in Nfc /\ m.window = n.window
  BY <1>1, Zenon DEF Nfc
<1> HIDE DEF m
<1>5. Sound(m)
  BY <1>4 DEF Sound
<1> QED
  BY <1>2, <1>3, <1>5, CheckCmdQueueSound DEF Consistent

LEMMA EmptyCommands == <<>> \in Seq(Command)
OBVIOUS

LEMMA UpdateWindowSound ==
  ASSUME NEW n, Consistent(n)
  PROVE  Consistent(UpdateWindow(n))
<1> DEFINE w == n.window + 1
           m == [n EXCEPT !.timer = FALSE, !.cback = 0, !.window = w]
<1>1. n \in Nfc /\ n.window \in 0 .. 1
  BY Fields DEF Consistent
<1>2. UpdateWindow(n) = IF n.window = MaxWindow THEN n ELSE CheckCmdQueue(m, <<>>)
  BY DEF UpdateWindow
<1>3. CASE n.window = MaxWindow
  BY <1>2, <1>3
<1>4. CASE n.window # MaxWindow
  <2>1. w \in Nat /\ w <= MaxWindow
    BY <1>1, <1>4 DEF MaxWindow
  <2> HIDE DEF w
  <2>2. m \in Nfc /\ m.window = w
    <3>1. 0 \in Nat
      OBVIOUS
    <3> QED
      BY <1>1, <2>1, <3>1, Zenon DEF Nfc
  <2> HIDE DEF m
  <2>3. Sound(m)
    BY <2>1, <2>2 DEF Sound
  <2> QED
    BY <1>2, <1>4, <2>3, EmptyCommands, CheckCmdQueueSound DEF Consistent
<1> QED
  BY <1>3, <1>4

LEMMA HalMessage ==
  ASSUME NEW e \in HalEvent
  PROVE  Hal(e) \in Message
BY Zenon DEF Hal, Message

\* What phNxpNciHal_open queues when it succeeds is a message.
LEMMA OpenCplt ==
  ASSUME NEW hq \in Seq(Message)
  PROVE  Append(hq, Hal("OPEN_CPLT")) \in Seq(Message)
<1>1. Hal("OPEN_CPLT") \in Message
  BY HalMessage DEF HalEvent
<1> QED
  BY <1>1

\* phNxpNciHal_close leaves the command queue alone, also when it crashes.
LEMMA HalCloseSound ==
  ASSUME NEW n, Consistent(n)
  PROVE  Consistent(HalClose(n))
<1> DEFINE hq == Append(n.halq, Hal("CLOSE_CPLT"))
           m  == [n EXCEPT !.open = FALSE, !.tml = FALSE, !.wire = <<>>, !.halq = hq]
           d  == [n EXCEPT !.st = "CRASHED"]
<1>1. n \in Nfc /\ n.halq \in Seq(Message)
  BY Fields DEF Consistent
<1>2. hq \in Seq(Message)
  <2>1. Hal("CLOSE_CPLT") \in Message
    BY HalMessage DEF HalEvent
  <2> QED
    BY <1>1, <2>1
<1>3. HalClose(n) = IF n.tml THEN m ELSE d
  BY DEF HalClose
<1> HIDE DEF hq
<1>4. m \in Nfc /\ m.window = n.window /\ m.q = n.q /\ m.flags = n.flags
  BY <1>1, <1>2, EmptyCommands, Zenon DEF Nfc
<1>5. d \in Nfc /\ d.window = n.window /\ d.q = n.q /\ d.flags = n.flags
  <2>1. "CRASHED" \in State
    BY DEF State
  <2> QED
    BY <1>1, <2>1, Zenon DEF Nfc
<1> HIDE DEF m, d
<1> QED
  BY <1>3, <1>4, <1>5, KeepsConsistent

\* So does phNxpNciHal_open, whether it succeeds or not.
LEMMA HalOpenSound ==
  ASSUME NEW n, Consistent(n)
  PROVE  Consistent(HalOpened(n)) /\ Consistent(HalOpenFailed(n))
<1> DEFINE hq == Append(n.halq, Hal("OPEN_CPLT"))
           m  == [n EXCEPT !.open = TRUE, !.tml = TRUE, !.halq = hq]
           d  == [n EXCEPT !.open = FALSE, !.wire = <<>>, !.halq = <<>>]
<1>1. n \in Nfc /\ n.halq \in Seq(Message)
  BY Fields DEF Consistent
<1>2. hq \in Seq(Message)
  BY <1>1, OpenCplt
<1>3. HalOpened(n) = m /\ HalOpenFailed(n) = d
  BY DEF HalOpened, HalOpenFailed
<1> HIDE DEF hq
<1>4. m \in Nfc /\ m.window = n.window /\ m.q = n.q /\ m.flags = n.flags
  BY <1>1, <1>2, Zenon DEF Nfc
<1>5. d \in Nfc /\ d.window = n.window /\ d.q = n.q /\ d.flags = n.flags
  <2>1. <<>> \in Seq(Message)
    OBVIOUS
  <2> QED
    BY <1>1, <2>1, EmptyCommands, Zenon DEF Nfc
<1> HIDE DEF m, d
<1> QED
  BY <1>3, <1>4, <1>5, KeepsConsistent

LEMMA ReportSound ==
  ASSUME NEW n, Consistent(n), NEW e \in Event
  PROVE  Consistent(Report(n, e))
<1> DEFINE ow == n.owed \ {e}
           m  == [n EXCEPT !.owed = ow]
<1>1. n \in Nfc /\ ow \in SUBSET Event
  BY Fields DEF Consistent
<1>2. Report(n, e) = IF n.resp THEN m ELSE n
  BY DEF Report
<1> HIDE DEF ow
<1>3. m \in Nfc /\ m.window = n.window /\ m.q = n.q /\ m.flags = n.flags
  BY <1>1, Zenon DEF Nfc
<1> HIDE DEF m
<1>4. Consistent(m)
  BY <1>3, KeepsConsistent
<1> QED
  BY <1>2, <1>4

\* Any change of the flags that raises neither discovery flag.
LEMMA FlagsSound ==
  ASSUME NEW n, Consistent(n), NEW fl \in SUBSET Flag,
         fl \cap {"CONTROL_REQUESTED", "DISCOVER_PENDING"} \subseteq n.flags
  PROVE  Consistent([n EXCEPT !.flags = fl])
<1> DEFINE m == [n EXCEPT !.flags = fl]
<1>1. n \in Nfc
  BY Fields DEF Consistent
<1>2. m \in Nfc /\ m.window = n.window /\ m.q = n.q /\ m.flags = fl
  BY <1>1, Zenon DEF Nfc
<1> HIDE DEF m
<1>3. Consistent(m)
  BY <1>2, KeepsConsistent
<1> QED
  BY <1>3 DEF m

\* Any change of nfc_state.
LEMMA StateSound ==
  ASSUME NEW n, Consistent(n), NEW s \in State
  PROVE  Consistent([n EXCEPT !.st = s])
<1> DEFINE m == [n EXCEPT !.st = s]
<1>1. n \in Nfc
  BY Fields DEF Consistent
<1>2. m \in Nfc /\ m.window = n.window /\ m.q = n.q /\ m.flags = n.flags
  BY <1>1, Zenon DEF Nfc
<1> HIDE DEF m
<1>3. Consistent(m)
  BY <1>2, KeepsConsistent
<1> QED
  BY <1>3 DEF m

\* Any change of the connection's control block, alone or with the state.
LEMMA ConnSound ==
  ASSUME NEW n, Consistent(n), NEW b \in BOOLEAN, NEW s \in State
  PROVE  /\ Consistent([n EXCEPT !.conn = b])
         /\ Consistent([n EXCEPT !.conn = b, !.st = s])
         /\ Consistent([n EXCEPT !.st = s, !.conn = b])
<1> DEFINE m1 == [n EXCEPT !.conn = b]
           m2 == [n EXCEPT !.conn = b, !.st = s]
           m3 == [n EXCEPT !.st = s, !.conn = b]
<1>1. n \in Nfc
  BY Fields DEF Consistent
<1>2. m1 \in Nfc /\ m1.window = n.window /\ m1.q = n.q /\ m1.flags = n.flags
  BY <1>1, Zenon DEF Nfc
<1>3. m2 \in Nfc /\ m2.window = n.window /\ m2.q = n.q /\ m2.flags = n.flags
  BY <1>1, Zenon DEF Nfc
<1>4. m3 \in Nfc /\ m3.window = n.window /\ m3.q = n.q /\ m3.flags = n.flags
  BY <1>1, Zenon DEF Nfc
<1> HIDE DEF m1, m2, m3
<1>5. Consistent(m1) /\ Consistent(m2) /\ Consistent(m3)
  BY <1>2, <1>3, <1>4, KeepsConsistent
<1> QED
  BY <1>5 DEF m1, m2, m3

LEMMA NotifyEnableStatusSound ==
  ASSUME NEW n, Consistent(n), NEW ok \in BOOLEAN
  PROVE  Consistent(NotifyEnableStatus(n, ok))
<1> DEFINE fl == (n.flags \ {"RESTARTING", "POWER_CYCLE_NFCC"})
                   \cup (IF ok THEN {} ELSE {"POWER_OFF_SLEEP"})
           m  == [n EXCEPT !.flags = fl]
<1>1. n.flags \in SUBSET Flag
  BY Fields DEF Consistent
<1>2. fl \in SUBSET Flag
  BY <1>1 DEF Flag
<1>3. fl \cap {"CONTROL_REQUESTED", "DISCOVER_PENDING"} \subseteq n.flags
  OBVIOUS
<1>4. NotifyEnableStatus(n, ok)
        = IF ~n.resp THEN n
          ELSE IF n.flags \cap {"RESTARTING", "POWER_CYCLE_NFCC"} # {}
            THEN Report(m, "RESTART") ELSE Report(n, "ENABLE")
  BY DEF NotifyEnableStatus
<1>5. "RESTART" \in Event /\ "ENABLE" \in Event
  BY DEF Event
<1> HIDE DEF fl
<1>6. Consistent(m)
  BY <1>2, <1>3, FlagsSound
<1> HIDE DEF m
<1> QED
  BY <1>4, <1>5, <1>6, ReportSound

LEMMA EnabledOkSound ==
  ASSUME NEW n, Consistent(n)
  PROVE  Consistent(EnabledOk(n))
<1> DEFINE m == [n EXCEPT !.st = "IDLE", !.conn = TRUE]
<1>1. Consistent(m)
  BY ConnSound DEF State
<1>2. EnabledOk(n) = NotifyEnableStatus(SendCmd(m, "DISCOVER_MAP"), TRUE)
  BY DEF EnabledOk
<1> HIDE DEF m
<1>3. Consistent(SendCmd(m, "DISCOVER_MAP"))
  <2>1. "DISCOVER_MAP" \in Header
    BY DEF Header
  <2> QED
    BY <1>1, <2>1, SendCmdSound DEF Consistent
<1> QED
  BY <1>2, <1>3, NotifyEnableStatusSound

LEMMA EnabledFailedSound ==
  ASSUME NEW n, Consistent(n)
  PROVE  Consistent(EnabledFailed(n))
<1>1. CASE "RESTARTING" \in n.flags
  <2>1. Consistent([n EXCEPT !.st = "NFCC_POWER_OFF_SLEEP"])
    BY StateSound DEF State
  <2> QED
    BY <1>1, <2>1, NotifyEnableStatusSound DEF EnabledFailed
<1>2. CASE "RESTARTING" \notin n.flags /\ n.st = "CORE_INIT"
  <2>1. Consistent([n EXCEPT !.conn = FALSE])
    BY ConnSound DEF State
  <2> QED
    BY <1>2, <2>1, HalCloseSound DEF EnabledFailed
<1>3. CASE "RESTARTING" \notin n.flags /\ n.st # "CORE_INIT"
  <2>1. Consistent([n EXCEPT !.conn = FALSE, !.st = "NONE"])
    BY ConnSound DEF State
  <2> QED
    BY <1>3, <2>1, NotifyEnableStatusSound DEF EnabledFailed
<1> QED
  BY <1>1, <1>2, <1>3

\* nfc_gen_cleanup empties the queue and drops the pending discovery with it.
LEMMA GenCleanupSound ==
  ASSUME NEW n, Consistent(n)
  PROVE  Consistent(GenCleanup(n))
<1> DEFINE fl == n.flags \ {"DISCOVER_PENDING", "CONTROL_REQUESTED"}
           w  == MaxWindow
           m  == [n EXCEPT !.flags = fl, !.conn = FALSE, !.init = FALSE,
                           !.window = w, !.timer = FALSE, !.q = <<>>]
<1>1. n \in Nfc /\ n.flags \in SUBSET Flag
  BY Fields DEF Consistent
<1>2. fl \in SUBSET Flag /\ ~({"CONTROL_REQUESTED", "DISCOVER_PENDING"} \subseteq fl)
  BY <1>1
<1>3. w \in Nat /\ w <= MaxWindow
  BY DEF MaxWindow
<1>4. GenCleanup(n) = m
  BY DEF GenCleanup
<1> HIDE DEF fl, w
<1>5. m \in Nfc /\ m.window = w /\ m.q = <<>> /\ m.flags = fl
  BY <1>1, <1>2, <1>3, EmptyCommands, Zenon DEF Nfc
<1> HIDE DEF m
<1> QED
  BY <1>2, <1>3, <1>4, <1>5 DEF Consistent, Sound, Settled

LEMMA ShutdownNfccSound ==
  ASSUME NEW n, Consistent(n)
  PROVE  Consistent(ShutdownNfcc(n))
<1> DEFINE c  == GenCleanup(n)
           c1 == [c EXCEPT !.st = "W4_HAL_CLOSE"]
           hq == Append(c.halq, Hal("OPEN_CPLT"))
           c2 == [c EXCEPT !.st = "W4_HAL_OPEN", !.wire = <<>>, !.halq = hq]
           c3 == [c EXCEPT !.st = "W4_HAL_CLOSE", !.listen = FALSE]
<1>1. ShutdownNfcc(n) = IF "POWER_OFF_SLEEP" \in c.flags THEN HalClose(c1)
                        ELSE IF "POWER_CYCLE_NFCC" \in c.flags THEN c2
                        ELSE HalClose(c3)
  BY DEF ShutdownNfcc
<1>2. Consistent(c)
  BY GenCleanupSound
<1> HIDE DEF c
<1>3. c \in Nfc /\ c.halq \in Seq(Message)
  BY <1>2, Fields DEF Consistent
<1>4. "W4_HAL_CLOSE" \in State /\ "W4_HAL_OPEN" \in State
  BY DEF State
<1>5. hq \in Seq(Message)
  <2>1. Hal("OPEN_CPLT") \in Message
    BY HalMessage DEF HalEvent
  <2> QED
    BY <1>3, <2>1
<1>6. Consistent(c1)
  BY <1>2, <1>4, StateSound
<1> HIDE DEF hq, c1
<1>7. c2 \in Nfc /\ c2.window = c.window /\ c2.q = c.q /\ c2.flags = c.flags
  BY <1>3, <1>4, <1>5, EmptyCommands, Zenon DEF Nfc
<1>8. c3 \in Nfc /\ c3.window = c.window /\ c3.q = c.q /\ c3.flags = c.flags
  BY <1>3, <1>4, Zenon DEF Nfc
<1> HIDE DEF c2, c3
<1>9. Consistent(c2) /\ Consistent(c3)
  BY <1>2, <1>7, <1>8, KeepsConsistent
<1> QED
  BY <1>1, <1>6, <1>9, HalCloseSound

LEMMA CmdTimeoutRecoverySound ==
  ASSUME NEW n, Consistent(n)
  PROVE  Consistent(CmdTimeoutRecovery(n))
<1> DEFINE m == [n EXCEPT !.timer = FALSE, !.wire = <<>>]
<1>1. n \in Nfc
  BY Fields DEF Consistent
<1>2. m \in Nfc /\ m.window = n.window /\ m.q = n.q /\ m.flags = n.flags
  BY <1>1, EmptyCommands, Zenon DEF Nfc
<1>3. CmdTimeoutRecovery(n) = IF n.conn THEN m ELSE [n EXCEPT !.st = "CRASHED"]
  BY DEF CmdTimeoutRecovery
<1> HIDE DEF m
<1>4. Consistent(m)
  BY <1>2, KeepsConsistent
<1>5. Consistent([n EXCEPT !.st = "CRASHED"])
  BY StateSound DEF State
<1> QED
  BY <1>3, <1>4, <1>5

LEMMA RecoveryPostType ==
  ASSUME NEW n, Sound(n), NEW discovering \in BOOLEAN, NEW ok \in BOOLEAN
  PROVE  RecoveryPost(n, discovering, ok) \in Seq(Posted)
<1>1. n.last \in Command
  BY Fields
<1>2. n.last.hdr \in Header /\ n.last.id \in Nat
  BY <1>1, Zenon DEF Command
<1>3. \A h \in Header, i \in Nat : Rsp(h, i, "ok") \in Message
  BY Zenon DEF Rsp, Message, Result
<1>4. "DISCOVER" \in Header /\ "SCREEN" \in Header /\ 0 \in Nat
  BY DEF Header
<1>5. RecoveryAnswer(n, discovering) \in Message
  BY <1>2, <1>3, <1>4 DEF RecoveryAnswer
<1>6. RecoveryAnswer(n, discovering).type = "RSP"
  BY DEF RecoveryAnswer, Rsp
<1>7. RecoveryAnswer(n, discovering) \in Posted
  BY <1>5, <1>6, Zenon DEF Posted
<1> QED
  BY <1>7 DEF RecoveryPost

LEMMA VendorSound ==
  ASSUME NEW n, Consistent(n), NEW r \in Nat
  PROVE  Consistent(Vendor(n, r))
<1> DEFINE rs == IF n.cback = 0 THEN n.reports
                 ELSE n.reports \cup {[cb |-> n.cback, rsp |-> r]}
           m  == [n EXCEPT !.reports = rs]
<1>1. n \in Nfc /\ n.cback \in Nat /\ n.reports \in SUBSET [cb : Nat, rsp : Nat]
  BY Fields DEF Consistent
<1>2. rs \in SUBSET [cb : Nat, rsp : Nat]
  BY <1>1
<1>3. Vendor(n, r) = m
  BY DEF Vendor
<1> HIDE DEF rs
<1>4. m \in Nfc /\ m.window = n.window /\ m.q = n.q /\ m.flags = n.flags
  BY <1>1, <1>2, Zenon DEF Nfc
<1> HIDE DEF m
<1> QED
  BY <1>3, <1>4, KeepsConsistent

LEMMA ProcResetRspSound ==
  ASSUME NEW n, Consistent(n), NEW r
  PROVE  Consistent(ProcResetRsp(n, r))
<1> DEFINE c == IF n.flags \cap {"RESTARTING", "POWER_CYCLE_NFCC"} # {}
                  THEN [n EXCEPT !.conn = FALSE] ELSE n
<1>1. Consistent([n EXCEPT !.conn = FALSE])
  BY ConnSound DEF State
<1>2. Consistent(c)
  BY <1>1
<1>3. ProcResetRsp(n, r) = IF r.res = "ok" THEN SendCmd(c, "CORE_INIT") ELSE EnabledFailed(c)
  BY DEF ProcResetRsp
<1> HIDE DEF c
<1>4. "CORE_INIT" \in Header
  BY DEF Header
<1> QED
  BY <1>2, <1>3, <1>4, SendCmdSound, EnabledFailedSound DEF Consistent

LEMMA ProcInitRspSound ==
  ASSUME NEW n, Consistent(n), NEW r
  PROVE  Consistent(ProcInitRsp(n, r))
<1> DEFINE hq == IF r.res = "ok" THEN Append(n.halq, Hal("POST_INIT_CPLT")) ELSE n.halq
           rt == n.retry + 1
           m1 == [n EXCEPT !.st = "W4_POST_INIT_CPLT", !.retry = 0, !.init = TRUE,
                           !.halq = hq]
           m2 == [n EXCEPT !.retry = rt]
           m3 == [n EXCEPT !.retry = 0]
<1>1. n \in Nfc /\ n.halq \in Seq(Message) /\ n.retry \in Nat
  BY Fields DEF Consistent
<1>2. hq \in Seq(Message)
  <2>1. Hal("POST_INIT_CPLT") \in Message
    BY HalMessage DEF HalEvent
  <2> QED
    BY <1>1, <2>1
<1>3. rt \in Nat /\ 0 \in Nat /\ "W4_POST_INIT_CPLT" \in State
  BY <1>1 DEF State
<1>4. \/ ProcInitRsp(n, r) = m1
      \/ ProcInitRsp(n, r) = m2
      \/ ProcInitRsp(n, r) = EnabledFailed(m3)
  BY DEF ProcInitRsp
<1> HIDE DEF hq, rt
<1>5. m1 \in Nfc /\ m1.window = n.window /\ m1.q = n.q /\ m1.flags = n.flags
  BY <1>1, <1>2, <1>3, Zenon DEF Nfc
<1>6. m2 \in Nfc /\ m2.window = n.window /\ m2.q = n.q /\ m2.flags = n.flags
  BY <1>1, <1>3, Zenon DEF Nfc
<1>7. m3 \in Nfc /\ m3.window = n.window /\ m3.q = n.q /\ m3.flags = n.flags
  BY <1>1, <1>3, Zenon DEF Nfc
<1> HIDE DEF m1, m2, m3
<1>8. Consistent(m1) /\ Consistent(m2) /\ Consistent(m3)
  BY <1>5, <1>6, <1>7, KeepsConsistent
<1> QED
  BY <1>4, <1>8, EnabledFailedSound

LEMMA DispatchRspSound ==
  ASSUME NEW n, Consistent(n), NEW r, r.id \in Nat
  PROVE  Consistent(DispatchRsp(n, r))
<1>1. Consistent([n EXCEPT !.st = "IDLE"])
  BY StateSound DEF State
<1>2. \/ DispatchRsp(n, r) = ProcResetRsp(n, r)
      \/ DispatchRsp(n, r) = ProcInitRsp(n, r)
      \/ DispatchRsp(n, r) = [n EXCEPT !.st = "IDLE"]
      \/ DispatchRsp(n, r) = Vendor(n, r.id)
      \/ DispatchRsp(n, r) = n
  BY DEF DispatchRsp
<1> QED
  BY <1>1, <1>2, ProcResetRspSound, ProcInitRspSound, VendorSound

LEMMA ProcessRspSound ==
  ASSUME NEW n, Consistent(n), NEW r, r.id \in Nat
  PROVE  Consistent(ProcessRsp(n, r))
BY DispatchRspSound, UpdateWindowSound DEF ProcessRsp

LEMMA ProcessNxpRspSound ==
  ASSUME NEW n, Consistent(n), NEW i \in Nat
  PROVE  Consistent(ProcessNxpRsp(n, i))
<1> DEFINE v == Vendor(n, i)
           c == [v EXCEPT !.cback = 0]
           u == UpdateWindow(c)
           m == [u EXCEPT !.nxp = FALSE]
<1>1. ProcessNxpRsp(n, i) = m
  BY DEF ProcessNxpRsp
<1>2. Consistent(v)
  BY VendorSound
<1> HIDE DEF v
<1>3. v \in Nfc /\ 0 \in Nat
  BY <1>2, Fields DEF Consistent
<1>4. c \in Nfc /\ c.window = v.window /\ c.q = v.q /\ c.flags = v.flags
  BY <1>3, Zenon DEF Nfc
<1> HIDE DEF c
<1>5. Consistent(u)
  BY <1>2, <1>4, KeepsConsistent, UpdateWindowSound
<1> HIDE DEF u
<1>6. u \in Nfc
  BY <1>5, Fields DEF Consistent
<1>7. m \in Nfc /\ m.window = u.window /\ m.q = u.q /\ m.flags = u.flags
  BY <1>6, Zenon DEF Nfc
<1> HIDE DEF m
<1> QED
  BY <1>1, <1>5, <1>7, KeepsConsistent

LEMMA ProcessNtfSound ==
  ASSUME NEW n, Consistent(n), NEW h \in Notification, h # "RESET"
  PROVE  Consistent(ProcessNtf(n, h))
<1> DEFINE m == [n EXCEPT !.st = "OPEN", !.listen = TRUE]
<1>1. \/ ProcessNtf(n, h) = [n EXCEPT !.st = "OPEN"]
      \/ ProcessNtf(n, h) = m
      \/ ProcessNtf(n, h) = [n EXCEPT !.st = "IDLE"]
  BY DEF ProcessNtf, Notification
<1>2. n \in Nfc /\ "OPEN" \in State
  BY Fields DEF Consistent, State
<1>3. m \in Nfc /\ m.window = n.window /\ m.q = n.q /\ m.flags = n.flags
  BY <1>2, Zenon DEF Nfc
<1> HIDE DEF m
<1>4. Consistent(m)
  BY <1>3, KeepsConsistent
<1>5. Consistent([n EXCEPT !.st = "OPEN"]) /\ Consistent([n EXCEPT !.st = "IDLE"])
  BY StateSound DEF State
<1> QED
  BY <1>1, <1>4, <1>5

LEMMA HandleHalEvtSound ==
  ASSUME NEW n, Consistent(n), NEW e \in HalEvent, e # "OPEN_CPLT"
  PROVE  Consistent(HandleHalEvt(n, e))
<1>1. CASE e = "OPEN_FAILED"
  BY <1>1, EnabledFailedSound DEF HandleHalEvt
<1>2. CASE e = "CLOSE_CPLT"
  <2> DEFINE fl  == n.flags \ {"POWER_OFF_SLEEP"}
             off == [n EXCEPT !.flags = fl, !.st = "NFCC_POWER_OFF_SLEEP"]
             non == [n EXCEPT !.st = "NONE"]
             rep == Report(non, "DISABLE")
             m   == [rep EXCEPT !.resp = FALSE]
  <2>1. \/ HandleHalEvt(n, e) = n
        \/ HandleHalEvt(n, e) = NotifyEnableStatus(non, FALSE)
        \/ HandleHalEvt(n, e) = Report(off, "POWER_OFF")
        \/ HandleHalEvt(n, e) = m
    BY <1>2 DEF HandleHalEvt
  <2>2. n \in Nfc /\ fl \in SUBSET Flag
    BY Fields DEF Consistent
  <2>3. "NFCC_POWER_OFF_SLEEP" \in State /\ "NONE" \in State
        /\ "DISABLE" \in Event /\ "POWER_OFF" \in Event
    BY DEF State, Event
  <2>4. fl \subseteq n.flags
    OBVIOUS
  <2>5. Consistent(non)
    BY <2>3, StateSound
  <2> HIDE DEF fl, non
  <2>6. off \in Nfc /\ off.window = n.window /\ off.q = n.q /\ off.flags = fl
    BY <2>2, <2>3, Zenon DEF Nfc
  <2> HIDE DEF off
  <2>7. Consistent(off)
    BY <2>4, <2>6, KeepsConsistent
  <2>8. Consistent(rep)
    BY <2>3, <2>5, ReportSound
  <2> HIDE DEF rep
  <2>9. rep \in Nfc
    BY <2>8, Fields DEF Consistent
  <2>10. m \in Nfc /\ m.window = rep.window /\ m.q = rep.q /\ m.flags = rep.flags
    BY <2>9, Zenon DEF Nfc
  <2> HIDE DEF m
  <2>11. Consistent(m)
    BY <2>8, <2>10, KeepsConsistent
  <2> QED
    BY <2>1, <2>3, <2>5, <2>7, <2>11, NotifyEnableStatusSound, ReportSound
<1>3. CASE e = "POST_INIT_CPLT"
  <2> DEFINE c == IF n.init /\ n.st = "W4_POST_INIT_CPLT" THEN EnabledOk(n) ELSE n
             m == [c EXCEPT !.init = FALSE]
  <2>1. HandleHalEvt(n, e) = m
    BY <1>3 DEF HandleHalEvt
  <2>2. Consistent(c)
    BY EnabledOkSound
  <2> HIDE DEF c
  <2>3. c \in Nfc
    BY <2>2, Fields DEF Consistent
  <2>4. m \in Nfc /\ m.window = c.window /\ m.q = c.q /\ m.flags = c.flags
    BY <2>3, Zenon DEF Nfc
  <2> HIDE DEF m
  <2> QED
    BY <2>1, <2>2, <2>4, KeepsConsistent
<1>4. CASE e = "ERROR"
  BY <1>4, EnabledFailedSound DEF HandleHalEvt
<1> QED
  BY <1>1, <1>2, <1>3, <1>4 DEF HalEvent

-------------------------------------------------------------------------------
(* The invariant and its steps.                                              *)

IInv == TypeOK /\ NoStrandedCommand

\* What one step needs of the invariant, and what it must leave.
Rest == /\ mbox \in Seq(Posted) /\ ready \in BOOLEAN /\ checked \in BOOLEAN
        /\ rf \in {"idle", "discovery", "active"}
        /\ budget \in [ntf : Nat, faults : Nat, power : Nat]

LEMMA Split == IInv <=> Consistent(nfc) /\ Rest
BY DEF IInv, TypeOK, NoStrandedCommand, Consistent, Sound, Settled, Rest

LEMMA SplitNext == IInv' <=> Consistent(nfc') /\ Rest'
BY DEF IInv, TypeOK, NoStrandedCommand, Consistent, Sound, Settled, Rest

LEMMA SpendType ==
  ASSUME Rest, NEW k \in {"ntf", "faults", "power"}, Spend(k)
  PROVE  budget' \in [ntf : Nat, faults : Nat, power : Nat]
BY DEF Rest, Spend

LEMMA PostedFields ==
  ASSUME NEW m \in Posted
  PROVE  /\ m.type \in {"RSP", "NTF", "HAL"} /\ m.id \in Nat
         /\ m.type = "NTF" => m.hdr \in Notification
         /\ m.type = "HAL" => m.hdr \in HalEvent /\ m.hdr # "OPEN_CPLT"
BY DEF Posted, Message

LEMMA ArrivedSound ==
  ASSUME NEW n, Consistent(n)
  PROVE  Consistent(Arrived(n))
<1> DEFINE m == [n EXCEPT !.listen = FALSE]
<1>1. n \in Nfc
  BY Fields DEF Consistent
<1>2. m \in Nfc /\ m.window = n.window /\ m.q = n.q /\ m.flags = n.flags
  BY <1>1, Zenon DEF Nfc
<1>3. Arrived(n) = m
  BY DEF Arrived
<1> HIDE DEF m
<1> QED
  BY <1>2, <1>3, KeepsConsistent

\* The mailbox with its head taken.
LEMMA TakeHead ==
  ASSUME Rest, mbox # <<>>
  PROVE  Head(mbox) \in Posted /\ Tail(mbox) \in Seq(Posted)
BY DEF Rest

LEMMA TransportReadyStep ==
  ASSUME IInv, TransportReady
  PROVE  IInv'
<1> DEFINE m == [nfc EXCEPT !.st = "CORE_INIT"]
<1>1. Consistent(nfc) /\ Rest
  BY Split
<1>2. nfc' = SendCmd(m, "CORE_RESET") /\ "CORE_RESET" \in Header
  BY DEF TransportReady, Header
<1>3. Consistent(m)
  BY <1>1, StateSound DEF State
<1> HIDE DEF m
<1>4. Consistent(nfc')
  BY <1>2, <1>3, SendCmdSound DEF Consistent
<1>5. Rest'
  BY <1>1 DEF Rest, TransportReady
<1> QED
  BY <1>4, <1>5, SplitNext

LEMMA HandleRspStep ==
  ASSUME IInv, HandleRsp
  PROVE  IInv'
<1> DEFINE r == Head(mbox)
           n == Arrived(nfc)
<1>1. Consistent(nfc) /\ Rest
  BY Split
<1>2. r \in Posted /\ Tail(mbox) \in Seq(Posted)
  BY <1>1, TakeHead DEF HandleRsp
<1>3. r.id \in Nat
  BY <1>2, PostedFields
<1>4. Consistent(n)
  BY <1>1, ArrivedSound
<1>5. nfc' = (IF n.nxp THEN ProcessNxpRsp(n, r.id) ELSE ProcessRsp(n, r))
  BY DEF HandleRsp
<1>6. ready' \in BOOLEAN
  BY Zenon DEF HandleRsp
<1> HIDE DEF n, r
<1>7. Consistent(nfc')
  BY <1>3, <1>4, <1>5, ProcessNxpRspSound, ProcessRspSound
<1>8. Rest'
  BY <1>1, <1>2, <1>6 DEF Rest, HandleRsp
<1> QED
  BY <1>7, <1>8, SplitNext

LEMMA HandleNtfStep ==
  ASSUME IInv, HandleNtf
  PROVE  IInv'
<1> DEFINE h == Head(mbox).hdr
           n == Arrived(nfc)
<1>1. Consistent(nfc) /\ Rest
  BY Split
<1>2. Head(mbox) \in Posted /\ Tail(mbox) \in Seq(Posted)
  BY <1>1, TakeHead DEF HandleNtf
<1>3. h \in Notification
  BY <1>2, PostedFields DEF HandleNtf
<1>4. Consistent(n)
  BY <1>1, ArrivedSound
<1>5. nfc' = (IF n.nxp THEN ProcessNxpRsp(n, 0) ELSE ProcessNtf(n, h))
  BY DEF HandleNtf
<1>6. n.nxp = nfc.nxp
  <2>1. nfc \in Nfc
    BY <1>1, Fields DEF Consistent
  <2> QED
    BY <2>1, Zenon DEF Arrived, Nfc
<1>7. nfc.nxp \/ h # "RESET"
  BY DEF HandleNtf
<1> HIDE DEF n, h
<1>8. Consistent(nfc')
  BY <1>3, <1>4, <1>5, <1>6, <1>7, ProcessNxpRspSound, ProcessNtfSound
<1>9. Rest'
  BY <1>1, <1>2 DEF Rest, HandleNtf
<1> QED
  BY <1>8, <1>9, SplitNext

LEMMA RecoverSound ==
  ASSUME NEW n, Consistent(n), NEW rest \in Seq(Posted), Recover(n, rest)
  PROVE  /\ Consistent(nfc') /\ mbox' \in Seq(Posted)
         /\ rf' \in {"idle", "discovery", "active"}
<1>1. PICK discovering \in BOOLEAN, ok \in BOOLEAN :
        /\ nfc' = CmdTimeoutRecovery(n)
        /\ mbox' = rest \o RecoveryPost(n, discovering, ok)
        /\ rf' = IF discovering /\ ok THEN "discovery" ELSE "idle"
  BY DEF Recover
<1>2. RecoveryPost(n, discovering, ok) \in Seq(Posted)
  BY RecoveryPostType DEF Consistent
<1>3. Consistent(nfc')
  BY <1>1, CmdTimeoutRecoverySound
<1> QED
  BY <1>1, <1>2, <1>3

LEMMA HandleResetNtfStep ==
  ASSUME IInv, HandleResetNtf
  PROVE  IInv'
<1>1. Consistent(nfc) /\ Rest
  BY Split
<1>2. Tail(mbox) \in Seq(Posted)
  BY <1>1, TakeHead DEF HandleResetNtf
<1>3. Recover(Arrived(nfc), Tail(mbox))
  BY DEF HandleResetNtf
<1>4. Consistent(Arrived(nfc))
  BY <1>1, ArrivedSound
<1>5. /\ Consistent(nfc') /\ mbox' \in Seq(Posted)
      /\ rf' \in {"idle", "discovery", "active"}
  BY <1>2, <1>3, <1>4, RecoverSound
<1>6. Rest'
  BY <1>1, <1>5 DEF Rest, HandleResetNtf
<1> QED
  BY <1>5, <1>6, SplitNext

\* Either timer stopped.
LEMMA TimerSound ==
  ASSUME NEW n, Consistent(n)
  PROVE  Consistent([n EXCEPT !.timer = FALSE]) /\ Consistent([n EXCEPT !.listen = FALSE])
<1> DEFINE t == [n EXCEPT !.timer = FALSE]
<1>1. n \in Nfc
  BY Fields DEF Consistent
<1>2. t \in Nfc /\ t.window = n.window /\ t.q = n.q /\ t.flags = n.flags
  BY <1>1, Zenon DEF Nfc
<1> HIDE DEF t
<1>3. Consistent(t)
  BY <1>2, KeepsConsistent
<1> QED
  BY <1>3, ArrivedSound DEF t, Arrived

LEMMA TimeoutSteps ==
  ASSUME IInv, CmdTimeout \/ ListenTimeout
  PROVE  IInv'
<1>1. Consistent(nfc) /\ Rest
  BY Split
<1>2. PICK n : Consistent(n) /\ Recover(n, mbox)
  BY <1>1, TimerSound DEF CmdTimeout, ListenTimeout
<1>3. mbox \in Seq(Posted)
  BY <1>1 DEF Rest
<1>4. /\ Consistent(nfc') /\ mbox' \in Seq(Posted)
      /\ rf' \in {"idle", "discovery", "active"}
  BY <1>2, <1>3, RecoverSound
<1>5. Rest'
  BY <1>1, <1>4 DEF Rest, CmdTimeout, ListenTimeout
<1> QED
  BY <1>4, <1>5, SplitNext

LEMMA HandleHalStep ==
  ASSUME IInv, HandleHal
  PROVE  IInv'
<1>1. Consistent(nfc) /\ Rest
  BY Split
<1>2. Head(mbox) \in Posted /\ Tail(mbox) \in Seq(Posted)
  BY <1>1, TakeHead DEF HandleHal
<1>3. Head(mbox).hdr \in HalEvent /\ Head(mbox).hdr # "OPEN_CPLT"
  BY <1>2, PostedFields DEF HandleHal
<1>4. Consistent(nfc')
  BY <1>1, <1>3, HandleHalEvtSound DEF HandleHal
<1>5. Rest'
  BY <1>1, <1>2 DEF Rest, HandleHal
<1> QED
  BY <1>4, <1>5, SplitNext

\* NFC_Init's clean control block.
LEMMA FreshSound ==
  ASSUME NEW n, Sound(n)
  PROVE  Consistent(Fresh(n))
<1> DEFINE w == MaxWindow
           nc == NoCommand
           m == [n EXCEPT !.window = w, !.q = <<>>, !.flags = {}, !.last = nc,
                          !.cback = 0, !.nxp = FALSE, !.timer = FALSE, !.listen = FALSE,
                          !.conn = FALSE, !.init = FALSE]
<1>1. n \in Nfc
  BY Fields
<1>2. w \in Nat /\ w <= MaxWindow /\ {} \in SUBSET Flag /\ 0 \in Nat
  BY DEF MaxWindow
<1>3. nc \in Command
  BY DEF NoCommand, Command, Header
<1>4. Fresh(n) = m
  BY DEF Fresh
<1> HIDE DEF w, nc
<1>5. m \in Nfc /\ m.window = w /\ m.q = <<>>
  BY <1>1, <1>2, <1>3, EmptyCommands, Zenon DEF Nfc
<1>6. m.flags = {}
  BY <1>1, Zenon DEF Nfc
<1> HIDE DEF m
<1> QED
  BY <1>2, <1>4, <1>5, <1>6 DEF Consistent, Sound, Settled

LEMMA HalPosted ==
  ASSUME NEW e \in HalEvent, e # "OPEN_CPLT"
  PROVE  Hal(e) \in Posted
<1>1. Hal(e) \in Message /\ Hal(e).hdr = e
  BY HalMessage DEF Hal
<1> QED
  BY <1>1, Zenon DEF Posted

LEMMA OpenFailedPosted ==
  ASSUME mbox \in Seq(Posted)
  PROVE  Append(mbox, Hal("OPEN_FAILED")) \in Seq(Posted)
<1>1. Hal("OPEN_FAILED") \in Posted
  BY HalPosted DEF HalEvent
<1> QED
  BY <1>1

LEMMA EnableStep ==
  ASSUME IInv, Enable
  PROVE  IInv'
<1> DEFINE f == Fresh(nfc)
           ow == {"ENABLE"}
           n == [f EXCEPT !.st = "W4_HAL_OPEN", !.resp = TRUE, !.owed = ow]
<1>1. Consistent(nfc) /\ Rest
  BY Split
<1>2. Consistent(f)
  BY <1>1, FreshSound DEF Consistent
<1>3. \/ nfc' = HalOpened(n) /\ mbox' = mbox
      \/ nfc' = HalOpenFailed(n) /\ mbox' = Append(mbox, Hal("OPEN_FAILED"))
  BY DEF Enable
<1> HIDE DEF f
<1>4. f \in Nfc /\ ow \in SUBSET Event /\ "W4_HAL_OPEN" \in State
  BY <1>2, Fields DEF Consistent, Event, State
<1> HIDE DEF ow
<1>6. n \in Nfc /\ n.window = f.window /\ n.q = f.q /\ n.flags = f.flags
  BY <1>4, Zenon DEF Nfc
<1> HIDE DEF n
<1>7. Consistent(n)
  BY <1>2, <1>6, KeepsConsistent
<1>8. Consistent(nfc')
  BY <1>3, <1>7, HalOpenSound
<1>9. mbox' \in Seq(Posted)
  BY <1>1, <1>3, OpenFailedPosted DEF Rest
<1>10. budget' \in [ntf : Nat, faults : Nat, power : Nat]
  BY <1>1, SpendType DEF Enable
<1>11. Rest'
  BY <1>1, <1>9, <1>10 DEF Rest, Enable
<1> QED
  BY <1>8, <1>11, SplitNext

\* Any change of what the application is owed.
LEMMA OwedSound ==
  ASSUME NEW n, Consistent(n), NEW ow \in SUBSET Event
  PROVE  Consistent([n EXCEPT !.owed = ow])
<1> DEFINE m == [n EXCEPT !.owed = ow]
<1>1. n \in Nfc
  BY Fields DEF Consistent
<1>2. m \in Nfc /\ m.window = n.window /\ m.q = n.q /\ m.flags = n.flags
  BY <1>1, Zenon DEF Nfc
<1> HIDE DEF m
<1>3. Consistent(m)
  BY <1>2, KeepsConsistent
<1> QED
  BY <1>3 DEF m

LEMMA EmptyPosted == <<>> \in Seq(Posted)
OBVIOUS

LEMMA DisableStep ==
  ASSUME IInv, Disable
  PROVE  IInv'
<1> DEFINE ow == {}
           n == [nfc EXCEPT !.st = "NONE", !.resp = FALSE, !.owed = ow]
           s == ShutdownNfcc(nfc)
           m == [s EXCEPT !.owed = {"DISABLE"}]
<1>1. Consistent(nfc) /\ Rest
  BY Split
<1>2. \/ nfc' = n /\ mbox' = mbox
      \/ nfc' = m /\ mbox' = <<>>
  BY DEF Disable
<1>3. nfc \in Nfc /\ ow \in SUBSET Event /\ "NONE" \in State /\ {"DISABLE"} \in SUBSET Event
  BY <1>1, Fields DEF Consistent, Event, State
<1> HIDE DEF ow
<1>4. n \in Nfc /\ n.window = nfc.window /\ n.q = nfc.q /\ n.flags = nfc.flags
  BY <1>3, Zenon DEF Nfc
<1> HIDE DEF n
<1>5. Consistent(n)
  BY <1>1, <1>4, KeepsConsistent
<1>6. Consistent(s)
  BY <1>1, ShutdownNfccSound
<1> HIDE DEF s
<1>7. Consistent(m)
  BY <1>3, <1>6, OwedSound
<1> HIDE DEF m
<1>8. mbox' \in Seq(Posted)
  BY <1>1, <1>2, EmptyPosted DEF Rest
<1>9. budget' \in [ntf : Nat, faults : Nat, power : Nat]
  BY <1>1, SpendType DEF Disable
<1>10. Rest'
  BY <1>1, <1>8, <1>9 DEF Rest, Disable
<1> QED
  BY <1>2, <1>5, <1>7, <1>10, SplitNext

LEMMA PowerDownStep ==
  ASSUME IInv, PowerDown
  PROVE  IInv'
<1>1. Consistent(nfc) /\ Rest
  BY Split
<1>2. PICK f \in {"POWER_OFF_SLEEP", "POWER_CYCLE_NFCC"} :
        nfc' = [ShutdownNfcc([nfc EXCEPT !.flags = @ \cup {f}])
                  EXCEPT !.owed = {IF f = "POWER_OFF_SLEEP" THEN "POWER_OFF" ELSE "RESTART"}]
  BY DEF PowerDown
<1> DEFINE fl == nfc.flags \cup {f}
           ow == {IF f = "POWER_OFF_SLEEP" THEN "POWER_OFF" ELSE "RESTART"}
           n  == [nfc EXCEPT !.flags = fl]
           s  == ShutdownNfcc(n)
<1>3. nfc' = [s EXCEPT !.owed = ow]
  BY <1>2
<1>4. nfc.flags \in SUBSET Flag
  BY <1>1, Fields DEF Consistent
<1>5. fl \in SUBSET Flag /\ ow \in SUBSET Event
  BY <1>4 DEF Flag, Event
<1>6. fl \cap {"CONTROL_REQUESTED", "DISCOVER_PENDING"} \subseteq nfc.flags
  OBVIOUS
<1> HIDE DEF fl, ow
<1>7. Consistent(n)
  BY <1>1, <1>5, <1>6, FlagsSound
<1> HIDE DEF n
<1>8. Consistent(s)
  BY <1>7, ShutdownNfccSound
<1> HIDE DEF s
<1>9. Consistent(nfc')
  BY <1>3, <1>5, <1>8, OwedSound
<1>10. budget' \in [ntf : Nat, faults : Nat, power : Nat]
  BY <1>1, SpendType DEF PowerDown
<1>11. Rest'
  BY <1>1, <1>10, EmptyPosted DEF Rest, PowerDown
<1> QED
  BY <1>9, <1>11, SplitNext

LEMMA PowerUpStep ==
  ASSUME IInv, PowerUp
  PROVE  IInv'
<1> DEFINE fl == nfc.flags \cup {"RESTARTING"}
           ow == {"RESTART"}
           n == [nfc EXCEPT !.st = "W4_HAL_OPEN", !.flags = fl, !.owed = ow]
<1>1. Consistent(nfc) /\ Rest
  BY Split
<1>2. /\ \/ nfc' = HalOpened(n) /\ mbox' = mbox
         \/ nfc' = HalOpenFailed(n) /\ mbox' = Append(mbox, Hal("OPEN_FAILED"))
      /\ budget' = budget \/ Spend("faults")
  BY DEF PowerUp
<1>3. nfc \in Nfc /\ nfc.flags \in SUBSET Flag
  BY <1>1, Fields DEF Consistent
<1>4. fl \in SUBSET Flag /\ ow \in SUBSET Event /\ "W4_HAL_OPEN" \in State
  BY <1>3 DEF Flag, Event, State
<1>5. fl \cap {"CONTROL_REQUESTED", "DISCOVER_PENDING"} \subseteq nfc.flags
  OBVIOUS
<1> HIDE DEF fl, ow
<1>6. n \in Nfc /\ n.window = nfc.window /\ n.q = nfc.q /\ n.flags = fl
  BY <1>3, <1>4, Zenon DEF Nfc
<1> HIDE DEF n
<1>7. Consistent(n)
  BY <1>1, <1>5, <1>6, KeepsConsistent
<1>10. Consistent(nfc')
  BY <1>2, <1>7, HalOpenSound
<1>11. mbox' \in Seq(Posted)
  BY <1>1, <1>2, OpenFailedPosted DEF Rest
<1>12. budget' \in [ntf : Nat, faults : Nat, power : Nat]
  BY <1>1, <1>2, SpendType DEF Rest
<1>13. Rest'
  BY <1>1, <1>11, <1>12 DEF Rest, PowerUp
<1> QED
  BY <1>10, <1>13, SplitNext

LEMMA SendStep ==
  ASSUME IInv, Send
  PROVE  IInv'
<1>1. Consistent(nfc) /\ Rest
  BY Split
<1>2. "SET_CONFIG" \in Header /\ "PROP" \in Header
  BY DEF Header
<1>3. \/ nfc' = SendCmd(nfc, "SET_CONFIG")
      \/ \E h \in Header, k \in {"vsc", "nxp"} : nfc' = SendVendorCmd(nfc, h, k)
  BY <1>2 DEF Send
<1>4. Consistent(nfc')
  BY <1>1, <1>2, <1>3, SendCmdSound, SendVendorCmdSound DEF Consistent
<1>5. Rest'
  BY <1>1 DEF Rest, Send
<1> QED
  BY <1>4, <1>5, SplitNext

LEMMA DiscoveryStartStep ==
  ASSUME IInv, DiscoveryStart
  PROVE  IInv'
<1> DEFINE fl == nfc.flags \cup {"DISCOVER_PENDING", "CONTROL_REQUESTED"}
           n  == [nfc EXCEPT !.flags = fl]
<1>1. Consistent(nfc) /\ Rest
  BY Split
<1>2. nfc' = CheckCmdQueue(n, <<>>)
  BY DEF DiscoveryStart
<1>3. nfc \in Nfc /\ nfc.flags \in SUBSET Flag /\ nfc.window <= MaxWindow
  BY <1>1, Fields DEF Consistent, Sound
<1>4. fl \in SUBSET Flag
  BY <1>3 DEF Flag
<1> HIDE DEF fl
<1>5. n \in Nfc /\ n.window = nfc.window
  BY <1>3, <1>4, Zenon DEF Nfc
<1> HIDE DEF n
<1>6. Consistent(nfc')
  BY <1>2, <1>3, <1>5, EmptyCommands, CheckCmdQueueSound DEF Consistent, Sound
<1>7. Rest'
  BY <1>1 DEF Rest, DiscoveryStart
<1> QED
  BY <1>6, <1>7, SplitNext

LEMMA DeactivateStep ==
  ASSUME IInv, Deactivate
  PROVE  IInv'
<1> DEFINE fl == nfc.flags \ {"DISCOVER_PENDING", "CONTROL_REQUESTED"}
           s  == IF nfc.st = "OPEN" THEN "CLOSING" ELSE nfc.st
<1>1. Consistent(nfc) /\ Rest
  BY Split
<1>2. \/ nfc' = [nfc EXCEPT !.flags = fl]
      \/ nfc' = SendCmd([nfc EXCEPT !.st = s], "DEACTIVATE")
  BY DEF Deactivate
<1>3. nfc.flags \in SUBSET Flag /\ nfc.st \in State
  BY <1>1, Fields DEF Consistent
<1>4. fl \in SUBSET Flag /\ fl \cap {"CONTROL_REQUESTED", "DISCOVER_PENDING"} \subseteq nfc.flags
  BY <1>3
<1>5. s \in State /\ "DEACTIVATE" \in Header
  BY <1>3 DEF State, Header
<1> HIDE DEF fl, s
<1>6. Consistent([nfc EXCEPT !.flags = fl])
  BY <1>1, <1>4, FlagsSound
<1>7. Consistent([nfc EXCEPT !.st = s])
  BY <1>1, <1>5, StateSound
<1>8. Consistent(nfc')
  BY <1>2, <1>5, <1>6, <1>7, SendCmdSound DEF Consistent
<1>9. Rest'
  BY <1>1 DEF Rest, Deactivate
<1> QED
  BY <1>8, <1>9, SplitNext

-------------------------------------------------------------------------------
(* The client thread and the NFCC.                                           *)

\* Any change of what lies between the stack and the NFCC.
LEMMA WireSound ==
  ASSUME NEW n, Consistent(n), NEW w \in Seq(Command), NEW hq \in Seq(Message)
  PROVE  /\ Consistent([n EXCEPT !.halq = hq])
         /\ Consistent([n EXCEPT !.wire = w])
         /\ Consistent([n EXCEPT !.wire = w, !.halq = hq])
         /\ Consistent([n EXCEPT !.open = FALSE, !.wire = w, !.halq = hq])
<1> DEFINE m1 == [n EXCEPT !.halq = hq]
           m2 == [n EXCEPT !.wire = w]
           m3 == [n EXCEPT !.wire = w, !.halq = hq]
           m4 == [n EXCEPT !.open = FALSE, !.wire = w, !.halq = hq]
<1>1. n \in Nfc
  BY Fields DEF Consistent
<1>2. m1 \in Nfc /\ m1.window = n.window /\ m1.q = n.q /\ m1.flags = n.flags
  BY <1>1, Zenon DEF Nfc
<1>3. m2 \in Nfc /\ m2.window = n.window /\ m2.q = n.q /\ m2.flags = n.flags
  BY <1>1, Zenon DEF Nfc
<1>4. m3 \in Nfc /\ m3.window = n.window /\ m3.q = n.q /\ m3.flags = n.flags
  BY <1>1, Zenon DEF Nfc
<1>5. m4 \in Nfc /\ m4.window = n.window /\ m4.q = n.q /\ m4.flags = n.flags
  BY <1>1, Zenon DEF Nfc
<1> HIDE DEF m1, m2, m3, m4
<1>6. Consistent(m1) /\ Consistent(m2) /\ Consistent(m3) /\ Consistent(m4)
  BY <1>2, <1>3, <1>4, <1>5, KeepsConsistent
<1> QED
  BY <1>6 DEF m1, m2, m3, m4

LEMMA NtfMessage ==
  ASSUME NEW h \in Notification
  PROVE  Ntf(h) \in Message
<1>1. "ok" \in {"ok"} /\ 0 \in {0}
  OBVIOUS
<1> QED
  BY <1>1, Zenon DEF Ntf, Message

LEMMA ClientStep ==
  ASSUME IInv, Client
  PROVE  IInv'
<1>1. Consistent(nfc) /\ Rest
  BY Split
<1>2. nfc.halq \in Seq(Message)
  BY <1>1, Fields DEF Consistent
<1>3. CASE ClientSendReady
  BY <1>1, <1>3, SplitNext DEF Rest, ClientSendReady
<1>4. ASSUME nfc.halq # <<>>, nfc' = DropHead
      PROVE  Consistent(nfc') /\ Head(nfc.halq) \in Message
  <2>1. Head(nfc.halq) \in Message /\ Tail(nfc.halq) \in Seq(Message)
    BY <1>2, <1>4
  <2> QED
    BY <1>1, <1>4, <2>1, EmptyCommands, WireSound DEF DropHead
<1>5. CASE ClientOpenCplt
  <2>1. Consistent(nfc')
    BY <1>4, <1>5 DEF ClientOpenCplt, Next1
  <2>2. checked' \in BOOLEAN
    BY <1>5, Zenon DEF ClientOpenCplt
  <2>3. Rest'
    BY <1>1, <1>5, <2>2 DEF Rest, ClientOpenCplt
  <2> QED
    BY <2>1, <2>3, SplitNext
<1>6. CASE ClientHalEvent
  <2>1. Consistent(nfc') /\ Head(nfc.halq) \in Message
    BY <1>4, <1>6 DEF ClientHalEvent, Next1
  <2>2. Head(nfc.halq) \in Posted
    <3>1. Head(nfc.halq).type = "HAL" /\ Head(nfc.halq) # Hal("OPEN_CPLT")
      BY <1>6 DEF ClientHalEvent
    <3>2. Head(nfc.halq).hdr # "OPEN_CPLT"
      BY <2>1, <3>1 DEF Message, Hal
    <3> QED
      BY <2>1, <3>2 DEF Posted
  <2>3. Rest'
    BY <1>1, <1>6, <2>2 DEF Rest, ClientHalEvent
  <2> QED
    BY <2>1, <2>3, SplitNext
<1>7. CASE ClientData
  <2>1. Consistent(nfc') /\ Head(nfc.halq) \in Message
    BY <1>4, <1>7 DEF ClientData, Next1
  <2>2. Head(nfc.halq) \in Posted
    BY <1>7, <2>1 DEF ClientData, Posted
  <2>3. Rest'
    BY <1>1, <1>7, <2>2 DEF Rest, ClientData
  <2> QED
    BY <2>1, <2>3, SplitNext
<1> QED
  BY <1>3, <1>5, <1>6, <1>7 DEF Client

LEMMA NfccRespondStep ==
  ASSUME IInv, NfccRespond
  PROVE  IInv'
<1> DEFINE c == Head(nfc.wire)
<1>1. Consistent(nfc) /\ Rest
  BY Split
<1>2. nfc.halq \in Seq(Message) /\ nfc.wire \in Seq(Command) /\ nfc.wire # <<>>
  BY <1>1, Fields DEF Consistent, NfccRespond
<1>3. PICK r \in Result :
        /\ \/ budget' = budget
           \/ Spend("faults")
        /\ nfc' = [nfc EXCEPT !.wire = Tail(nfc.wire),
                              !.halq = Append(nfc.halq, Rsp(c.hdr, c.id, r))
                                       \o NtfAfter(c.hdr)]
  BY DEF NfccRespond
<1>4. c \in Command
  BY <1>2
<1>5. c.hdr \in Header /\ c.id \in Nat
  BY <1>4, Zenon DEF Command
<1>6. Rsp(c.hdr, c.id, r) \in Message
  BY <1>5, Zenon DEF Rsp, Message
<1>7. NtfAfter(c.hdr) \in Seq(Message)
  <2>1. Ntf("DEACTIVATED") \in Message
    BY NtfMessage DEF Notification
  <2> QED
    BY <2>1 DEF NtfAfter
<1> HIDE DEF c
<1>8. Append(nfc.halq, Rsp(c.hdr, c.id, r)) \o NtfAfter(c.hdr) \in Seq(Message)
  BY <1>2, <1>6, <1>7
<1>9. Tail(nfc.wire) \in Seq(Command)
  BY <1>2
<1>10. Consistent(nfc')
  BY <1>1, <1>3, <1>8, <1>9, WireSound
<1>11. rf' \in {"idle", "discovery", "active"}
  BY <1>1 DEF NfccRespond, RfAfter, Rest
<1>12. budget' \in [ntf : Nat, faults : Nat, power : Nat]
  BY <1>1, <1>3, SpendType DEF Rest
<1>13. Rest'
  BY <1>1, <1>11, <1>12 DEF Rest, NfccRespond
<1> QED
  BY <1>10, <1>13, SplitNext

LEMMA NfccFaultSteps ==
  ASSUME IInv, NfccLose \/ NfccReset \/ NfccNotify \/ TransportError
  PROVE  IInv'
<1>1. Consistent(nfc) /\ Rest
  BY Split
<1>2. nfc.halq \in Seq(Message)
  BY <1>1, Fields DEF Consistent
<1>3. /\ \A h \in Notification : Append(nfc.halq, Ntf(h)) \in Seq(Message)
      /\ Append(nfc.halq, Hal("ERROR")) \in Seq(Message)
  <2>1. Hal("ERROR") \in Message
    BY HalMessage DEF HalEvent
  <2> QED
    BY <1>2, <2>1, NtfMessage
<1>4. budget' \in [ntf : Nat, faults : Nat, power : Nat]
  BY <1>1, SpendType DEF NfccLose, NfccReset, NfccNotify, TransportError
<1>5. Rest'
  BY <1>1, <1>4 DEF Rest, NfccLose, NfccReset, NfccNotify, TransportError
<1>6. CASE NfccLose
  BY <1>1, <1>2, <1>5, <1>6, EmptyCommands, WireSound, SplitNext DEF NfccLose
<1>7. CASE NfccReset
  <2>1. Consistent(nfc')
    BY <1>1, <1>3, <1>7, EmptyCommands, WireSound DEF NfccReset, Notification
  <2> QED
    BY <1>5, <2>1, SplitNext
<1>8. CASE NfccNotify
  <2>1. PICK h \in Notification : nfc' = [nfc EXCEPT !.halq = Append(nfc.halq, Ntf(h))]
    BY <1>8 DEF NfccNotify, Notification
  <2>2. Consistent(nfc')
    BY <1>1, <1>3, <2>1, EmptyCommands, WireSound
  <2> QED
    BY <1>5, <2>2, SplitNext
<1>9. CASE TransportError
  <2>1. Consistent(nfc')
    BY <1>1, <1>3, <1>9, EmptyCommands, WireSound DEF TransportError
  <2> QED
    BY <1>5, <2>1, SplitNext
<1> QED
  BY <1>6, <1>7, <1>8, <1>9

-------------------------------------------------------------------------------
LEMMA InitIInv == Init => IInv
<1> SUFFICES ASSUME Init PROVE IInv
  OBVIOUS
<1> DEFINE c == NoCommand
           w == MaxWindow
<1>1. /\ c \in Command /\ w \in Nat /\ {} \in SUBSET Flag /\ {} \in SUBSET Event
      /\ {} \in SUBSET [cb : Nat, rsp : Nat] /\ "NONE" \in State /\ 0 \in Nat /\ 1 \in Nat
  BY DEF NoCommand, Command, Header, MaxWindow, State
<1>2. <<>> \in Seq(Command) /\ <<>> \in Seq(Message)
  OBVIOUS
<1>3. nfc = [st |-> "NONE", window |-> w, q |-> <<>>, flags |-> {},
             last |-> c, cback |-> 0, nxp |-> FALSE, timer |-> FALSE,
             listen |-> FALSE, conn |-> FALSE, init |-> FALSE, retry |-> 0,
             resp |-> FALSE, owed |-> {}, reports |-> {}, next |-> 1, wire |-> <<>>,
             open |-> FALSE, tml |-> FALSE, halq |-> <<>>]
  BY DEF Init
<1>4. w <= MaxWindow
  BY DEF MaxWindow
<1> HIDE DEF c, w
<1>5. nfc \in Nfc /\ nfc.window = w /\ nfc.q = <<>> /\ nfc.flags = {}
  BY <1>1, <1>2, <1>3, Zenon DEF Nfc
<1>6. Consistent(nfc)
  BY <1>4, <1>5 DEF Consistent, Sound, Settled
<1>7. Rest
  BY BoundAssumption, EmptyPosted DEF Init, Rest
<1> QED
  BY <1>6, <1>7, Split

LEMMA NextIInv == IInv /\ [Next]_vars => IInv'
<1> SUFFICES ASSUME IInv, [Next]_vars PROVE IInv'
  OBVIOUS
<1>1. CASE Task
  BY <1>1, TransportReadyStep, HandleRspStep, HandleNtfStep, HandleResetNtfStep,
     HandleHalStep DEF Task
<1>2. CASE Timers
  BY <1>2, TimeoutSteps DEF Timers
<1>3. CASE Application
  BY <1>3, EnableStep, DisableStep, PowerDownStep, PowerUpStep, SendStep,
     DiscoveryStartStep, DeactivateStep DEF Application
<1>4. CASE Client
  BY <1>4, ClientStep
<1>5. CASE Nfcc
  BY <1>5, NfccRespondStep, NfccFaultSteps DEF Nfcc
<1>6. CASE UNCHANGED vars
  <2>1. Consistent(nfc) /\ Rest
    BY Split
  <2>2. Consistent(nfc') /\ Rest'
    BY <1>6, <2>1 DEF vars, Rest
  <2> QED
    BY <2>2, SplitNext
<1> QED
  BY <1>1, <1>2, <1>3, <1>4, <1>5, <1>6 DEF Next

\* The control block, the mailbox and the bounds keep their types, and
\* nci_cmd_window never exceeds NCI_MAX_CMD_WINDOW (nfc_ncif_update_window).
THEOREM TypeCorrect == Spec => []TypeOK
<1>1. IInv => TypeOK
  BY DEF IInv
<1> QED
  BY <1>1, InitIInv, NextIInv, PTL DEF Spec

\* Whenever the command window is open, nci_cmd_xmit_q is empty and no pending
\* discovery waits (nfc_ncif_check_cmd_queue), under every fault and every race.
THEOREM NothingStranded == Spec => []NoStrandedCommand
<1>1. IInv => NoStrandedCommand
  BY DEF IInv
<1> QED
  BY <1>1, InitIInv, NextIInv, PTL DEF Spec

-------------------------------------------------------------------------------
(* The order of the commands.  A command gets its number when it is issued: *)
(* what waits in nci_cmd_xmit_q has been issued after what went out last,  *)
(* and each after the one before it.                                       *)

\* The numbers of the commands of cs rise, above lo and below hi.
Rising(lo, cs, hi) ==
  /\ \A i \in DOMAIN cs : lo < cs[i].id /\ cs[i].id < hi
  /\ \A i, j \in DOMAIN cs : i < j => cs[i].id < cs[j].id

\* The inductive invariant: what waits rises from the last command sent to the
\* next number to be given.
Ordered(n) == n.last.id < n.next /\ Rising(n.last.id, n.q, n.next)

\* From n to m nothing went out, or something issued later than what went out last.
Advances(n, m) ==
  /\ Ordered(m)
  /\ n.last.id <= m.last.id
  /\ Len(m.wire) > Len(n.wire) => n.last.id < m.last.id

\* What Ordered says of a control block of the right type.
LEMMA OrderFields ==
  ASSUME NEW n, Sound(n)
  PROVE  /\ n.last.id \in Nat /\ n.next \in Nat /\ n.q \in Seq(Command)
         /\ Len(n.wire) \in Nat
<1>1. n.last \in Command /\ n.next \in Nat /\ n.q \in Seq(Command) /\ n.wire \in Seq(Command)
  BY Fields
<1>2. n.last.id \in Nat
  BY <1>1 DEF Command
<1> QED
  BY <1>1, <1>2

\* A command carries its number.
LEMMA Numbered == \A c \in Command : c.id \in Nat
BY DEF Command

\* An empty queue is in order.
LEMMA RisingNone == \A lo, hi : Rising(lo, <<>>, hi)
BY DEF Rising

\* A command put behind a queue in order.
LEMMA RisingLast ==
  ASSUME NEW lo \in Nat, NEW hi \in Nat, lo < hi, NEW cs \in Seq(Command), Rising(lo, cs, hi),
         NEW c \in Command, c.id = hi
  PROVE  Rising(lo, cs \o <<c>>, hi + 1)
<1> DEFINE all == cs \o <<c>>
<1>1. /\ all \in Seq(Command) /\ Len(all) = Len(cs) + 1
      /\ \A i \in 1 .. Len(cs) : all[i] = cs[i]
      /\ all[Len(cs) + 1] = c
  OBVIOUS
<1>2. \A i \in 1 .. Len(all) : all[i].id \in Nat
  <2>1. \A i \in 1 .. Len(all) : all[i] \in Command
    BY <1>1
  <2> QED
    BY <2>1, Numbered
<1>3. DOMAIN all = 1 .. Len(all) /\ DOMAIN cs = 1 .. Len(cs) /\ Len(cs) \in Nat
  BY <1>1
<1> HIDE DEF all
<1>4. \A i \in 1 .. Len(all) : lo < all[i].id /\ all[i].id < hi + 1
  BY <1>1, <1>2, <1>3 DEF Rising
<1>5. ASSUME NEW i \in 1 .. Len(all), NEW j \in 1 .. Len(all), i < j
      PROVE  all[i].id < all[j].id
  <2>1. i \in 1 .. Len(cs) /\ all[i] = cs[i]
    BY <1>1, <1>3, <1>5
  <2>2. CASE j \in 1 .. Len(cs)
    BY <1>1, <1>3, <1>5, <2>1, <2>2 DEF Rising
  <2>3. CASE j = Len(cs) + 1
    BY <1>1, <1>3, <2>1, <2>3 DEF Rising
  <2> QED
    BY <1>1, <1>3, <2>2, <2>3
<1>6. Rising(lo, all, hi + 1)
  BY <1>3, <1>4, <1>5 DEF Rising
<1> QED
  BY <1>6 DEF all

\* The first of a queue in order, and the others.
LEMMA RisingFirst ==
  ASSUME NEW lo \in Nat, NEW hi \in Nat, NEW cs \in Seq(Command), cs # <<>>, Rising(lo, cs, hi)
  PROVE  /\ Head(cs) \in Command /\ Tail(cs) \in Seq(Command)
         /\ lo < Head(cs).id /\ Head(cs).id < hi
         /\ Rising(Head(cs).id, Tail(cs), hi)
<1> DEFINE h == Head(cs)
           t == Tail(cs)
<1>1. /\ h = cs[1] /\ t \in Seq(Command) /\ Len(t) = Len(cs) - 1 /\ Len(cs) \in Nat \ {0}
      /\ \A i \in 1 .. Len(t) : t[i] = cs[i + 1]
  OBVIOUS
<1>2. DOMAIN t = 1 .. Len(t) /\ DOMAIN cs = 1 .. Len(cs)
  BY <1>1
<1>3. \A i \in 1 .. Len(cs) : cs[i] \in Command
  OBVIOUS
<1>4. h \in Command
  BY <1>1, <1>3
<1> HIDE DEF h, t
<1>5. lo < h.id /\ h.id < hi
  BY <1>1, <1>2 DEF Rising
<1>6. ASSUME NEW i \in 1 .. Len(t)
      PROVE  h.id < t[i].id /\ t[i].id < hi
  <2>1. 1 \in DOMAIN cs /\ i + 1 \in DOMAIN cs /\ 1 < i + 1 /\ t[i] = cs[i + 1]
    BY <1>1, <1>2
  <2> QED
    BY <1>1, <2>1 DEF Rising
<1>7. ASSUME NEW i \in 1 .. Len(t), NEW j \in 1 .. Len(t), i < j
      PROVE  t[i].id < t[j].id
  <2>1. /\ i + 1 \in DOMAIN cs /\ j + 1 \in DOMAIN cs /\ i + 1 < j + 1
        /\ t[i] = cs[i + 1] /\ t[j] = cs[j + 1]
    BY <1>1, <1>2, <1>7
  <2> QED
    BY <2>1 DEF Rising
<1>8. Rising(h.id, t, hi)
  BY <1>2, <1>6, <1>7 DEF Rising
<1> QED
  BY <1>1, <1>4, <1>5, <1>8 DEF h, t

\* One step after another.
LEMMA AdvancesThrough ==
  ASSUME NEW n, Sound(n), NEW m, Sound(m), NEW o, Sound(o), Advances(n, m), Advances(m, o)
  PROVE  Advances(n, o)
<1>1. /\ n.last.id \in Nat /\ m.last.id \in Nat /\ o.last.id \in Nat
      /\ Len(n.wire) \in Nat /\ Len(m.wire) \in Nat /\ Len(o.wire) \in Nat
  BY OrderFields
<1> QED
  BY <1>1 DEF Advances

\* A step that leaves the last command alone, and at most forgets what waits and
\* what is out.
Keeps(n, m) ==
  /\ m.last = n.last /\ m.next = n.next
  /\ m.q = n.q \/ m.q = <<>>
  /\ m.wire = n.wire \/ m.wire = <<>>

\* A step that sends and queues nothing keeps the order.
LEMMA KeepsAdvances ==
  ASSUME NEW n, Sound(n), Ordered(n), NEW m, Keeps(n, m)
  PROVE  Advances(n, m)
<1>1. n.last.id \in Nat /\ Len(n.wire) \in Nat
  BY OrderFields
<1>2. Ordered(m)
  BY RisingNone DEF Keeps, Ordered
<1>3. Len(m.wire) = Len(n.wire) \/ Len(m.wire) = 0
  BY DEF Keeps
<1> QED
  BY <1>1, <1>2, <1>3 DEF Advances, Keeps

\* One command goes to the HAL.
LEMMA TransmitAdvances ==
  ASSUME NEW n, Sound(n), n.window > 0, NEW c \in Command, c.id < n.next,
         Rising(c.id, n.q, n.next)
  PROVE  LET m == Transmit(n, c) IN m.last = c /\ Ordered(m)
<1> DEFINE m == Transmit(n, c)
<1>1. n \in Nfc
  BY Fields
<1>2. m.last = c /\ m.q = n.q /\ m.next = n.next
  BY <1>1 DEF Transmit, Nfc
<1> HIDE DEF m
<1>3. Ordered(m)
  BY <1>2 DEF Ordered
<1> QED
  BY <1>2, <1>3 DEF m

\* A pending discovery goes out behind everything else.
LEMMA IssueAdvances ==
  ASSUME NEW n, Sound(n), n.window > 0, n.last.id < n.next, n.q = <<>>
  PROVE  Advances(n, IssuePendingDiscover(n))
<1> DEFINE fl == n.flags \ {"CONTROL_REQUESTED", "DISCOVER_PENDING"}
           nx == n.next + 1
           m  == [n EXCEPT !.flags = fl, !.listen = FALSE, !.next = nx]
           c  == [id |-> n.next, hdr |-> "DISCOVER", kind |-> "plain"]
           s  == IssuePendingDiscover(n)
<1>1. fl \in SUBSET Flag /\ n \in Nfc
  BY Fields, Zenon
<1>2. nx \in Nat /\ n.next \in Nat /\ n.last.id \in Nat /\ n.next < nx
  BY OrderFields
<1>3. c \in Command /\ c.id = n.next
  BY <1>2 DEF Command, Header
<1>4. s = Transmit(m, c)
  BY DEF IssuePendingDiscover
<1> HIDE DEF fl, nx, c, s
<1>5. m \in Nfc /\ m.window = n.window /\ m.q = n.q /\ m.next = nx
  BY <1>1, <1>2, Zenon DEF Nfc
<1>6. Sound(m) /\ m.window > 0
  BY <1>5 DEF Sound
<1> HIDE DEF m
<1>7. Rising(c.id, m.q, m.next)
  BY <1>5, RisingNone
<1>8. s.last = c /\ Ordered(s)
  BY <1>2, <1>3, <1>4, <1>5, <1>6, <1>7, TransmitAdvances
<1>9. n.last.id < s.last.id
  BY <1>3, <1>8
<1>10. Advances(n, s)
  BY <1>2, <1>3, <1>8, <1>9 DEF Advances
<1> QED
  BY <1>10 DEF s

\* nfc_ncif_check_cmd_queue, with what waits and what is new in order.
LEMMA CheckCmdQueueAdvances ==
  ASSUME NEW n, Sound(n), NEW cs \in Seq(Command), n.last.id < n.next,
         Rising(n.last.id, n.q \o cs, n.next)
  PROVE  Advances(n, CheckCmdQueue(n, cs))
<1> DEFINE all  == n.q \o cs
           h    == Head(all)
           tl   == Tail(all)
           rest == [n EXCEPT !.q = tl]
           held == [n EXCEPT !.q = all]
           goes == n.window > 0 /\ all # <<>>
           sent == IF goes THEN Transmit(rest, h) ELSE held
           due  == sent.window = MaxWindow
                   /\ {"CONTROL_REQUESTED", "DISCOVER_PENDING"} \subseteq sent.flags
           r    == CheckCmdQueue(n, cs)
<1>0. /\ n \in Nfc /\ n.q \in Seq(Command) /\ n.window \in 0 .. 1
      /\ n.last.id \in Nat /\ n.next \in Nat
  BY Fields, OrderFields
<1>1. all \in Seq(Command)
  BY <1>0
<1>2. Rising(n.last.id, all, n.next)
  OBVIOUS
<1>3. r = IF due THEN IssuePendingDiscover(sent) ELSE sent
  BY DEF CheckCmdQueue
<1> HIDE DEF all, r
<1>4. CASE goes
  <2>1. /\ h \in Command /\ tl \in Seq(Command) /\ n.last.id < h.id /\ h.id < n.next
        /\ Rising(h.id, tl, n.next)
    BY <1>0, <1>1, <1>2, <1>4, RisingFirst
  <2> HIDE DEF h, tl
  <2>2. rest \in Nfc /\ rest.window = n.window /\ rest.q = tl /\ rest.next = n.next
    BY <1>0, <2>1, Zenon DEF Nfc
  <2>3. Sound(rest) /\ rest.window > 0
    BY <1>4, <2>2 DEF Sound
  <2> HIDE DEF rest
  <2>4. sent = Transmit(rest, h)
    BY <1>4
  <2> HIDE DEF sent
  <2>5. sent.last = h /\ Ordered(sent) /\ sent.window = 0
    BY <2>1, <2>2, <2>3, <2>4, TransmitAdvances, TransmitSound
  <2>6. r = sent
    BY <1>3, <2>5 DEF MaxWindow
  <2>7. h.id \in Nat
    BY <2>1, Numbered
  <2>8. Advances(n, r)
    BY <1>0, <2>1, <2>5, <2>6, <2>7 DEF Advances
  <2> QED
    BY <2>8 DEF r
<1>5. CASE ~goes
  <2>1. ASSUME NEW a \in Seq(Command)
        PROVE  LET k == [n EXCEPT !.q = a]
               IN  /\ k \in Nfc /\ k.window = n.window /\ k.q = a /\ k.last = n.last
                   /\ k.next = n.next /\ k.wire = n.wire
    BY <1>0, Zenon DEF Nfc
  <2>2. /\ held \in Nfc /\ held.window = n.window /\ held.q = all /\ held.last = n.last
        /\ held.next = n.next /\ held.wire = n.wire
    BY <1>1, <2>1
  <2> HIDE DEF held
  <2>3. sent = held
    BY <1>5
  <2> HIDE DEF sent
  <2>4. Sound(sent) /\ Ordered(sent)
    BY <1>2, <2>2, <2>3 DEF Sound, Ordered
  <2>5. Advances(n, sent)
    <3>1. Len(n.wire) \in Nat
      BY OrderFields
    <3> QED
      BY <1>0, <2>2, <2>3, <2>4, <3>1 DEF Advances
  <2>6. CASE due
    <3>1. sent.window > 0 /\ sent.q = <<>>
      BY <1>0, <1>5, <2>2, <2>3, <2>6 DEF MaxWindow
    <3>2. Advances(sent, IssuePendingDiscover(sent)) /\ Sound(IssuePendingDiscover(sent))
      BY <2>4, <3>1, IssueAdvances, IssueSound DEF Ordered
    <3>3. Advances(n, r)
      BY <1>3, <2>4, <2>5, <2>6, <3>2, AdvancesThrough
    <3> QED
      BY <3>3 DEF r
  <2>7. CASE ~due
    <3>1. Advances(n, r)
      BY <1>3, <2>5, <2>7
    <3> QED
      BY <3>1 DEF r
  <2> QED
    BY <2>6, <2>7
<1> QED
  BY <1>4, <1>5

\* A new command, as nfc_ncif_send_cmd and NFC_SendVsCommand queue it.
LEMMA NewAdvances ==
  ASSUME NEW n, Sound(n), Ordered(n), NEW h \in Header, NEW k \in {"plain", "vsc", "nxp"},
         NEW l \in BOOLEAN
  PROVE  Advances(n, CheckCmdQueue([n EXCEPT !.next = n.next + 1, !.listen = l],
                                   NewCommand(n, h, k)))
<1> DEFINE nx == n.next + 1
           c  == [id |-> n.next, hdr |-> h, kind |-> k]
           m  == [n EXCEPT !.next = nx, !.listen = l]
           cs == NewCommand(n, h, k)
           r  == CheckCmdQueue(m, cs)
<1>1. n \in Nfc /\ n.next \in Nat /\ n.last.id \in Nat /\ n.q \in Seq(Command) /\ nx \in Nat
  BY Fields, OrderFields
<1>2. c \in Command /\ c.id = n.next /\ cs = <<c>> /\ cs \in Seq(Command)
  BY <1>1, NewCommandType DEF NewCommand, Command
<1>3. n.last.id < n.next /\ Rising(n.last.id, n.q, n.next)
  BY DEF Ordered
<1> HIDE DEF cs, c
<1>4. Rising(n.last.id, n.q \o cs, n.next + 1)
  BY <1>1, <1>2, <1>3, RisingLast
<1>5. n.last.id < nx /\ Rising(n.last.id, n.q \o cs, nx)
  BY <1>1, <1>3, <1>4
<1> HIDE DEF nx
<1>6. /\ m \in Nfc /\ m.window = n.window /\ m.q = n.q /\ m.last = n.last /\ m.next = nx
      /\ m.wire = n.wire
  BY <1>1, Zenon DEF Nfc
<1> HIDE DEF m
<1>7. Sound(m)
  BY <1>6 DEF Sound
<1>8. Advances(m, r)
  BY <1>2, <1>5, <1>6, <1>7, CheckCmdQueueAdvances
<1>9. Advances(n, r)
  BY <1>6, <1>8 DEF Advances
<1> QED
  BY <1>9 DEF r, m, nx, cs

\* nfc_ncif_send_cmd
LEMMA SendCmdAdvances ==
  ASSUME NEW n, Sound(n), Ordered(n), NEW h \in Header
  PROVE  Advances(n, SendCmd(n, h))
BY NewAdvances DEF SendCmd

\* NFC_SendVsCommand, NFC_SendNxpNciCommand
LEMMA SendVendorCmdAdvances ==
  ASSUME NEW n, Sound(n), Ordered(n), NEW h \in Header, NEW k \in {"vsc", "nxp"}
  PROVE  Advances(n, SendVendorCmd(n, h, k))
<1> DEFINE l == n.listen
           nx == n.next + 1
           m == [n EXCEPT !.next = nx]
           o == [n EXCEPT !.next = nx, !.listen = l]
<1>1. n \in Nfc /\ l \in BOOLEAN
  BY Fields
<1>2. m = o
  BY <1>1 DEF Nfc
<1>3. SendVendorCmd(n, h, k) = CheckCmdQueue(m, NewCommand(n, h, k))
  BY DEF SendVendorCmd
<1>4. Advances(n, CheckCmdQueue(o, NewCommand(n, h, k)))
  BY <1>1, NewAdvances
<1> QED
  BY <1>2, <1>3, <1>4

\* nfc_ncif_update_window
LEMMA UpdateWindowAdvances ==
  ASSUME NEW n, Sound(n), Ordered(n)
  PROVE  Advances(n, UpdateWindow(n))
<1> DEFINE w == n.window + 1
           m == [n EXCEPT !.timer = FALSE, !.cback = 0, !.window = w]
           u == UpdateWindow(n)
<1>1. n \in Nfc /\ n.window \in 0 .. 1 /\ n.q \in Seq(Command)
  BY Fields
<1>2. CASE n.window = MaxWindow
  <2>1. Keeps(n, n)
    BY DEF Keeps
  <2> QED
    BY <1>2, <2>1, KeepsAdvances DEF UpdateWindow
<1>3. CASE n.window # MaxWindow
  <2>1. u = CheckCmdQueue(m, <<>>)
    BY <1>3 DEF UpdateWindow
  <2>2. w \in Nat /\ w <= MaxWindow
    BY <1>1, <1>3 DEF MaxWindow
  <2> HIDE DEF w, u
  <2>3. /\ m \in Nfc /\ m.window = w /\ m.q = n.q /\ m.last = n.last /\ m.next = n.next
        /\ m.wire = n.wire
    BY <1>1, <2>2, Zenon DEF Nfc
  <2> HIDE DEF m
  <2>4. Sound(m) /\ m.last.id < m.next /\ Rising(m.last.id, m.q, m.next)
    BY <2>2, <2>3 DEF Sound, Ordered
  <2>5. m.q \o <<>> = m.q
    BY <1>1, <2>3
  <2>6. Advances(m, u)
    BY <2>1, <2>4, <2>5, EmptyCommands, CheckCmdQueueAdvances
  <2>7. Advances(n, u)
    BY <2>3, <2>6 DEF Advances
  <2> QED
    BY <2>7 DEF u
<1> QED
  BY <1>2, <1>3

\* One such step after another.
LEMMA KeepsThrough ==
  ASSUME NEW n, NEW m, NEW o, Keeps(n, m), Keeps(m, o)
  PROVE  Keeps(n, o)
BY DEF Keeps

\* Start-up, shut-down and recovery send nothing but through nfc_ncif_send_cmd.
LEMMA HalCloseKeeps ==
  ASSUME NEW n \in Nfc
  PROVE  Keeps(n, HalClose(n))
BY DEF HalClose, Keeps, Nfc

\* nfc_main_notify_enable_status sends nothing.
LEMMA NotifyEnableStatusKeeps ==
  ASSUME NEW n \in Nfc, NEW ok
  PROVE  Keeps(n, NotifyEnableStatus(n, ok))
BY DEF NotifyEnableStatus, Report, Keeps, Nfc

\* nfc_enabled with a failure sends nothing.
LEMMA EnabledFailedKeeps ==
  ASSUME NEW n, Consistent(n)
  PROVE  Keeps(n, EnabledFailed(n))
<1> DEFINE a == [n EXCEPT !.st = "NFCC_POWER_OFF_SLEEP"]
           b == [n EXCEPT !.conn = FALSE]
           c == [n EXCEPT !.conn = FALSE, !.st = "NONE"]
<1>1. n \in Nfc /\ "NFCC_POWER_OFF_SLEEP" \in State /\ "NONE" \in State
  BY Fields DEF Consistent, State
<1>2. a \in Nfc /\ b \in Nfc /\ c \in Nfc
  BY <1>1, Zenon DEF Nfc
<1>3. Keeps(n, a) /\ Keeps(n, b) /\ Keeps(n, c)
  BY <1>1 DEF Keeps, Nfc
<1> DEFINE an == NotifyEnableStatus(a, FALSE)
           bc == HalClose(b)
           cn == NotifyEnableStatus(c, FALSE)
<1>4. EnabledFailed(n) = an \/ EnabledFailed(n) = bc \/ EnabledFailed(n) = cn
  BY DEF EnabledFailed
<1> HIDE DEF a, b, c
<1>5. Keeps(a, an) /\ Keeps(b, bc) /\ Keeps(c, cn)
  BY <1>2, HalCloseKeeps, NotifyEnableStatusKeeps
<1> HIDE DEF an, bc, cn
<1>6. Keeps(n, an) /\ Keeps(n, bc) /\ Keeps(n, cn)
  BY <1>3, <1>5, KeepsThrough
<1> QED
  BY <1>4, <1>6

\* nfc_task_shutdown_nfcc at most drops the queue.
LEMMA ShutdownNfccKeeps ==
  ASSUME NEW n, Consistent(n)
  PROVE  Keeps(n, ShutdownNfcc(n))
<1> DEFINE c == GenCleanup(n)
           hq == Append(c.halq, Hal("OPEN_CPLT"))
           a == [c EXCEPT !.st = "W4_HAL_CLOSE"]
           b == [c EXCEPT !.st = "W4_HAL_OPEN", !.wire = <<>>, !.halq = hq]
           d == [c EXCEPT !.st = "W4_HAL_CLOSE", !.listen = FALSE]
<1>1. n \in Nfc /\ c \in Nfc /\ "W4_HAL_CLOSE" \in State
  BY GenCleanupSound DEF Consistent, Sound, State
<1>2. Keeps(n, c)
  BY <1>1 DEF Keeps, GenCleanup, Nfc
<1>3. ShutdownNfcc(n) \in {HalClose(a), b, HalClose(d)}
  BY DEF ShutdownNfcc
<1> HIDE DEF c
<1>4. a \in Nfc /\ d \in Nfc
  BY <1>1, Zenon DEF Nfc
<1>5. Keeps(c, a) /\ Keeps(c, b) /\ Keeps(c, d)
  BY <1>1 DEF Keeps, Nfc
<1> HIDE DEF a, b, d
<1> QED
  BY <1>2, <1>3, <1>4, <1>5, HalCloseKeeps, KeepsThrough

\* nfc_ncif_cmd_timeout sends nothing itself.
LEMMA CmdTimeoutRecoveryKeeps ==
  ASSUME NEW n \in Nfc
  PROVE  Keeps(n, CmdTimeoutRecovery(n))
BY DEF CmdTimeoutRecovery, Keeps, Nfc

\* The callback of a vendor command sends nothing here.
LEMMA VendorKeeps ==
  ASSUME NEW n \in Nfc, NEW r
  PROVE  Keeps(n, Vendor(n, r))
BY DEF Vendor, Keeps, Nfc

\* A notification sends nothing.
LEMMA ProcessNtfKeeps ==
  ASSUME NEW n \in Nfc, NEW h \in Notification, h # "RESET"
  PROVE  Keeps(n, ProcessNtf(n, h))
BY DEF ProcessNtf, Keeps, Nfc, Notification

\* nfc_ncif_proc_init_rsp sends nothing.
LEMMA ProcInitRspKeeps ==
  ASSUME NEW n, Consistent(n), NEW r
  PROVE  Keeps(n, ProcInitRsp(n, r))
<1> DEFINE hq == IF r.res = "ok" THEN Append(n.halq, Hal("POST_INIT_CPLT")) ELSE n.halq
           nx == n.retry + 1
           a == [n EXCEPT !.st = "W4_POST_INIT_CPLT", !.retry = 0, !.init = TRUE, !.halq = hq]
           b == [n EXCEPT !.retry = nx]
           c == [n EXCEPT !.retry = 0]
<1>1. n \in Nfc
  BY Fields DEF Consistent
<1>2. ProcInitRsp(n, r) \in {a, b, EnabledFailed(c)}
  BY DEF ProcInitRsp
<1> HIDE DEF hq, nx
<1>3. c \in Nfc /\ c.window = n.window /\ c.q = n.q /\ c.flags = n.flags
  BY <1>1, Zenon DEF Nfc
<1>4. Keeps(n, a) /\ Keeps(n, b) /\ Keeps(n, c)
  BY <1>1 DEF Keeps, Nfc
<1> HIDE DEF a, b, c
<1>5. Consistent(c)
  BY <1>3, KeepsConsistent
<1> QED
  BY <1>2, <1>4, <1>5, EnabledFailedKeeps, KeepsThrough

\* nfc_enabled with success.
LEMMA EnabledOkAdvances ==
  ASSUME NEW n, Consistent(n), Ordered(n)
  PROVE  Advances(n, EnabledOk(n))
<1> DEFINE a == [n EXCEPT !.st = "IDLE", !.conn = TRUE]
           s == SendCmd(a, "DISCOVER_MAP")
           e == EnabledOk(n)
<1>1. n \in Nfc /\ Sound(n) /\ "IDLE" \in State /\ "DISCOVER_MAP" \in Header
  BY Fields DEF Consistent, State, Header
<1>2. Keeps(n, a)
  BY <1>1 DEF Keeps, Nfc
<1>3. Consistent(a) /\ Sound(a)
  BY <1>1, ConnSound DEF Consistent
<1>4. e = NotifyEnableStatus(s, TRUE)
  BY DEF EnabledOk
<1> HIDE DEF a, e
<1>5. Advances(n, a)
  BY <1>1, <1>2, KeepsAdvances
<1>6. Advances(a, s) /\ Consistent(s) /\ Sound(s)
  BY <1>1, <1>3, <1>5, SendCmdAdvances, SendCmdSound DEF Advances, Consistent
<1> HIDE DEF s
<1>7. Keeps(s, e) /\ Consistent(e) /\ Sound(e)
  BY <1>4, <1>6, NotifyEnableStatusKeeps, NotifyEnableStatusSound DEF Consistent, Sound
<1>8. Advances(s, e)
  BY <1>6, <1>7, KeepsAdvances DEF Advances
<1>9. Advances(n, s)
  BY <1>1, <1>3, <1>5, <1>6, AdvancesThrough
<1>10. Advances(n, e)
  BY <1>1, <1>6, <1>7, <1>8, <1>9, AdvancesThrough
<1> QED
  BY <1>10 DEF e

\* nfc_ncif_proc_reset_rsp issues CORE_INIT.
LEMMA ProcResetRspAdvances ==
  ASSUME NEW n, Consistent(n), Ordered(n), NEW r
  PROVE  Advances(n, ProcResetRsp(n, r))
<1> DEFINE c == IF n.flags \cap {"RESTARTING", "POWER_CYCLE_NFCC"} # {}
                  THEN [n EXCEPT !.conn = FALSE] ELSE n
           e == ProcResetRsp(n, r)
<1>1. n \in Nfc /\ Sound(n) /\ n.st \in State /\ "CORE_INIT" \in Header
  BY Fields DEF Consistent, Header
<1>2. Keeps(n, c)
  BY <1>1 DEF Keeps, Nfc
<1>3. Consistent(c) /\ Sound(c)
  BY <1>1, ConnSound DEF Consistent
<1>4. e = SendCmd(c, "CORE_INIT") \/ e = EnabledFailed(c)
  BY DEF ProcResetRsp
<1> HIDE DEF c, e
<1>5. Advances(n, c)
  BY <1>1, <1>2, KeepsAdvances
<1>6. Advances(c, e) /\ Sound(e)
  BY <1>1, <1>3, <1>4, <1>5, SendCmdAdvances, SendCmdSound, EnabledFailedKeeps,
     EnabledFailedSound, KeepsAdvances DEF Advances, Consistent
<1>7. Advances(n, e)
  BY <1>1, <1>3, <1>5, <1>6, AdvancesThrough
<1> QED
  BY <1>7 DEF e

\* The handler of a response.
LEMMA DispatchRspAdvances ==
  ASSUME NEW n, Consistent(n), Ordered(n), NEW r
  PROVE  Advances(n, DispatchRsp(n, r))
<1> DEFINE a == [n EXCEPT !.st = "IDLE"]
           d == DispatchRsp(n, r)
<1>1. n \in Nfc /\ Sound(n)
  BY Fields DEF Consistent
<1>2. Keeps(n, a) /\ Keeps(n, n) /\ Keeps(n, Vendor(n, r.id)) /\ Keeps(n, ProcInitRsp(n, r))
  BY <1>1, VendorKeeps, ProcInitRspKeeps DEF Keeps, Nfc
<1>3. d \in {a, n, Vendor(n, r.id), ProcInitRsp(n, r), ProcResetRsp(n, r)}
  BY DEF DispatchRsp
<1> HIDE DEF a, d
<1>4. Advances(n, d)
  BY <1>1, <1>2, <1>3, KeepsAdvances, ProcResetRspAdvances
<1> QED
  BY <1>4 DEF d

\* A response of the NCI: its handler, and then the window.
LEMMA ProcessRspAdvances ==
  ASSUME NEW n, Consistent(n), Ordered(n), NEW r, r.id \in Nat
  PROVE  Advances(n, ProcessRsp(n, r))
<1>1. Sound(n) /\ Keeps(n, n)
  BY DEF Consistent, Keeps
<1>2. Advances(n, DispatchRsp(n, r)) /\ Consistent(DispatchRsp(n, r))
  BY DispatchRspAdvances, DispatchRspSound
<1>3. /\ Advances(DispatchRsp(n, r), UpdateWindow(DispatchRsp(n, r)))
      /\ Sound(DispatchRsp(n, r)) /\ Sound(UpdateWindow(DispatchRsp(n, r)))
  BY <1>2, UpdateWindowAdvances, UpdateWindowSound DEF Consistent, Advances
<1>4. Advances(n, UpdateWindow(DispatchRsp(n, r)))
  BY <1>1, <1>2, <1>3, AdvancesThrough
<1> QED
  BY <1>1, <1>4, KeepsAdvances DEF ProcessRsp

\* A proprietary response.
LEMMA ProcessNxpRspAdvances ==
  ASSUME NEW n, Consistent(n), Ordered(n), NEW i \in Nat
  PROVE  Advances(n, ProcessNxpRsp(n, i))
<1> DEFINE v == Vendor(n, i)
           a == [v EXCEPT !.cback = 0]
           u == UpdateWindow(a)
           e == ProcessNxpRsp(n, i)
<1>1. Sound(n) /\ n \in Nfc
  BY Fields DEF Consistent
<1>2. Consistent(v) /\ v \in Nfc
  BY VendorSound, Fields DEF Consistent
<1>3. Keeps(n, v)
  BY <1>1, VendorKeeps
<1>4. e = [u EXCEPT !.nxp = FALSE] /\ Sound(e)
  BY ProcessNxpRspSound DEF ProcessNxpRsp, Consistent
<1> HIDE DEF v, e
<1>5. /\ a \in Nfc /\ a.window = v.window /\ a.q = v.q /\ a.flags = v.flags
  BY <1>2, Zenon DEF Nfc
<1>6. Keeps(v, a)
  BY <1>2 DEF Keeps, Nfc
<1> HIDE DEF a
<1>7. Consistent(a) /\ Sound(a)
  BY <1>2, <1>5, KeepsConsistent DEF Consistent
<1>8. Advances(n, a)
  BY <1>1, <1>3, <1>6, KeepsThrough, KeepsAdvances
<1>9. Advances(a, u) /\ Sound(u) /\ u \in Nfc
  BY <1>7, <1>8, UpdateWindowAdvances, UpdateWindowSound DEF Advances, Consistent, Sound
<1> HIDE DEF u
<1>10. Keeps(u, e)
  BY <1>4, <1>9 DEF Keeps, Nfc
<1>11. Advances(u, e)
  BY <1>9, <1>10, KeepsAdvances DEF Advances
<1>12. Advances(n, u)
  BY <1>1, <1>7, <1>8, <1>9, AdvancesThrough
<1>13. Advances(n, e)
  BY <1>1, <1>4, <1>9, <1>11, <1>12, AdvancesThrough
<1> QED
  BY <1>13 DEF e

\* nfc_main_handle_hal_evt.
LEMMA HandleHalEvtAdvances ==
  ASSUME NEW n, Consistent(n), Ordered(n), NEW e \in HalEvent, e # "OPEN_CPLT"
  PROVE  Advances(n, HandleHalEvt(n, e))
<1> DEFINE a == [n EXCEPT !.st = "NONE"]
           fl == n.flags \ {"POWER_OFF_SLEEP"}
           b == [n EXCEPT !.flags = fl, !.st = "NFCC_POWER_OFF_SLEEP"]
           c == IF n.init /\ n.st = "W4_POST_INIT_CPLT" THEN EnabledOk(n) ELSE n
           r == HandleHalEvt(n, e)
<1>1. n \in Nfc /\ Sound(n) /\ "NONE" \in State /\ "NFCC_POWER_OFF_SLEEP" \in State
      /\ fl \in SUBSET Flag
  BY Fields, Zenon DEF Consistent, State
<1>2. Keeps(n, n)
  BY DEF Keeps
<1>3. CASE e = "OPEN_FAILED"
  BY <1>1, <1>3, EnabledFailedKeeps, KeepsAdvances DEF HandleHalEvt
<1>4. CASE e = "CLOSE_CPLT"
  <2> DEFINE an == NotifyEnableStatus(a, FALSE)
             bo == Report(b, "POWER_OFF")
             ad == [Report(a, "DISABLE") EXCEPT !.resp = FALSE]
  <2>1. r = n \/ r = an \/ r = bo \/ r = ad
    BY <1>4 DEF HandleHalEvt
  <2> HIDE DEF r, fl
  <2>2. a \in Nfc /\ b \in Nfc
    BY <1>1, Zenon DEF Nfc
  <2>3. Keeps(n, a) /\ Keeps(n, b)
    BY <1>1 DEF Keeps, Nfc
  <2> HIDE DEF a, b
  <2>4. Keeps(a, an)
    BY <2>2, NotifyEnableStatusKeeps
  <2>5. Keeps(b, bo)
    BY <2>2 DEF Report, Keeps, Nfc
  <2>6. Keeps(a, ad)
    <3> DEFINE o == a.owed \ {"DISABLE"}
               x == IF a.resp THEN [a EXCEPT !.owed = o] ELSE a
    <3>1. Report(a, "DISABLE") = x
      BY DEF Report
    <3> HIDE DEF o
    <3>2. Keeps(a, [x EXCEPT !.resp = FALSE])
      BY <2>2 DEF Keeps, Nfc
    <3> QED
      BY <3>1, <3>2
  <2> HIDE DEF an, bo, ad
  <2>7. Keeps(n, r)
    <3>1. Keeps(n, an) /\ Keeps(n, bo) /\ Keeps(n, ad)
      BY <2>3, <2>4, <2>5, <2>6, KeepsThrough
    <3> QED
      BY <1>2, <2>1, <3>1
  <2>8. Advances(n, r)
    BY <1>1, <2>7, KeepsAdvances
  <2> QED
    BY <2>8 DEF r
<1>5. CASE e = "POST_INIT_CPLT"
  <2>1. r = [c EXCEPT !.init = FALSE]
    BY <1>5 DEF HandleHalEvt
  <2>2. Advances(n, c) /\ Sound(c)
    BY <1>1, <1>2, KeepsAdvances, EnabledOkAdvances, EnabledOkSound DEF Consistent
  <2>3. Sound(r)
    BY HandleHalEvtSound DEF Consistent
  <2> HIDE DEF c, r
  <2>4. c \in Nfc
    BY <2>2 DEF Sound
  <2>5. Keeps(c, r)
    BY <2>1, <2>4 DEF Keeps, Nfc
  <2>6. Advances(c, r)
    BY <2>2, <2>5, KeepsAdvances DEF Advances
  <2>7. Advances(n, r)
    BY <1>1, <2>2, <2>3, <2>6, AdvancesThrough
  <2> QED
    BY <2>7 DEF r
<1>6. CASE e = "ERROR"
  BY <1>1, <1>2, <1>6, EnabledFailedKeeps, KeepsAdvances DEF HandleHalEvt
<1> QED
  BY <1>3, <1>4, <1>5, <1>6 DEF HalEvent

\* What the NFC task does.
LEMMA TaskAdvances ==
  ASSUME IInv, Ordered(nfc), TransportReady \/ HandleRsp \/ HandleNtf \/ HandleHal
  PROVE  Advances(nfc, nfc')
<1> DEFINE a == [nfc EXCEPT !.st = "CORE_INIT"]
           b == Arrived(nfc)
<1>1. Consistent(nfc) /\ Rest /\ Sound(nfc) /\ nfc \in Nfc
  BY Split, Fields DEF Consistent
<1>2. Consistent(a) /\ Consistent(b) /\ Sound(a) /\ Sound(b)
  <2>1. "CORE_INIT" \in State
    BY DEF State
  <2> QED
    BY <1>1, <2>1, StateSound, ArrivedSound DEF Consistent
<1>3. Keeps(nfc, a) /\ Keeps(nfc, b)
  BY <1>1 DEF Arrived, Keeps, Nfc
<1>4. Advances(nfc, a) /\ Advances(nfc, b)
  BY <1>1, <1>3, KeepsAdvances
<1>5. Ordered(a) /\ Ordered(b)
  BY <1>4 DEF Advances
<1>6. ASSUME mbox # <<>>
      PROVE  Head(mbox) \in Posted
  BY <1>1, <1>6, TakeHead
<1>7. CASE TransportReady
  <2>1. nfc' = SendCmd(a, "CORE_RESET") /\ "CORE_RESET" \in Header
    BY <1>7 DEF TransportReady, Header
  <2> HIDE DEF a
  <2>2. Advances(a, nfc') /\ Sound(nfc')
    BY <1>2, <1>5, <2>1, SendCmdAdvances, SendCmdSound DEF Consistent
  <2> QED
    BY <1>1, <1>2, <1>4, <2>2, AdvancesThrough
<1>8. CASE HandleRsp
  <2> DEFINE r == Head(mbox)
  <2>1. r.id \in Nat
    BY <1>6, <1>8, PostedFields DEF HandleRsp
  <2>2. nfc' = ProcessNxpRsp(b, r.id) \/ nfc' = ProcessRsp(b, r)
    BY <1>8 DEF HandleRsp
  <2> HIDE DEF b, r
  <2>3. Advances(b, nfc') /\ Sound(nfc')
    BY <1>2, <1>5, <2>1, <2>2, ProcessRspAdvances, ProcessRspSound, ProcessNxpRspAdvances,
       ProcessNxpRspSound DEF Consistent
  <2> QED
    BY <1>1, <1>2, <1>4, <2>3, AdvancesThrough
<1>9. CASE HandleNtf
  <2> DEFINE h == Head(mbox).hdr
  <2>1. h \in Notification
    BY <1>6, <1>9, PostedFields DEF HandleNtf
  <2>2. \/ nfc' = ProcessNxpRsp(b, 0)
        \/ nfc' = ProcessNtf(b, h) /\ h # "RESET"
    BY <1>1, <1>9 DEF HandleNtf, Arrived, Nfc
  <2>3. b \in Nfc
    BY <1>2 DEF Sound
  <2> HIDE DEF b, h
  <2>4. Advances(b, nfc') /\ Sound(nfc')
    BY <1>2, <1>5, <2>1, <2>2, <2>3, ProcessNtfKeeps, ProcessNtfSound, KeepsAdvances,
       ProcessNxpRspAdvances, ProcessNxpRspSound DEF Consistent
  <2> QED
    BY <1>1, <1>2, <1>4, <2>4, AdvancesThrough
<1>10. CASE HandleHal
  <2>1. Head(mbox).hdr \in HalEvent /\ Head(mbox).hdr # "OPEN_CPLT"
    BY <1>6, <1>10, PostedFields DEF HandleHal
  <2> QED
    BY <1>1, <1>10, <2>1, HandleHalEvtAdvances DEF HandleHal
<1> QED
  BY <1>7, <1>8, <1>9, <1>10

\* nfc_ncif_cmd_timeout, for whatever reason.
LEMMA RecoverAdvances ==
  ASSUME IInv, Ordered(nfc), HandleResetNtf \/ CmdTimeout \/ ListenTimeout
  PROVE  Advances(nfc, nfc')
<1> DEFINE a == Arrived(nfc)
           b == [nfc EXCEPT !.timer = FALSE]
           c == [nfc EXCEPT !.listen = FALSE]
<1>1. Consistent(nfc) /\ Sound(nfc) /\ nfc \in Nfc
  BY Split, Fields DEF Consistent
<1>2. nfc' \in {CmdTimeoutRecovery(a), CmdTimeoutRecovery(b), CmdTimeoutRecovery(c)}
  BY DEF HandleResetNtf, CmdTimeout, ListenTimeout, Recover
<1>3. Keeps(nfc, a) /\ Keeps(nfc, b) /\ Keeps(nfc, c)
  BY <1>1 DEF Arrived, Keeps, Nfc
<1>4. a \in Nfc /\ b \in Nfc /\ c \in Nfc
  BY <1>1, ArrivedSound, TimerSound DEF Consistent, Sound
<1> HIDE DEF a, b, c
<1>5. PICK d \in {a, b, c} : nfc' = CmdTimeoutRecovery(d)
  BY <1>2
<1>6. Keeps(d, nfc') /\ Keeps(nfc, d)
  BY <1>3, <1>4, <1>5, CmdTimeoutRecoveryKeeps
<1> QED
  BY <1>1, <1>6, KeepsThrough, KeepsAdvances

\* NFC_Disable, NFC_SetPowerOffSleep and NFC_PowerCycleNFCC.
LEMMA PowerAdvances ==
  ASSUME IInv, Ordered(nfc), Disable \/ PowerDown \/ PowerUp
  PROVE  Advances(nfc, nfc')
<1>1. Consistent(nfc) /\ Sound(nfc) /\ nfc \in Nfc /\ nfc.flags \in SUBSET Flag
  BY Split, Fields DEF Consistent
<1>2. ASSUME NEW n, Consistent(n), Keeps(nfc, n), NEW ow \in SUBSET Event,
             nfc' = [ShutdownNfcc(n) EXCEPT !.owed = ow]
      PROVE  Keeps(nfc, nfc')
  <2> DEFINE s == ShutdownNfcc(n)
  <2>1. Keeps(n, s) /\ s \in Nfc /\ nfc' = [s EXCEPT !.owed = ow]
    BY <1>2, ShutdownNfccKeeps, ShutdownNfccSound DEF Consistent, Sound
  <2> HIDE DEF s
  <2>2. Keeps(s, nfc')
    BY <2>1 DEF Keeps, Nfc
  <2> QED
    BY <1>2, <2>1, <2>2, KeepsThrough
<1>3. CASE Disable
  <2> DEFINE ow == {"DISABLE"}
             z == {}
  <2>1. \/ nfc' = [nfc EXCEPT !.st = "NONE", !.resp = FALSE, !.owed = z]
        \/ nfc' = [ShutdownNfcc(nfc) EXCEPT !.owed = ow]
    BY <1>3 DEF Disable
  <2>2. ow \in SUBSET Event /\ Keeps(nfc, nfc)
    BY DEF Event, Keeps
  <2> HIDE DEF ow, z
  <2>3. ASSUME nfc' = [nfc EXCEPT !.st = "NONE", !.resp = FALSE, !.owed = z]
        PROVE  Keeps(nfc, nfc')
    BY <1>1, <2>3 DEF Keeps, Nfc
  <2>4. Keeps(nfc, nfc')
    BY <1>1, <1>2, <2>1, <2>2, <2>3
  <2> QED
    BY <1>1, <2>4, KeepsAdvances
<1>4. CASE PowerDown
  <2>1. PICK f \in {"POWER_OFF_SLEEP", "POWER_CYCLE_NFCC"} :
          nfc' = [ShutdownNfcc([nfc EXCEPT !.flags = @ \cup {f}])
                    EXCEPT !.owed = {IF f = "POWER_OFF_SLEEP" THEN "POWER_OFF" ELSE "RESTART"}]
    BY <1>4 DEF PowerDown
  <2> DEFINE fl == nfc.flags \cup {f}
             ow == {IF f = "POWER_OFF_SLEEP" THEN "POWER_OFF" ELSE "RESTART"}
             n  == [nfc EXCEPT !.flags = fl]
  <2>2. nfc' = [ShutdownNfcc(n) EXCEPT !.owed = ow]
    BY <2>1
  <2>3. fl \in SUBSET Flag /\ ow \in SUBSET Event
    BY <1>1, <2>1 DEF Flag, Event
  <2>4. fl \cap {"CONTROL_REQUESTED", "DISCOVER_PENDING"} \subseteq nfc.flags
    BY <2>1
  <2> HIDE DEF fl, ow
  <2>5. Consistent(n)
    BY <1>1, <2>3, <2>4, FlagsSound
  <2>6. Keeps(nfc, n)
    BY <1>1 DEF Keeps, Nfc
  <2> HIDE DEF n
  <2>7. Keeps(nfc, nfc')
    BY <1>2, <2>2, <2>3, <2>5, <2>6
  <2> QED
    BY <1>1, <2>7, KeepsAdvances
<1>5. CASE PowerUp
  <2> DEFINE fl == nfc.flags \cup {"RESTARTING"}
             ow == {"RESTART"}
             n == [nfc EXCEPT !.st = "W4_HAL_OPEN", !.flags = fl, !.owed = ow]
  <2>1. nfc' = HalOpened(n) \/ nfc' = HalOpenFailed(n)
    BY <1>5 DEF PowerUp
  <2>4. fl \in SUBSET Flag /\ ow \in SUBSET Event /\ "W4_HAL_OPEN" \in State
    BY <1>1 DEF Flag, Event, State
  <2> HIDE DEF fl, ow
  <2>2. n \in Nfc /\ n.last = nfc.last /\ n.next = nfc.next /\ n.q = nfc.q /\ n.wire = nfc.wire
    BY <1>1, <2>4, Zenon DEF Nfc
  <2> HIDE DEF n
  <2>3. Keeps(nfc, nfc')
    BY <2>1, <2>2 DEF Keeps, HalOpened, HalOpenFailed, Nfc
  <2> QED
    BY <1>1, <2>3, KeepsAdvances
<1> QED
  BY <1>3, <1>4, <1>5

\* NFC_SetConfig, NFC_SendVsCommand, NFC_DiscoveryStart and NFC_Deactivate.
LEMMA UseAdvances ==
  ASSUME IInv, Ordered(nfc), Send \/ DiscoveryStart \/ Deactivate
  PROVE  Advances(nfc, nfc')
<1>1. Consistent(nfc) /\ Sound(nfc) /\ nfc \in Nfc /\ nfc.flags \in SUBSET Flag
      /\ nfc.st \in State /\ nfc.q \in Seq(Command)
  BY Split, Fields DEF Consistent
<1>2. "SET_CONFIG" \in Header /\ "PROP" \in Header /\ "DEACTIVATE" \in Header
  BY DEF Header
<1>3. CASE Send
  <2>1. \/ nfc' = SendCmd(nfc, "SET_CONFIG")
        \/ \E h \in Header, k \in {"vsc", "nxp"} : nfc' = SendVendorCmd(nfc, h, k)
    BY <1>2, <1>3 DEF Send
  <2> QED
    BY <1>1, <1>2, <2>1, SendCmdAdvances, SendVendorCmdAdvances
<1>4. CASE DiscoveryStart
  <2> DEFINE fl == nfc.flags \cup {"DISCOVER_PENDING", "CONTROL_REQUESTED"}
             n  == [nfc EXCEPT !.flags = fl]
  <2>1. nfc' = CheckCmdQueue(n, <<>>)
    BY <1>4 DEF DiscoveryStart
  <2>2. fl \in SUBSET Flag
    BY <1>1 DEF Flag
  <2> HIDE DEF fl
  <2>3. /\ n \in Nfc /\ n.window = nfc.window /\ n.q = nfc.q /\ n.last = nfc.last
        /\ n.next = nfc.next /\ n.wire = nfc.wire
    BY <1>1, <2>2, Zenon DEF Nfc
  <2> HIDE DEF n
  <2>4. Sound(n) /\ n.last.id < n.next /\ Rising(n.last.id, n.q, n.next)
    BY <1>1, <2>3 DEF Sound, Ordered
  <2>5. n.q \o <<>> = n.q
    BY <1>1, <2>3
  <2>6. Advances(n, nfc')
    BY <2>1, <2>4, <2>5, EmptyCommands, CheckCmdQueueAdvances
  <2> QED
    BY <2>3, <2>6 DEF Advances
<1>5. CASE Deactivate
  <2> DEFINE fl == nfc.flags \ {"DISCOVER_PENDING", "CONTROL_REQUESTED"}
             s  == IF nfc.st = "OPEN" THEN "CLOSING" ELSE nfc.st
             a  == [nfc EXCEPT !.flags = fl]
             b  == [nfc EXCEPT !.st = s]
  <2>1. nfc' = a \/ nfc' = SendCmd(b, "DEACTIVATE")
    BY <1>5 DEF Deactivate
  <2>2. s \in State
    BY <1>1 DEF State
  <2> HIDE DEF fl, s
  <2>3. Keeps(nfc, a) /\ Keeps(nfc, b)
    BY <1>1 DEF Keeps, Nfc
  <2>4. Sound(b)
    BY <1>1, <2>2, StateSound DEF Consistent
  <2> HIDE DEF a, b
  <2>5. Advances(nfc, a) /\ Advances(nfc, b)
    BY <1>1, <2>3, KeepsAdvances
  <2>6. Advances(b, SendCmd(b, "DEACTIVATE")) /\ Sound(SendCmd(b, "DEACTIVATE"))
    BY <1>2, <2>4, <2>5, SendCmdAdvances, SendCmdSound DEF Advances, Consistent
  <2>7. Advances(nfc, SendCmd(b, "DEACTIVATE"))
    BY <1>1, <2>4, <2>5, <2>6, AdvancesThrough
  <2> QED
    BY <2>1, <2>5, <2>7
<1> QED
  BY <1>3, <1>4, <1>5

\* The client thread and the NFCC take from the wire and put nothing on it.
LEMMA OutsideAdvances ==
  ASSUME IInv, Ordered(nfc), Client \/ Nfcc
  PROVE  Advances(nfc, nfc')
<1>1. Sound(nfc) /\ nfc \in Nfc /\ nfc.wire \in Seq(Command)
  BY Split, Fields DEF Consistent
<1>2. Len(nfc.wire) \in Nat /\ nfc.last.id \in Nat
  BY <1>1, OrderFields
<1>3. ASSUME nfc'.last = nfc.last, nfc'.next = nfc.next, nfc'.q = nfc.q,
             Len(nfc'.wire) <= Len(nfc.wire)
      PROVE  Advances(nfc, nfc')
  BY <1>2, <1>3 DEF Advances, Ordered
<1>4. ASSUME NEW hq, nfc' = [nfc EXCEPT !.halq = hq]
      PROVE  Advances(nfc, nfc')
  <2>1. nfc'.last = nfc.last /\ nfc'.next = nfc.next /\ nfc'.q = nfc.q /\ nfc'.wire = nfc.wire
    BY <1>1, <1>4 DEF Nfc
  <2> QED
    BY <1>2, <1>3, <2>1
<1>5. ASSUME NEW w, NEW hq, NEW o, Len(w) <= Len(nfc.wire),
             \/ nfc' = [nfc EXCEPT !.wire = w]
             \/ nfc' = [nfc EXCEPT !.wire = w, !.halq = hq]
             \/ nfc' = [nfc EXCEPT !.open = o, !.wire = w, !.halq = hq]
      PROVE  Advances(nfc, nfc')
  <2>1. nfc'.last = nfc.last /\ nfc'.next = nfc.next /\ nfc'.q = nfc.q /\ nfc'.wire = w
    BY <1>1, <1>5 DEF Nfc
  <2> QED
    BY <1>3, <1>5, <2>1
<1>6. Len(<<>>) <= Len(nfc.wire)
  BY <1>2
<1>7. CASE Client
  <2>1. CASE ClientSendReady
    BY <1>2, <1>3, <2>1 DEF ClientSendReady
  <2>2. CASE ClientOpenCplt \/ ClientHalEvent \/ ClientData
    <3> DEFINE hq == Tail(nfc.halq)
    <3>1. nfc' = [nfc EXCEPT !.halq = hq]
      BY <2>2 DEF ClientOpenCplt, ClientHalEvent, ClientData, DropHead
    <3> HIDE DEF hq
    <3> QED
      BY <1>4, <3>1
  <2> QED
    BY <1>7, <2>1, <2>2 DEF Client
<1>8. CASE NfccRespond
  <2> DEFINE w == Tail(nfc.wire)
             c == Head(nfc.wire)
             hq(r) == Append(nfc.halq, Rsp(c.hdr, c.id, r)) \o NtfAfter(c.hdr)
  <2>1. Len(w) <= Len(nfc.wire)
    BY <1>1, <1>8 DEF NfccRespond
  <2>2. PICK r \in Result : nfc' = [nfc EXCEPT !.wire = w, !.halq = hq(r)]
    BY <1>8 DEF NfccRespond
  <2> HIDE DEF w, hq
  <2> QED
    BY <1>5, <2>1, <2>2
<1>9. CASE NfccLose \/ NfccReset \/ TransportError
  <2> DEFINE a == Append(nfc.halq, Ntf("RESET"))
             b == Append(nfc.halq, Hal("ERROR"))
  <2>1. \/ nfc' = [nfc EXCEPT !.wire = <<>>]
        \/ nfc' = [nfc EXCEPT !.wire = <<>>, !.halq = a]
        \/ nfc' = [nfc EXCEPT !.open = FALSE, !.wire = <<>>, !.halq = b]
    BY <1>9 DEF NfccLose, NfccReset, TransportError
  <2> HIDE DEF a, b
  <2> QED
    BY <1>5, <1>6, <2>1
<1>10. CASE NfccNotify
  <2> DEFINE hq(h) == Append(nfc.halq, Ntf(h))
  <2>1. PICK h \in Notification : nfc' = [nfc EXCEPT !.halq = hq(h)]
    BY <1>10 DEF NfccNotify, Notification
  <2> HIDE DEF hq
  <2> QED
    BY <1>4, <2>1
<1> QED
  BY <1>7, <1>8, <1>9, <1>10 DEF Nfcc

\* NFC_Enable starts with an empty queue; nothing has gone out.
LEMMA EnableOrders ==
  ASSUME IInv, Ordered(nfc), Enable
  PROVE  Ordered(nfc') /\ Len(nfc'.wire) <= Len(nfc.wire)
<1> DEFINE ow == {"ENABLE"}
           f  == Fresh(nfc)
           n  == [f EXCEPT !.st = "W4_HAL_OPEN", !.resp = TRUE, !.owed = ow]
<1>1. /\ nfc \in Nfc /\ nfc.last.id \in Nat /\ nfc.next \in Nat /\ nfc.wire \in Seq(Command)
      /\ f \in Nfc
  BY Split, Fields, OrderFields, FreshSound DEF Consistent
<1>2. nfc' = HalOpened(n) \/ nfc' = HalOpenFailed(n)
  BY DEF Enable
<1>3. f.q = <<>> /\ f.last = NoCommand /\ f.next = nfc.next /\ f.wire = nfc.wire
  BY <1>1, Zenon DEF Fresh, Nfc
<1>4. ow \in SUBSET Event /\ "W4_HAL_OPEN" \in State
  BY DEF Event, State
<1> HIDE DEF ow, f
<1>5. n \in Nfc /\ n.q = f.q /\ n.last = f.last /\ n.next = f.next /\ n.wire = f.wire
  BY <1>1, <1>4, Zenon DEF Nfc
<1> HIDE DEF n
<1>6. /\ nfc'.q = n.q /\ nfc'.last = n.last /\ nfc'.next = n.next
      /\ nfc'.wire = n.wire \/ nfc'.wire = <<>>
  BY <1>2, <1>5 DEF HalOpened, HalOpenFailed, Nfc
<1>7. Len(nfc'.wire) <= Len(nfc.wire)
  BY <1>1, <1>3, <1>5, <1>6
<1>8. NoCommand.id = 0 /\ 0 < nfc.next
  BY <1>1 DEF NoCommand, Ordered
<1>9. Ordered(nfc')
  BY <1>3, <1>5, <1>6, <1>8, RisingNone DEF Ordered
<1> QED
  BY <1>7, <1>9

\* At first nothing waits.
LEMMA InitOrdered == Init => Ordered(nfc)
BY RisingNone DEF Init, Ordered, NoCommand

\* Every step keeps the order, and what it sends is newer than what was sent.
LEMMA NextOrdered ==
  IInv /\ Ordered(nfc) /\ [Next]_vars
    => Ordered(nfc') /\ (Len(nfc'.wire) > Len(nfc.wire) => nfc'.last.id > nfc.last.id)
<1> SUFFICES ASSUME IInv, Ordered(nfc), [Next]_vars
             PROVE  Ordered(nfc') /\ (Len(nfc'.wire) > Len(nfc.wire) => nfc'.last.id > nfc.last.id)
  OBVIOUS
<1>1. Sound(nfc) /\ nfc.last.id \in Nat /\ Len(nfc.wire) \in Nat
  BY Split, OrderFields DEF Consistent
<1>2. Sound(nfc') /\ nfc'.last.id \in Nat
  BY NextIInv, SplitNext, OrderFields DEF Consistent
<1>3. CASE Enable
  BY <1>1, <1>3, EnableOrders
<1>4. CASE [Next]_vars /\ ~Enable
  <2>1. CASE UNCHANGED vars
    <3>1. nfc' = nfc
      BY <2>1 DEF vars
    <3>2. Ordered(nfc')
      BY <3>1
    <3> QED
      BY <1>1, <3>1, <3>2
  <2>2. CASE Next
    <3>1. Advances(nfc, nfc')
      BY <1>4, <2>2, TaskAdvances, RecoverAdvances, PowerAdvances, UseAdvances, OutsideAdvances
      DEF Next, Task, Timers, Application
    <3> QED
      BY <1>1, <1>2, <3>1 DEF Advances
  <2> QED
    BY <1>4, <2>1, <2>2
<1> QED
  BY <1>3, <1>4

\* Commands reach the HAL in the order the application issued them, whatever the
\* recovery answers, and over every restart (nfc_ncif_check_cmd_queue).
THEOREM IssuedInOrder == Spec => InOrder
<1>1. IInv /\ Ordered(nfc) /\ [Next]_vars => [Len(nfc'.wire) > Len(nfc.wire) => nfc'.last.id > nfc.last.id]_vars
  BY NextOrdered
<1>2. Init => IInv /\ Ordered(nfc)
  BY InitIInv, InitOrdered
<1>3. IInv /\ Ordered(nfc) /\ [Next]_vars => (IInv /\ Ordered(nfc))'
  BY NextIInv, NextOrdered
<1> QED
  BY <1>1, <1>2, <1>3, PTL DEF Spec, InOrder

===============================================================================
