# A verification project for linux_libnfc-nci

TLA+ models of the NFC stack in `src/`, the TLC runs that check them on small
instances, and theorems about them that TLAPS proves for every instance. All
paths below are relative to `src/src/libnfc-nci/` unless they start with `src/`.

## 1. The system

| Component | State it keeps | Operations | Interacts with |
|---|---|---|---|
| Linux service layer (`src/src/service`) | managers, callbacks, waits on condition variables | the public API | NFA, by calls and callbacks |
| NFA (`nfa/dm`, `sys`, `p2p`, `snep`, `cho`, `ee`, `hci`, `rw`, `ce`) | one control block per subsystem; the RF discovery state | API requests posted to the task's mailbox, stack callbacks | NFC core, by calls on the NFC task |
| NFC core, command plane (`nfc/nfc/nfc_ncif.c`, `nfc_vs.c`, `nfc/nci`) | command window, transmit queue, last command, vendor callback, response timer, pending discovery | send a command, take a response or notification, timeouts with recovery | NFA (calls, callbacks), HAL (writes, `core_initialized`) |
| NFC core, life cycle (`nfc/nfc/nfc_main.c`, `nfc_task.c`) | `nfc_state`, flags, initialisation data | `NFC_Enable`, `NFC_Disable`, power off, power cycle, HAL events | HAL (open, close), NFA |
| NFC core, data plane (`nfc_ncif.c`, `nfc_main.c`) | per connection: credits, tx and rx queues | send and receive data, credits, connections, deactivation | LLCP, tags, EE |
| LLCP (`nfc/llcp`) | the link, its data links, SAPs, service discovery | activation, frames in turns, connect, I PDUs, RR/RNR, disconnect | NFA P2P, data plane |
| Tag protocols, NDEF (`nfc/tags`, `nfc/ndef`) | one machine per tag type, with its response timer; none for NDEF | detect, read, write, format, lock, check presence | data plane, NFA RW |
| GKI (`gki`) | buffer pools, mailboxes, events, timer lists | get and free buffers, send and wait, timer ticks | everything above, several threads |
| HCI (`nfa/hci`) | gates and pipes (in NV memory, too), the command that is out, the request queue, the state of the network | start-up, gates, pipes, registry, commands and events, for an application; commands of other hosts | NFA EE (discovery), NFCC (a connection to the host controller), NV memory |
| HAL (`src/src/halimpl/pn54x/hal`) | `nxpncihal_ctrl`, the extension command's semaphore | open, write, read, recovery, close | NFC core (callbacks on the client thread), TML |
| TML (`src/src/halimpl/pn54x/tml`) | reader and writer requests, message queue, timers | read, write, deferred calls, abort | HAL, the device file |
| Firmware download, self test, logging, configuration | transfer state; none | | HAL |

The NFC task runs the NFC core, LLCP, the tag protocols and NFA; nothing on it
is preempted by another part of it. The hard behaviour is where the task meets
others:

* the HAL's **client thread** calls back into the stack, reads `nfc_state`
  without a lock and posts to the mailbox or sends an event;
* the **NFCC** answers in its own time, may send notifications between a
  command and its response, may restart, and may lose a command;
* the **response timer** starts a recovery inside the HAL, which replays the
  last command and injects an answer;
* the **life cycle** (disable, power off) cuts through all of it;
* on the air, the **peer's LLCP** numbers, acknowledges, flows off and
  disconnects at the same time as ours, and the application may call out of any
  callback.

What makes each part correct:

* command plane: one command out at a time; each answer to its own callback;
  commands in order; nothing stranded in the queue; the window opens again after
  a loss; the stack agrees with the NFCC on what is active;
* life cycle: every enable, disable and power request should be answered (section 3 has
  the cases in which one is not); nothing of the life before reaches the next;
* data plane: credits are conserved, packets in order and whole, a deactivation
  waits for credits but not for ever;
* LLCP: a data link is two reliable queues; the window, the modulus and RNR
  agree at both ends; a disconnection comes after the data, or at once with
  flush; congestion ends; no connection is half open;
* HAL and TML: the answer to the HAL's own command is not another packet, every
  call returns, a packet is always listened for;
* GKI: a buffer has one owner, no event is lost, timers keep their order;
* NFA discovery: requests, responses and notifications that cross leave the
  state the NFCC is in; a stop and a presence check end;
* HCI: host and host controller keep the same pipes; a response is given to the
  request it belongs to; start-up and requests end;
* reader and writer: one answer per request, true when it is a success; the
  message on a tag is whole or withdrawn whenever the tag leaves.

PROJECT.json lists each component with its status and reason, and every hazard
with its line and the properties that cover it.

## 2. The modules

| Module | Models |
|---|---|
| `NciCmd` | the command plane and the life cycle, with the HAL and the NFCC as the stack meets them |
| `NciCmdProofs` | the theorems about `NciCmd`: types, nothing stranded, order |
| `NciCmdWindow` | the theorems about `NciCmd`: one command out, callbacks, the response timer, agreement with the NFCC |
| `NciData`, `MCNciData` | the NCI data plane: connections, credits, fragments, the deactivation that waits |
| `NciDataProofs` | the theorems about `NciData`: types and sending, and, in its second part, receiving |
| `SeqLemmas` | facts about mailboxes that the proofs share |
| `HalTml`, `MCHalTml` | the HAL on its transport: five threads, semaphores, timer, retries, close |
| `HalTmlProofs` | the theorems about `HalTml`: types and reading, and whose responses the HAL takes |
| `DmDiscover`, `MCDmDiscover` | RF discovery in the NFA device manager, against the NFCC |
| `DataLink` | what a data link promises its two applications: the abstract specification |
| `LlcpDlc`, `MCLlcpDlc` | one LLCP data link between two stations that both run this code |
| `LlcpDlcProofs` | the theorems about a station of `LlcpDlc`, whatever its peer sends |
| `LlcpDlcPair` | the theorems about both stations of `LlcpDlc` and what is under way between them |
| `LlcpDlcData` | the theorem that `LlcpDlc` implements `DataLink` |
| `RwCore` | what the RW modules of all tags share, and what NFA makes of their events |
| `RwT1t`, `RwT2t`, `RwT3t`, `RwT4t`, `RwI93` | the RW modules of Type 1, 2, 3, 4 and ISO 15693 tags, each with the tag |
| `Hci`, `MCHci` | HCI in NFA, against a host controller with a UICC and an eSE |
| `NfaRw`, `MCNfaRw` | NFA RW over them: requests, timers, activation, and a tag that may leave |

An MC module holds the constants of its module that are sets of records, for
TLC. Where a module has a constant `Bounds`, a behaviour takes one record out of
it at the start (`lim`): each names one group of cases that meet, and one run
explores them all.

### NciCmd

`nfc` is the control block `nfc_cb` with what the task handed to the HAL: the
commands the NFCC holds (`wire`) and the client thread's message queue (`halq`).
`mbox` is the task's mailbox, `ready` the event
`NFC_TASK_EVT_TRANSPORT_READY`, `checked` the moment between the client
thread's test of `nfc_state` and that event, `rf` the NFCC's RF state. Each C
function of the command plane is an operator from control block to control
block (`CheckCmdQueue`, `UpdateWindow`, `EnabledOk`, `GenCleanup`,
`ShutdownNfcc`, ...); each event handler is an action made of them:

* the task: `TransportReady`, `HandleRsp`, `HandleNtf`, `HandleResetNtf`,
  `HandleHal`, and the timers `CmdTimeout`, `ListenTimeout`, which run
  `nfc_ncif_cmd_timeout` with the HAL's replay of the last command (`Recover`);
* the application (NFA): `Enable`, `Disable`, `PowerDown`, `PowerUp`, `Send`,
  `DiscoveryStart`, `Deactivate`;
* the client thread: `ClientOpenCplt`, `ClientSendReady`, `ClientHalEvent`,
  `ClientData`;
* the NFCC: `NfccRespond`, `NfccLose`, `NfccReset`, `NfccNotify`,
  `TransportError`.

Commands are told apart by header, identity and kind: `plain` for those without
a callback, `vsc` and `nxp` for `NFC_SendVsCommand` and
`NFC_SendNxpNciCommand`. `tml` says that the transport's context exists:
`phNxpNciHal_close` frees it and uses it untested, so a second close crashes, and
`phTmlNfc_Init` refuses a second open without a close. `Cases` says which hazards a
run includes; with `give_up` `core_initialized` may return without a message, in a
recovery and in the initialisation (`ProcInitRsp`, the result `mute`). The ghosts
`owed` and `reports` record what the application waits for and which command's
callback got which answer.

Abstracted: the content of commands beyond what the above needs; commands and
notifications that change no state of this plane; the HAL's own commands inside
`core_initialized` (the recovery is one step at the task, as it is in the code,
where the task waits for it). Left out: the I2C fragmentation mode, which the
configurations do not enable; the ETSI reader's exception to the response
matching; the HAL's requests for control, and `HAL_NFC_PRE_DISCOVER_CPLT_EVT`,
which this HAL never makes. NFA is assumed to enable one stack at a time and to
disable it once.

### DataLink and LlcpDlc

`dl[s]` is the data link control block of a station, with the part of the
link's signalling queue that belongs to it and what its application knows
(`told` of congestion, `rung` for data). `link` says whose turn it is and which
PDUs of the last frame are still to be handled. The operators are the functions
of `llcp_dlc.c` and `llcp_util.c`: `ProcI`, `ProcRrRnr`, `ProcDisc`,
`SendRrRnr`, `NoPdu` (the end of `llcp_dlc_get_next_pdu`), `CheckUncongested`
and so on. `Frames` is `llcp_link_build_next_pdu`: the frames the station may
send next, each with the control block it leaves. `CheckSend` is
`llcp_link_check_send_data`, called at the end of every action that calls it in
the code. Actions:

* the link: `ReceivePdu` (one PDU of the frame), `EndRx` (the end of
  `llcp_link_proc_rx_data`), `SymmTimeout`;
* the application: `ConnectReq`, `ConnectCfm`, `ConnectReject`, `SendData`,
  `ReadData`, `FlushRxData`, `SetLocalBusy`, `ClearLocalBusy`, `Disconnect`,
  `DisconnectFlush`, `SetTxCompleteNtf`;
* faults: `DlcTimeout` (the timer of a data link), `LinkLoss`.

Application steps interleave with the PDUs of a frame: that is an application
that calls out of a callback.

Abstracted: an SDU is its number; PDU sizes are the choice of how many I PDUs
fit a frame (at least one), while signalling PDUs always share one; reads are
of whole SDUs. `Patient` are the stations configured with a SYMM delay. NFC-DEP
below loses and reorders nothing, and a frame arrives whole. An application
does not send while it is told of congestion, as SNEP, the connection handover
and NFA P2P do not. Left out: more than one data link and UI data (so the
congestion over all links, which starts at six buffers, does not occur), buffer
exhaustion, service discovery, the secured mode, link activation and
deactivation handshakes (a lost link is one step) and the inactivity timer
(which leads to that step).

`DataLink` has, per station, whether its connection is open and the queue of
what it sent and its peer has not read. `LlcpDlc` maps to it: `up` is
CONNECTED, and `pipe` is the receive queue, the I PDUs under way and the
transmit queue, in this order. Where the peer no longer listens the latter two
are gone.

### NciData

`conn[c]` is a connection control block: credits (`num`, of `init`), the packets
in `tx`, the buffers in `rx`, the callback. `nfc` has the states that matter here
and the timer of the waiting deactivation. `toHost` and `toNfcc` are the
messages under way, `nfcc` holds packets and returns credits. Operators are the
functions of the code: `Transmit` is the loop of `nfc_ncif_send_data`, which cuts
a fragment per credit; `ProcCredits` is `nfc_ncif_proc_credits`, with the clamp at
the initial number (`ToppedUp`; it is inside BT_USE_TRACES, which
`include/bt_trace.h:239` sets); `ProcData` is `nfc_ncif_proc_data`, which joins
fragments while they fit a buffer and hands up parts when they do not.

A credit may be late (`ReturnLate`): the NFCC had the packet when the next link came
up, and the host counts it there. `used.late` is how many it has counted so. The NFCC
may reset itself (`NfccReset`), with a CORE_RESET_NTF that makes
`nfc_ncif_cmd_timeout` recover (`ProcReset`): only the queue of the first dynamic
connection is flushed, and `bump` is `core_reset_init_num_buff`, which gives the next
connection that sends one more credit (`Recounted`). Without that connection the
recovery crashes (`NciCmd_startup_lost` shows the same line), and commands that
are out at a reset are the matter of `NciCmd`: the model has neither. A new link comes
up when the host has taken the end of the last one.

A packet is a sequence of numbered fragments. `SmallCap` and `MaxCap` say how
many fragments fit the buffers of the NCI pool and the largest of GKI; GKI may be
out of either when the case says so. The ghost `seen` holds what each side got.

Left out: fragmentation on I2C, loopback, test modes.

### HalTml

One action is what one thread does between two points at which another can see
a difference. `hal` is `nxpncihal_ctrl` and the point (`pc`) the stack's call has
reached in `phNxpNciHal_open`, `core_initialized`, `write`, `send_ext_cmd` or
`close`, with the semaphores it waits on; `tml` the context with its reader and
writer threads; `q` the client thread's message queue and `client` that thread;
`nfcc` the chip behind the driver (external). A step of `HalTml` is a wait
satisfied, a message taken, a read or write done, or a timer expired.
`phNxpNciHal_read_complete` is three: the packet is handed on and a semaphore posted
(`TakeRead`), `halStatus` is tested (`TestClosing`), and the next read is started
(`ReadAgain`); the call that was woken, and a close, may come in between.

Left out: the Kovio path, in which the client thread writes without waiting; packets
that the HAL rewrites or answers itself; the EOF command for icode; retransmission,
which nothing enables; firmware download. A single thread, the NFC task, is assumed
to call the HAL, and the client to empty its queue and return from
`phNxpNciHal_read_complete` within the sleeps of `phTmlNfc_Shutdown`, after which
the code frees what the client uses.

### DmDiscover

`dm` is `nfa_dm_cb.disc_cb`: state, flags (`w4rsp`, `w4ntf`, `stopping`,
`checking`), the timer, and the modules that were told of an activation; `cmd` the
part of the command plane that decides in which order commands go out; `prio` the
logic that gives NFC-DEP priority over ISO-DEP; `nfcc` the RF state of the chip.
`SmIdle`, `SmDiscovery`, ... are the `nfa_dm_disc_sm_...` functions, one per
state. Actions: the host (`Receive` of the next message, three timers), the
application (`StartRfDiscovery`, `StopRfDiscovery`, `RfDiscoverSelect`,
`CheckPresence`, `ActDeactivate`, `RequestExclRfCtrl`, `ReleaseExclRfCtrl`,
`Disable`), the NFCC and the field. `excl` is exclusive RF control with its discovery
entry, `disabling` the flag of a graceful disable, `sys` and `above` what `nfa_sys`
knows: whether the device manager, and the subsystems above it, are still there.

Left out: presence checks under exclusive RF control, Kovio, low power listening, DTA,
a link closed through LLCP, the order in which the subsystems above are disabled,
commands that time out (see `NciCmd`).

### Hci

`hci` is `nfa_hci_cb` with the messages in the mailbox (`mbox`) and both queues
(`q`, `resetq`); its `cfg` is what goes to NV memory (`nv`). `hc` is the host
controller: its table of pipes, its session and what it still has to answer; `in`
are its packets on their way. Operators are the functions of `nfa_hci_act.c`,
`nfa_hci_main.c` and `nfa_hci_utils.c`; `Serve` is the switch of
nfa_hci_check_api_requests, `StartupRsp` and `RequestRsp` the two halves of
nfa_hci_handle_admin_gate_rsp. NFC_TASK's steps are `ReceivePacket` (a packet, up
to the CHECK_QUEUE message it posts) and `NfaMsg` (a message, then the queues, then
NV memory); the rest is the timer, NFCEE discovery, the connection, the application,
power modes, the end and a crash. A timer that has expired has a message in the
mailbox, which nfa_sys_stop_timer does not take back.

There is one application with one gate, a pipe it may create (`p1`), one the
host controller may create (`p2`), the connectivity pipe of the UICC and the static
APDU pipe of the eSE. `used.cut`, `used.over` and `used.late` remember what the
properties except: a change that was cut off, a command that another overtook, and
an answer behind its timer.

Left out: segments and their reassembly, loopback, the link management and identity
management gates, NFA_HciSendResponse, NFA_HciGetGateAndPipeList, and
NFA_HciW4eSETransaction_Complete, which nothing calls.

### RwCore, RwT1t, RwT2t, RwT3t, RwT4t, RwI93, NfaRw

A tag module is a record operator: `s` has the RW control block (`rw`), NFA's
(`nfa`), the command on the air (`air`) and the answers given (`told`). Each
`RW_..` entry point and each state of `rw_t1t_..`, `rw_t2t_..`, `rw_t3t_..`, `rw_t4t_sm_..`,
`rw_i93_sm_..` is an operator on `s`, and an event raised to NFA (`Raise`) is handled inside the step, as the
call in the code. `RwCore` has what `nfa_rw_act.c` does with each event. The tags
are part of the tag modules: the files or blocks, what a command does to them,
what a broken exchange may have done (`TagTorn`), and what a reader that starts
afresh would find (`Readable`).

`NfaRw` adds the mailbox with requests and timer messages, `nfa_rw_handle_op_req`
with its busy and pending rules, activation and deactivation, the presence check
by sleep and wake-up, the application, and the NFCC that forwards. A message is
two units long at most, a block or a write command carries one, so an update takes
length, blocks and length again. `owed` counts answers still due.

`Cases` names what a run admits beyond the plain: timers that expire with the
answer on its way (`late`), DESFire tags of another version (`bad_version`),
applications that do not wait for their answer (`eager`). The other cases are
those in which the properties do not hold (section 3).

Left out: raw frames, the TLV operations of the application, card emulation, and
memory that runs out. Of Type 1 tags: static ones that take the commands of dynamic
ones, reserved memory, messages longer than a length byte says. Of ISO 15693: reads of several blocks at once, Tag-it HF-I tags with
their special treatment, the reset of DSFID and AFI in a format, and commands of
the application that write.

## 3. The runs

All with `tlc -workers 2 -config <run>.cfg <module>`; the longest takes about
two and a half minutes.

| Run | Question | Result (distinct states) |
|---|---|---|
| `NciCmd_flow` | commands of every origin, lost commands, bad start-up answers, bus errors: flow control and order, timer and agreement with the NFCC, does the window reopen, does each callback get its own answer, is discovery started, is every enable, disable and power request answered | 223 k |
| `NciCmd_overtaken` | calls of the application that overtake the start event: is every other request still answered, and does a disable at least leave the stack down | 42 k |
| `NciCmd_hazards` | everything at once: late answers, restarts, failed recoveries, power cycles, NXP commands | 240 k |
| `NciCmd_startup_lost` | does the recovery survive a lost start-up command | violated |
| `NciData_flow` | are credits conserved up to late ones and resets, packets whole and in order both ways, does queued data drain, does a closing link close after its data | 689 k |
| `HalTml_flow` | does every call return, does the HAL take its own answers and no others, is a packet always listened for and read once | 812 k |
| `DmDiscover_flow` | do host and NFCC agree whenever nothing is under way, do stops, presence checks and a graceful disable end, are activations and their ends told in turn, also under exclusive RF control | 127 k |
| `LlcpDlc_flow` | both stations connect, send, become busy, disconnect: no FRMR, no half-open connection, implements `DataLink`, disconnections wait; with timeouts, losses, flushes, reads while busy, calls out of callbacks too: types, bound of the receive queue, no lost wake-up | 1.8 M |
| `LlcpDlc_progress` | congestion ends, queues drain, disconnections and transmit-complete events come, with flushes and with a peer that is busy for a while | 56 k |
| `Hci_flow` | do host and host controller keep the same pipes, is each response that of its request, do start-up and requests end | 965 k |
| `NfaRw_flow` | is every request answered once and truly, is the message on the tag whole or withdrawn at every moment, on Type 1, 2, 3, 4 and ISO 15693 tags | 1.2 M |
| `NfaRw_writef` | is a message that was read a whole one, on a tag whose write broke off | violated |

The violated runs are findings; PROJECT.json quotes the lines of the code and
of the comments that disagree.

**Bounds of NciCmd.** Each run numbers at most six commands (four with all
hazards) including CORE_RESET, CORE_INIT and DISCOVER_MAP of the start-up, so
two or three of the application's are in the window, the queue and on the way
together; the code distinguishes no more than the command that is out, the
head of the queue and the rest. Three notifications let an activation, a
deactivation and a second activation cross commands. Two power requests after
the enable reach a second life of the stack; two faults reach a fault in the
recovery of the first. `NciCmd_overtaken` has plain commands only and four power
requests, so that a disable or power-off can overtake a start event twice. `RequestsAnswered` holds up to these two power requests only (see below);
`OvertakenEnd`, which excepts the case, is checked with four. No run with liveness has `cycle`, for nothing in `src/` calls
NFC_PowerCycleNFCC.

**Bounds of NciData.** Two credits and packets of two or three fragments let a
packet wait half sent; two connections let credits of one come while the other
waits; two activations let the credits of one life come back in the next. Each record of
`MCBounds` is a group of cases that meet: sending (`Sending`), late credits (`Late`), receiving (`Receiving`, and `EeReceiving` on both
connections), no buffers (`NoBuffers`), a reset (`Resetting`). A buffer of one unit and a largest of two reach every branch of the reassembly with
packets of up to four.

**Bounds of HalTml.** The retry limits are 1 where the code has 3 and more: the
loop is entered, repeated and left. Each record of `MCBounds` takes one kind of
fault to one more than its limit: commands unanswered, writes failing, reads
failing, an answer after its timer, notifications, reopening.

**Bounds of DmDiscover.** Four events of the field and four or five calls of the
application, per case: discovery, activation, deactivation by either side, and a
restart can cross. `Silent` omits one notification.

**Bounds of LlcpDlc.** The modulus is 3 or 2 where the code has 16, with windows
of 1 and 2 below it: the ratio of window to modulus is then as tight as the code
allows (a window of 15), and the SDUs sent wrap the sequence numbers.
`MinRxCongest` and `NumRxBuff` give thresholds of 2 and 3; in the case `Disturbed`
the initiator, with the smaller window, is sent three SDUs, one more than threshold and
window let in together. Two
connection requests give a reconnection, or one from either side at once. The
runs that look for a single trace are smaller. The link always moves, so
deadlock is checked in all of them; the other systems stop, after a disable or
a close for instance, and deadlock is not an error there.

**Bounds of Hci.** Thirteen scenarios, each with what meets: three kinds of start-up
with two lost or late answers; hot plugs; two or three requests of the application
with one loss (four for a first pipe: a gate, the pipe, opening it); a request
against two commands of the host controller; a UICC that resets with requests that
wait for it; the host controller closing everything; the APDU pipe; one change of
power; one crash or disable. One pipe each way and one application are enough for two
commands to cross and for a queue behind one under way.

**Bounds of NfaRw.** Two requests and one lost answer per activation, or two
activations of reads and writes: a broken write and what follows it, a read
after a write, a check between the two. Messages of one and of two units make the
new message shorter than and as long as the old one.

**What the code does otherwise.** While modelling, these behaviours of the code
turned out to contradict a property one would ask for, or a comment. The passing
runs leave the cases out by name, and no passing run claims them.

* `NciCmd`. `OneOutstanding` fails when the recovery runs with an answer on its
  way or no command due: the replay is one command too many. A notification
  that arrives while an NXP command is out is reported as its response
  (`nfc_ncif.c:676`; kind `nxp` with case `rf`). A lost RF_DEACTIVATE_CMD is not
  replayed and leaves the window closed (`phNxpNciHal.c:1705`; case `rf` with
  faults). An NFC_Disable between the client thread's test of `nfc_state` and
  its event starts the initialisation instead of waiting for the close
  (`nfc_main.c:658`; case `overtaken`). The completion of the close is then taken for a
  failed start (`:444`), so that NFC_ENABLE_REVT comes and NFC_DISABLE_REVT never,
  against `:787`: `RequestsAnswered` fails in the case `overtaken` with two power
  requests. A restart that fails sets NFC_FL_POWER_OFF_SLEEP (`:234`) and none clears it:
  a later NFC_Disable ends as a power-off, unanswered (`RequestsAnswered` fails with
  three power requests and one fault), and so would the next power cycle; an NFC_Disable
  during a power cycle is taken for another one. `core_initialized` gives up without a
  message when its static retries, or the memory, have run out (`phNxpNciHal.c:1057`,
  `:1102`, against `:1008`), and NFC_Enable is never answered (`RequestsAnswered` fails in
  the case `give_up`). A completion or a response of the life before
  may then survive into the next one, and `OneOutstanding` and `CallbackOwn` fail (case
  `overtaken` with `rf` and `give_up`, six power requests and four faults). A failed start closes the HAL and leaves
  `nfc_state` at CORE_INIT, so an NFC_Disable before the completion, or a second
  failure, closes it again and crashes on the freed context (`phNxpNciHal.c:2116`).
  NFC_Disable after a restart that failed only sets NFC_STATE_NONE: the HAL stays
  open, and the next NFC_Enable fails (`phTmlNfc.c:83`).
* `NciData`. The first connection that sends after a CORE_RESET_NTF is given a credit
  (`nfc_ncif.c:319`), which may be one too many: on a connection created anew the NFCC
  gets a packet more than it has buffers. The reset leaves RF's
  queues and `nfc_state`, so `PacketsWhole`, `ReceivedRight` and `DataDrains` except it.
  A late credit counts on the new link until the clamp takes it back (`:929`), and can
  stand for the last one a deactivation waits for. NFC_Deactivate that waits, and then runs out of time after the link
  was lost and another activated, deactivates the new link: nothing clears
  `NFC_FL_DEACTIVATING`. NFC_SetReassemblyFlag(FALSE) is overridden for every
  chained fragment (`nfc_ncif.c:2054`). NFC_SendData may return
  NFC_STATUS_BUFFER_FULL for a packet that stays queued. Without a command buffer
  and without a packet out, queued data waits until something else is sent.
* `HalTml`. A notification ends the wait of an extension command
  (`phNxpNciHal.c:943`), and a timer message of an earlier wait sets FAILED.
  phNxpNciHal_power_cycle reports OPEN_CPLT before the initialisation it retries.
  After more than three failures in the life of the process, since
  `retry_core_init_cnt` is static, core_initialized fails without telling the
  stack. Where the driver supports select, its two-second timeouts count as read
  errors, so a hundred of them in a row stop the reader.
* `DmDiscover`. A second start of discovery behind the first, or a deactivation in
  LISTEN_SLEEP that crosses the loss of the link, reports a stop early or leaves
  W4_NTF set (five calls in the case `listen`). A presence check whose
  notification never comes is ended by the timer with CHECKING still set
  (`nfa_dm_discover.c:1040`), against `nfa_rw_api.h:166`; the case `wakeup` has no
  silent NFCC. A stop during a check (`overlap`) hides the end of the
  activation. A disable that meets a stop still under way finds ENABLED cleared, so
  DISABLING is not set (`nfa_dm_act.c:536`) and nobody asks again when discovery has
  ended: the disable waits for its timer, which then forces it. It does too with
  exclusive control active, and when a deactivation is under way. Exclusive control
  asked for before a stop is reported is ended at once by that stop. The branch of
  nfa_dm_disc_deact_ntf_timeout_cback for a single interface mapping (`:1043`) is not
  modelled: `num_disc_maps` starts at 4 in this build and loses at most one.
* `LlcpDlc`. With flush, llcp_dlsm_connected queues the DISC and leaves
  `i_xmit_q`, from which W4_REMOTE_DM goes on sending (`llcp_dlc.c:384`, against
  `llcp_api.h:577`). An application that reads its queue empty while locally busy
  stays congested when it is not busy any more (`llcp_api.c:1308`, against
  `nfa_p2p_api.h:455`). `NoHalfOpen` and `NoFrameError` fail once the data link
  timer expires with the CC on its way, and `NoHalfOpen` when an application
  connects out of its disconnect callback, amid a frame that also carries a DM
  for the old connection.
* `Hci`. A response on any pipe but 0x19 leaves WAIT_RSP until the timer expires,
  which reports the command as failed once more (`nfa_hci_main.c:1040`). The host list
  is asked for twice when discovery and the timer both end the wait for the network
  (`nfa_hci_main.c:524`), and the second answer is taken for that of the
  application's first command. The host controller's CLEAR_ALL and CLOSE make the
  host send an OPEN over a command that is out (`nfa_hci_act.c:1369`); in
  WAIT_NETWK_ENABLE the timer is stopped and start-up never ends
  (`nfa_hci_main.c:812`). nfa_hci_is_valid_cfg asks for as many pipes as gates
  (`nfa_hci_main.c:383`), so that most tables are discarded at a restart while the
  host controller keeps its own. Low power forgets requests that are out
  (`nfa_hci_main.c:501`), serves queued ones without a connection, and full power in
  WAIT_RSP is not restored. The timeout of a GET or SET reports `pipe_in_use`, which
  they do not set. nfa_hci_api_create_pipe tests `dest_gate` where it means the host
  (`nfa_hci_act.c:670`), and nfa_hci_api_get_gate_pipe_list uses one index for two
  loops (`nfa_hci_act.c:460`). `nfa_hci_main.c:873` resets the length of both messages
  under assembly with the first segment of any. NFA_HciSendResponse sets neither
  handle nor pipe.
* `NfaRw`, `AnsweredOnce`. A presence check timer whose message is handled after
  the deactivation is answered again (`stale_timer`: nfa_rw_presence_check_timeout
  does not look at ACTIVATED); the immediate answer of a check leaves the timer
  running (`double_check`); a check handled in the middle of an operation
  (`busy_check`: neither nfa_rw_presence_check_tick nor the request while busy
  knows about it); a late answer of a Type 3 tag is dispatched by the command
  that came after.
* `NfaRw`, `ReportsTrue` and `MessageWhole`. After a failed write NFA and the RW
  module keep lengths that are not the tag's, and a read returns a mixture or a
  lock publishes it (`reread`, `unfinished`); NFC_ERROR_CEVT in the NXP build
  passes a status nobody has set (`error_status`, `rw_t4t.c:2081`); two updates, of
  which the first is answered late, overlap (`late` with more than one request).
* `RwT1t`. A lock before NDEF was looked for first looks for the lock TLV, and if the
  tag then turns out not to be one that can be locked the application is told twice
  (`nfa_rw_act.c:373` and `:400`, after nfa_rw_error_cleanup; case `undetected`:
  `AnsweredOnce` fails). A write on a tag whose last write broke off formats it first,
  and the format makes the message valid before it empties it, so that a part of a
  message is readable for a moment, or for good if the tag leaves
  (`rw_t1t_ndef.c:2331`; case `unfinished`: `MessageWhole` fails). Nobody compares the
  echo of a write with what was written, so a format of a tag with its lock bits set is
  reported done (case `locked`: `ReportsTrue` fails). rw_t1t_process_error compares its
  event with RW_T2T_NDEF_DETECT_EVT (`rw_t1t.c:668`), so a failed detection raises an
  event without the flags that NFA then reads (`stack_flags`). A write command that was
  sent again while its answer was late may be cut off the second time, and the answer
  of the first is taken for its success; the run with late answers has no torn commands.
* `RwT2t`. A set read-only of a tag whose header is not known is reported as
  failed while the lock command goes out, and the answer to it is then taken for
  that of the next command (`rw_t2t_ndef.c:1880`; case `stray`). After the wake-up
  of a tag that had halted NFA still takes NDEF for detected and the RW module does
  not, so that reads and writes fail until the next detection. In exclusive mode a
  check of a halted tag says that it is there. With a deactivation pending, a NACK
  ends a read with the event of a detection (case `halted`). A length of three
  bytes that crosses a block is written in two steps (the module's block with the
  length is written as a whole).
* `RwI93`. A format that finds a lock among the locks of many blocks reports its
  failure and then writes the capability container (`rw_i93.c:2624`, "if any block
  is locked, we cannot format it": the break leaves the loop only), whose answer
  comes to the idle module. Set read-only leaves the last block of a message open
  if the message ends with the first byte of the block (`rw_i93.c:2847`), and the
  end of a message that fills its last block, or lies in one block, is not brought
  up to date by an update. A TLV that begins at the end of a block raises a read
  event without data. A late answer to a command that was sent again is taken for
  that of the next one, and SET_TAG_RO_EVT makes the tag read-only in NFA's eyes even
  when it says that the operation failed.
* Others at the same lines: a DESFire tag of an unknown version goes on to select
  after its failure was reported; the poll timer of a Type 3 tag outlives the
  activation; after a Type 3 format a read fails instead of finding an empty
  message, since NFA keeps the old length.
  Deactivation drops the pending requests without an event of their own.

## 4. Fairness

`NciCmd`: weak fairness of the NFC task and of the client thread, which loop on
their queues; of the response timer, which GKI's timer thread runs; and of the
NFCC answering or losing what it holds, where a loss spends the bounded number of
faults. The application and the RF side are not fair: nothing is owed because a
user acts or a device comes near.

`NciData`: weak fairness of the task taking messages, of the deactivation timer,
and of the NFCC returning credits and answering commands.

`HalTml`: weak fairness of each thread (the call, the client, reader, writer), of
the timer, and of the NFCC answering or forgetting. Nothing of the stack.

`DmDiscover`: weak fairness of the task, of the timers it waits for and of the NFCC
answering; nothing of the field or the application.

`Hci`: weak fairness of what goes on by itself: NFC_TASK with its timer, the NV read,
discovery, the connection, the host controller and the eSE answering what they got.
Their sending something of their own, and the application, are not fair.

`LlcpDlc`: weak fairness of the link, exactly one of whose steps is possible at
any time (the turn is kept by NFC-DEP and the SYMM timer); of answering a
CONNECT_IND, which the W4_LOCAL_RESP timer would do otherwise; of reading after
a DATA_IND, which NFA P2P, SNEP and CHO do until the queue is empty; and of
ending the busy state. Sending and disconnecting are not fair.

`NfaRw`: weak fairness of the task, of the RW and NFA timers, and of a
deactivation that was asked for. A tag need not answer: an exchange ends in an
answer, an error or the timer.

## 5. The proofs

`NciCmdProofs` proves, for every choice of `Kinds`, `Cases` and bounds:

* `TypeCorrect`: `Spec => []TypeOK`, with the window never above
  `NCI_MAX_CMD_WINDOW`;
* `NothingStranded`: `Spec => []NoStrandedCommand`, with the window open no
  command is queued and no discovery is due;
* `IssuedInOrder`: `Spec => InOrder`, an action property: a command that goes out is
  newer than every command before it.

The assumptions are those of the module's ASSUMEs: the constants are sets of
the known kinds and cases, the bounds naturals. The inductive invariant is
`IInv`, the conjunction of the first two. `NoStrandedCommand` is not inductive alone:
`nfc_ncif_check_cmd_queue` sends one command and looks no further, which leaves
nothing behind an open window only because the window is at most one, so that
one command closes it. That range is part of `TypeOK`, which the guard of
`nfc_ncif_update_window` keeps.

The argument follows the code. A control block is `Consistent` when it is
`Sound` (its type, with the window in range) and `Settled` (nothing stranded).
One lemma per operator says what the C function needs and leaves:
`CheckCmdQueueSound` takes any sound block, settled or not, to a consistent
one, whoever queued the command; `UpdateWindowSound`, `GenCleanupSound`,
`ShutdownNfccSound`, `CmdTimeoutRecoverySound` and the rest build on it. One step
lemma per action follows, `NextIInv` collects them, and the theorems are by
temporal logic from `InitIInv` and `NextIInv`.

For the order the invariant is `Ordered`: the numbers in the queue rise, above that of
the last command and below that of the next. It says nothing of the wire: that a
command that goes out is new is a fact about the step, and `Advances` states both, for
one operator after another (`CheckCmdQueueAdvances` is the one that matters; most others
only forget commands, `Keeps`). NFC_Enable is apart, since it forgets the last command
too.

`NciCmdWindow` proves four more of the properties, whatever the bounds:

* `OneCommandOut`: `Orderly => (Spec => []OneOutstanding)`;
* `CallbacksOwn`: `Orderly => (Spec => []CallbackOwn)`;
* `TimerRuns`: `Orderly => (Spec => []TimerGuardsWindow)`;
* `AgreesAtRest`: `Orderly => (Spec => []AgreesWithNfcc)`.

`Orderly` admits the cases `rf` and `give_up`, and the kinds `plain` and `vsc`: lost
commands, recoveries (failed ones too), bad answers, bus errors, crossing
notifications and any number of power requests are in. What it leaves out are the cases
in which the code breaks the properties, or may (section 3: `late`, `restart`, `cycle`,
`overtaken`, kind `nxp`); `NciCmd_flow` is orderly.

None of the four is about one control block: a response is a command's from the wire
over the client thread's queue and the mailbox to `nfc_ncif_process_event`, and the
stack may be closed and opened in between. The invariant is `Window` with `Healthy` and
`Spent`, and TLC checked the first two before they were proved:

* `Queues` and `Phase` say of the control block, state by state, whether the transport is
  there, whether the window may be closed and by which command. A command at the NFCC is
  the last one, with the window closed.
* `Mail` says of each message on its way that it `Fits` the state the stack is in. A
  response finds the window closed, nothing at the NFCC and its command as the
  last one; a completion of the close finds the transport gone. Messages are in line
  (`Lined`): nothing is behind the completion of a close, and no response is behind
  another, which is why at most one is under way (`OneAnswer`).
* `Outside`: while the start event is pending the window is open.
* `Healthy`: until the first fault a closed window has its command at the NFCC or its
  response on the way, and the timer runs; `TimerGuardsWindow` is a consequence.

`OneOutstanding` follows from `Fits` and `OneAnswer`. `CallbackOwn` is carried along: a
vendor command that is out has its own number in `p_vsc_cback` or none, and the
response that arrives is that of the last command, so the report is right when it is made.

Shutting down is where it is delicate. `nfc_gen_cleanup` and the HAL's close leave
messages in both queues that the next life meets, and the invariant has to say why they
are harmless: `nfc_task_shutdown_nfcc` flushes the mailbox, `nfc_main_hal_data_cback`
drops what the NFCC sent while the stack is in W4_HAL_CLOSE, and the completion of the
close comes last. One lemma per operator says which part of
the invariant it keeps, a lemma per action that the whole is kept, and `NextWindow`
collects them.

`AgreesWithNfcc` speaks of a stack with nothing on its way, where nothing is left that
could be inductive, so `Agreement` says what holds before, and TLC checked it first. `After`
is what a line of messages makes of "a remote device is active": the last of them that
tells of an activation or an end decides, and if none does it stays as it is. `Told` puts
the mailbox and then the client thread's queue behind `nfc_state` and compares with the RF
state of the NFCC. `AfterTail` is the step of the task, `AfterAppend` that of the NFCC, and
both together that of the client thread. `DeactivationDue` is the second part: a stack in
CLOSING has its deactivation in the queue, at the NFCC or answered. Without it a link that
the NFCC has active could stay CLOSING for good, which `AgreesWithNfcc` forbids. With nothing on its way the
deactivation would wait in the queue; by `NoStrandedCommand` the window is then closed, and
by `Healthy` a command is out or answered: this is where the three proofs about `NciCmd`
meet.

`NciDataProofs` proves, for every finite set of connections,
number of credits, buffer sizes and bounds:

* `DataTypes`: `Spec => []TypeOK`, with `TypeOK` of the proof module: no count of
  credits, packets or buffers is ever negative;
* `CreditsKept`: `Spec => []CreditLedger`, with late credits and resets;
* `DeactivationWaits`: `Spec => DeactivateWaits`, an action property;
* `NeverTorn`: `Spec => []PacketsWhole`;
* `ReportedRight`: `Spec => []ReceivedRight`.

They assume what the ASSUMEs of `NciData` say: the static connection is not one of
the others, there is at least one credit, the number that stands for no flow
control is larger than any, and a larger buffer holds more than a small one. None of
the properties is inductive: each is about a control block, the NFCC and messages
between them. The invariants, each checked by TLC on the instance of `NciData_flow`
before it was proved, are:

* `Handshake`: one command and one answer create or close a connection. While one is
  on its way no other for the same connection is, so an answer finds the block that
  asked.
* `Calm`: no CORE_RESET_NTF is under way and no credit is due for one. The invariants
  below hold until the NFCC resets itself for the first time; the properties say so
  where they depend on it.
* `LinkOrder`: the NFCC's RF link and the task's differ by the activation and
  deactivation on their way, and an activation comes when the end of the link before
  it was handled. Without it a packet of one link could meet the next.
* `Ledger`: the credits of an open connection are in its block, at the NFCC or in
  messages on their way; late ones come on top, at most as many as were counted on this
  link. The clamp loses none: where it acts the block alone has the initial number. None
  is on its way behind the answer that opens a connection or a link, since that answer
  sets the count anew.
* `Surplus`: whatever is lost in a reset, the host has at most one credit too many for
  each, counting the one that `bump` may still give: the other half of `CreditLedger`.
* `Whole`: the queue of a connection holds the rest of the packet in front and whole
  packets behind it (`Tidy`), and the NFCC has part of a packet only when the queue
  begins with its rest.
* `Received`: what went up, the receive queue and the data messages under way, in this
  order, are one line without gaps (`Chain`); a message meets its connection as it was
  sent (`Arrival`); without a connection nothing is queued. The fragments joined in a
  buffer are then always neighbours.

`DeactivationWaits` needs types only, but for every step of the system, that no other
than the two steps ends the wait.

`LlcpDlcProofs` proves, for every modulus, pair of windows below it, congestion
threshold and number of buffers, with the timer, lost links, flushing and reading
while busy:

* `DlcTypes`: `Spec => []TypeOK`, so that the four sequence variables stay below the
  modulus whatever N(R) the peer sends;
* `QueueBounded`: `Spec => []RxBounded`;
* `NoLostWakeup`: `Spec => []DataNotified`.

They hold station by station, whatever the peer sends: the lemmas about `Process` take
any PDU. `RxBounded` is not inductive: an I PDU may always come. The invariant
(`Receiving`) says why few do. From congestion on `llcp_dlc_proc_i_pdu` acknowledges
nothing, every SDU in excess of the threshold is one of those between V(RA) and V(R),
and the window test counts exactly these. `DataNotified` is inductive with one clause
more (`Notified`): no station that is not connected has a queue.

`LlcpDlcPair` proves, under the same assumptions and while nothing cuts in on the
connection (`Undisturbed`: no connection timer, lost link, flush or read while busy;
busy stations, and requests that cross, are in):

* `NoFrameErrors`: `Spec => []NoFrameError`;
* `NeverHalfOpen`: `Spec => []NoHalfOpen`;
* `DisconnectWaitsForAll`: `Spec => DisconnectWaits`.

None is a fact about one station. The invariant is `Pair`, which TLC checked on the
instance of `LlcpDlc_flow` first. It lists the phases of a pair of stations, each of
which says what state either is in and which PDUs either has yet to handle, in which
order:

* `Setup`: nobody is connected; requests and their rejections may cross.
* `Open`: both are connected (`Joined`), one is and its CC is on its way (`Accepted`),
  the same with a DISC close behind it (`Fleeting`), or one has sent DISC and the
  other does not know (`Left`).
* `BothLeft`: the DISCs crossed.
* `Answered`: one handled the DISC of the other, is idle and may connect anew before
  its DM arrives.

While the pair is `Open`, `Flows` holds in either direction. `Numbers` orders, counted
from V(SA) of the sender and below its window, the N(R)s under way, V(RA), V(R) and
V(S). `Carries` says that the I PDUs under way are numbered from V(R) up to V(S)
without a gap. These are the conditions llcp_dlc_proc_i_pdu and
llcp_dlc_proc_rr_rnr_pdu test, so no PDU fails them. A station with its DISC sent has
no SDU queued and everything acknowledged (`Leaving`), and so `Acks` allows only
RRs and RNRs in front of a DISC, which is `DisconnectWaits`.

A lemma per function that queues PDUs says what it adds (`Moves`), a lemma per state
says how a PDU in it is handled (`Handles`), a lemma per action that it keeps the pair
(`Keeping`); `NextPair` collects them.

`LlcpDlcData` proves the refinement under the same conditions:

* `ImplementsDataLink`: `Spec => Implements`. Every step of the two stations is a step
  of `DataLink` or none. A disturbed connection promises nothing, and the mapping says
  so (`Data` in `LlcpDlc`).

What s sent that its peer may yet read (`Pipe`) is the receive queue of the peer, the
SDUs of the I PDUs in the frame under way (`Carried`) and the transmit queue of s, the
last two while the peer listens. `Maps` lists what a step may be for the
applications, and `MapsData` takes each to a step of `DataLink`. `CheckSend` only moves SDUs from the queue to the frame
(`Ships`), which leaves the pipe as it is; `Process` only moves them from the frame to
the receive queue (`Takes`). That the I PDUs of a frame follow one another, which makes
`Carried` a queue, comes from `Carries` in `Pair`. Closing drops what had not reached the station,
and what it sent itself stays: its queue is empty then, since a DISC waits for all
acknowledgements.

`Pair` was not enough. A connection opens on the side of the requester when the CC is
handled, and `DataLink` opens it only with nothing left in the queue from this side. The
peer has been connected since it sent the CC, and `Pair` does not say that it has received
nothing. `Unread`, which TLC checked first, says so: until the CC is handled the receive
queue of whoever sent it is empty. It is inductive with `Pair`.

`HalTmlProofs` proves, for every number of retries, any bounds and every fault:

* `HalTypes`: `Spec => []Typed`, the types and where a call may be (`Shape`);
* `AlwaysListening`: `Spec => []Listening`;
* `PacketsOnce`: `Spec => []EachPacketOnce`.

They assume what the ASSUMEs of `HalTml` say: the limits are naturals, and
`core_initialized` sends at least one command. Reading crosses three threads, and
neither property is inductive. The invariant, which TLC checked on the instance of
`HalTml_flow` first, is:

* `Reader`: the client thread has been told of at most one packet, and of none while a
  read is enabled or under way: the reader waits for `phNxpNciHal_read_complete`, and
  while the client thread is in it (`Rearming`) nothing is read or queued. The
  message that ends the client thread comes only from a close, and a HAL without its
  callback is closing (`Shape`), so the error of the reader always reaches the stack
  that `Listening` excuses.
* `Numbered`: the packets are numbered without a gap from the one taken last, over the
  one in the buffer, to those the NFCC has on its way. It lapses with the first reset
  notification the HAL writes into that buffer, and a reset of the NFCC keeps it.

A lemma per action says that it keeps the types and which fields it changes, and the
steps of `ApiStep`, `CallStep`, `ClientStep` and `DeviceStep` use only that.

Its second part adds `OwnResponses`: `Spec => []OwnAnswer`. The HAL does not look at
which command a response is for; it takes whatever arrives while a call has
HAL_ENABLE_EXT set. That this is right rests on three more invariants, the first of
which holds in every behaviour and the others in those `OwnAnswer` is about (`Calm`):

* `Always`: a write is asked for, done, reported or known to the call, one of these at
  a time and only while the call waits for it (`Writes`); an error of the reader that
  is queued means that nothing will be read any more (`Ending`, `Busy`).
* `OnWay`: of the commands the NFCC holds, the responses on their way and the packet
  the client thread is told of, there is at most one, and it belongs to the command
  that is owed a response (`Owed`): the call's from the moment its bytes are written to
  the moment the semaphore is posted or the timer expires, the stack's otherwise. When
  a timer expires or a recovery begins no answer is on its way, which is what
  "undisturbed" says, and the place is free for the next command.
* `Takings`, `Fresh`, `Command`, `Timing`: a semaphore posted with the status unharmed
  means that the response came, an expired timer is posted while the call still waits,
  and no semaphore is posted before the bytes of the command went out. `Fresh` was
  missing at first: without it the step that writes the command cannot be proved,
  since a response could have been counted before.

The actions of the stack's thread share one lemma (`MovedStep`): none of them brings
a response on its way or has another thread write.

Only model-checked: the liveness of `NciCmd`, `LlcpDlc`,
`NciData` and `HalTml`, and all of the other modules. The properties of `DmDiscover`,
`Hci` and `NfaRw` hold for the listed cases only, and an invariant for them would have to
restate each case.
Liveness under fairness, ENABLED and what recursive definitions compute for all
inputs are out of the prover's reach and stay with TLC. No module uses RECURSIVE
operators.

## 6. The plan

Done: `NciCmd`, `NciCmdProofs`, `NciCmdWindow`, `DataLink`, `LlcpDlc`, `NciData`, `NciDataProofs`,
`SeqLemmas`, `LlcpDlcProofs`, `LlcpDlcPair`, `LlcpDlcData`, `HalTml`, `HalTmlProofs`,
`DmDiscover`, `RwCore` with `RwT1t`, `RwT2t`, `RwT3t`, `RwT4t` and `RwI93`, `NfaRw`, `Hci`. Next, in order of
importance:

1. `Gki`: buffers with owners, mailboxes and events, delta timer lists against
   absolute deadlines.
2. SNEP over `DataLink`; the NFCEE subsystem, under `Hci`; the ordered disable of
   `nfa_sys`.
3. Card emulation beside `NfaRw`; firmware download; the service layer's waits.

Theorems to come: `AgreesWithNfcc` of `DmDiscover` and `PipesAgree` of `Hci`, for the cases
in which they hold.

## 7. Not modelled

Pure data handling (NDEF, configuration files, tag memory layouts,
cryptography), factory tests, logging, the USB transport with its vendored
library, the demo application and the C++ service layer. The rest is in the
plan above; until a later module models it, a neighbour is what its callers and
callees in the code let it be.
