# A TLA+ development of the Z-Wave controller library (UZBCTL)

`src/` is a Z-Wave host: a C library (`src/lib`, `src/src`) that talks over a
serial port to a Z-Wave chip, and programs that exercise it.  This directory
holds TLA+ models of the library, the TLC runs that check them on small
instances, and TLAPS proofs of the results that hold for every instance.  The
Linux build is the one modelled.

Paths below are relative to `src/`.

## 1. Inventory

The library is a stack.  Calls go down in the caller's thread; bytes come up in
the transport's read thread; every expired timer runs its callback in a thread
of its own; callback frames and reports are handed on to further threads.

| Layer | Code | State | Operations | What is hard |
|---|---|---|---|---|
| Platform timers | `lib/zw_hci_platform.c` | list of running timers, tick counter, last identifier | start (one-shot, periodic), stop, tick thread, check thread | stop does not wait for a callback whose thread already exists; thread creation may fail silently; 15-bit identifiers and 16-bit ticks wrap |
| Platform threads | `lib/zw_hci_platform.c` | mutexes (recursive), semaphores, condition variables | lock, wait, timed wait, signal | a signal wakes one waiter, a timed wait re-acquires the mutex late |
| Lists, utilities | `lib/zw_hci_util.c` | request lists with mutex and semaphore | add, take, remove | an emptiness test outside the lock; wrap-around comparison |
| Transport | `lib/zw_hci_transport.c` | port, write list, receive window | open, close, write thread, read thread | full list, read timeout that is noticed but not reported on Linux |
| Frame layer | `lib/zw_hci_frame.c` | outstanding frame, resend count, two timers, receive automaton | `frm_dat_frm_snd`, byte handler, two timer callbacks | ACK/NAK/CAN, resends and timeouts in any order |
| Session layer | `lib/zw_hci_session.c` | state machine, two semaphores and two status fields, `cb_map`, callback list | `ssn_cmd_snd`, verdict and response events, callback thread | status fields read without the lock, late verdicts and responses, identifiers that wrap |
| Application layer | `lib/zw_hci_application.c` | `snd_mtx`, two waiting flags with one timer handle, completion functions | about 70 command functions, `zw_nm_cb`, two timeouts | the read thread takes a mutex that is held while it is needed; a timeout that waits for that mutex |
| Firmware programming | `lib/zw_hci_fl_prog.c` | dialogue state | program, verify | sequential |
| Polling | `src/zw_poll.c` | poll queue sorted by node, current request, next poll time, handle counter | add, remove by handle, token or node, tick, check thread, report, transmit status | sends while holding the mutex; removal during transmission; fairness between nodes; handle wrap |
| Security (S0) | `src/zw_sec_layer.c`, `src/zw_sec_aes.c`, `src/zw_sec_random.c` | transmit and inclusion state machines, two nonce tables, message queue, halves of split messages | send, receive, nonce get and report, timeouts, inclusion, abort | nonce report before the transmit status; statuses that do not say what they are of; a table the timer thread cleans without the lock |
| Network operations | `src/zw_api_network.c` | `curr_op`, machines of the interview and of the update, one timer they share | initialise, add, remove, replace, initiate, update, migrate, reset, abort | an operation lives across callbacks, timeouts and other machines; an abort may come in any of them |
| Node database | `src/zw_api_network.c`, `src/zw_api_util.c` | nodes, end points, interfaces; the file they are saved in | update from node information, interview reports, save, load | nodes that change or go while they are asked; a stop while the file is written |
| Execution of commands | `src/zw_api_base.c` | per node: queue for beamed nodes, queue for sleeping nodes and multi commands, the report waited for | `zwif_exec_ex`, wake-up, statuses, two timers, two threads | a command moves between queues and threads, each with a lock of its own |
| Work of the library | `src/zw_api_network.c` | execution queue and thread, probes | probe and remove failed nodes, restarts, lifelines | a request goes back to the queue when it meets a network operation |
| The controller as a node | `src/zw_api_network.c` | group 1, power level with its timer, link test | answers to other nodes' questions | a power level that has to come back; test frames and statuses |
| Command classes | `src/zw_api_base.c`, `src/zw_api_intf.c` | report callbacks, cached data, answers under way, firmware update | about 190 `zwif_` functions, the report dispatcher, the callback thread | the callback is set and the question asked in two steps; answers in several reports share one place |
| Start and end | `src/zw_api_network.c` and the others' init and exit | what has been acquired, five threads | `zwnet_init`, `zwnet_exit` | nineteen steps that may fail; threads that end before what they use |
| Test programs | `app/linux`, `app/win`, `driver/` | none of the library's | interactive use | none |

What makes each part correct:

- **timers**: a timer that a layer believes stopped does not act on a later
  purpose; none becomes unreachable.
- **frame layer**: a frame that was accepted gets exactly one fate; the layer
  never refuses for ever; resends are bounded; a timeout hits its own frame.
- **session layer**: one command at a time, one outcome per command, the
  response is that command's, statuses are never read half-made; a callback
  frame reaches the function of the command it answers.
- **application layer**: no two commands with a callback in flight, a wait that
  always ends, a read thread that never stays blocked, one true completion for
  each call.
- **polling**: the queue stays sorted and its handles unique, what is sent stays
  in the queue while it is sent, every due request gets its turn, and nobody
  waits for ever on the two mutexes.
- **security**: a message accepted is sent and reported once and in order; a
  nonce is used once and reclaimed in time; a message handed up is put together
  from its own parts; an inclusion that is reported as successful was verified,
  and each one ends.
- **network operations**: one at a time, each ends, each is told once, nothing
  runs on after its operation.
- **interview, execution, own work**: every job that no repeated report takes back ends, and every wait; a command is
  in one place; a node that resets itself is followed to the end.
- **node database and file**: what was found out is kept while the node is what it
  was; what is loaded is what was saved, and all of it.
- **command classes**: a question is answered through its own callback, with the
  whole answer of one node; what is set is what is read back; a firmware image
  arrives whole and in order.
- **start and end**: a failed start leaves nothing behind; nothing is destroyed
  while somebody may use it.

## 2. Modules

| Module | What it is | Code |
|---|---|---|
| `TimerService` | operators on the list of running timers | `lib/zw_hci_platform.c`, as its users see it |
| `HciFrame` | sending side of the frame layer | `lib/zw_hci_frame.c` |
| `HciSession` | session layer, EXTENDS `HciFrame` | `lib/zw_hci_session.c` |
| `CommandService` | abstract specification of `ssn_cmd_snd` | what `HciSession` implements |
| `HciAppl` | send gate of the application layer, over the promise of `CommandService` | `lib/zw_hci_application.c` |
| `HciCommands` | the command functions of the application layer and their completion functions | `lib/zw_hci_application.c`, `lib/zw_hci_session.c` |
| `HciFrameRx` | receiving bytes: read and write thread, the automaton that makes frames of bytes | `lib/zw_hci_frame.c`, `lib/zw_hci_transport.c` |
| `ZwPoll` | the poll facility, with the mutex order of node removal | `src/zw_poll.c`, `util_list_rm`, `zwnode_rm` |
| `ZwSecTx` | the transmitting side of the security layer | `src/zw_sec_layer.c` |
| `SecTxService` | abstract specification of `zwsec_send` | what `ZwSecTx` implements |
| `ZwSecRx` | internal nonces and received messages | `src/zw_sec_layer.c`, `appl_cmd_hdlr` |
| `ZwSecIncl` | both sides of secure inclusion over a radio | `src/zw_sec_layer.c` |
| `ZwNetOp` | network operations and their abort | `src/zw_api_network.c` |
| `NetOpService` | abstract specification of network operations | what `ZwNetOp` implements |
| `ZwNodeInfo` | the machines of the interview | `src/zw_api_network.c` |
| `ZwExec` | the two command queues of a node | `src/zw_api_base.c` |
| `IfCall`, `IfHome`, `IfAdmin`, `IfClimate`, `IfTables` | the `zwif_` functions as sequences of library calls, and the tables they use | `src/zw_api_intf.c`, `src/zw_api_base.c` |
| `ZwIntf` | their steps interleaved with answers, the callback thread and a removal | `src/zw_api_base.c` |
| `ZwCodec` | values written into commands and read from reports | `src/zw_api_intf.c`, `src/zw_api_base.c` |
| `ZwReports` | answers that come in several reports | `src/zw_api_base.c` |
| `ZwNodeDb` | what is known of the nodes | `src/zw_api_network.c` |
| `ZwStore` | the node file: save, load, crash and restart | `src/zw_api_util.c` |
| `ZwServer` | the controller as other nodes see it | `src/zw_api_network.c` |
| `ZwFirmware` | the firmware update of a node | `src/zw_api_intf.c`, `src/zw_api_base.c` |
| `ZwJobs` | the execution thread | `src/zw_api_network.c` |
| `ZwLife` | start and end of the library | `src/zw_api_network.c` and others |
| `ZwParts` | the nine modules from `ZwIntf` to `ZwLife`, `HciCommands` and `HciFrameRx`, one in each behaviour | |
| `MC...` | instances for TLC | |
| `HciSessionProofs`, `HciApplProofs` | theorems about the frame and session layers, and the application layer | |
| `ZwQueueProofs` | theorems about `ZwPoll` and `ZwExec` | |
| `ZwSecProofs`, `ZwSecRxProofs` | theorems about `ZwSecTx` and `ZwSecIncl`, and `ZwSecRx` | |
| `ZwNetOpProofs` | theorems about `ZwNetOp` | |
| `ZwPartsProofs` | theorems about `ZwLife`, `ZwJobs`, `ZwServer`, `HciCommands`, `ZwReports`, `ZwCodec` as parts of `ZwParts` | |
| `ZwCallsProofs` | theorems about `ZwFirmware`, `ZwIntf`, `ZwStore` as parts of `ZwParts` | |

`HciSession` contains the frame layer.  Everywhere else a layer sees the one below
as its promise: `HciAppl` the session layer as `CommandService`, the security,
network and command class modules the application layer as "no second call
before the status of the first, one status for each accepted call".  The parts
in `ZwParts` share no variables: each protects its state by its own use of
`nw->mtx`, and what one does to another is an action of the other's environment
(a removed node in `ZwIntf`, a network operation in `ZwJobs`).

In all modules a critical section is one step (the mutexes are recursive, so a
nested call is part of it), an unlocked read or a release in between begins
another, and a timer that has expired is a thread that still waits for the lock.

### TimerService

A layer keeps one handle per purpose and a handle always names a timer with the
same callback, so a running timer is `[cb, named, left]`: the callback, whether
the handle still holds its identifier, the ticks left.  `TmrStop` removes the
named timer only; `TmrForget` is an assignment to a handle without a stop.

### HciFrame

`FrmDatFrmSnd` is the caller's critical section with its four results.  `RxAck`,
`RxNak`, `RxCan` are `frm_sta_machine` in `FRAME_STATE_IDLE`; `frm_resend` is in
`RxNak` and `RxCan` with its give-up path `GiveUp`.  `SndTmout` and `ResndTmr`
are the two timer callbacks.  `Tick` and `Expire` are the tick and check threads;
between `Expire` and the callback a thread exists that has not locked `wr_mtx`
yet (`cb_thrds`), which is where the late timeouts come from.  A verdict is
reported after the lock is left, so it is a step of its own (`rd_sts` for the
read thread, `thrd_sts` for callback threads).  The controller and the line are
unconstrained: any of the three bytes may arrive at any time.

Failures are the constant `MayFail`: a full or unallocated write request, a send
or resend timer that does not start, a response timer, memory for a response, a
callback thread.  `tx_cnt` only observes.

### HciSession and CommandService

`SsnCmdSnd` and `SsnCmdSent` are the two halves of the critical section of
`ssn_cmd_snd` (bytes can be received in between, state machine events cannot);
`WaitSts`, `ReadSts`, `WaitResp`, `ReadRespSts`, `TakeResp` are what follows,
one step per unlocked read.  `SndFrmSts`, `RxRes`, `RespTmout` are the events of
the state machine; `RxCallback`, `RxUnsolicited`, `CbThrd` the callback path.
A caller in `Unserialised` is one that does not hold `snd_mtx`:
`zw_send_data_abort`.  The controller answers with any response identifier and
calls back only what it acknowledged; a function identifier is assumed to be
unused by the controller when it comes round again.

`CommandService` is the promise: a command is begun or refused, ends with one
outcome, a response is returned only if it was heard since the begin, and the
begun command does end.  The mapping renames `cmd` to `active`; `heard` and `ret`
are observations kept in `HciSession`.

### HciAppl

One action per step of a command function around `appl_wait_to_snd`:
`ApplCall`, `WaitTimeout`, `Recheck`, then the session's answer `SsnResponse` or
`SsnError`, then `Accept` or `Fail`.  `NmCb` is `zw_nm_cb` in the read thread,
with the queueing that follows it in `ssn_rx_frm_cb`; `CbThrd` runs the
completion function; `TmoutCb` is either timeout.  Time is abstracted: a running
timer may expire at any moment.  The session layer is its promise: it ends with
a response, which needs a free read thread, or with an error.  A command may be
called back only after the session call has ended, or failed in a way that
leaves the controller with the command.

### HciCommands

Each of the 41 functions that send a command is a record of what tells it from
the others: which waiting flag it sets (`gate`), whether it takes `snd_mtx`, whether
its command is on the heap, who reads its callback frames (`cb`), whether a
parameter goes to `cb_map` (`prm`), what is kept for the timeout (`kept`), and how its
response is read (`resp`).  `Enter` is a function up to `ssn_cmd_snd`, `Send` and `Finish`
the two halves of that call with what follows it, `CallbackFrame` and
`UnsolicitedFrame` the read thread with the callback thread's part, `Timeout` the two
timeout callbacks.  The wait at the gate and its frames are in `HciAppl` and
`HciSession`; here a caller waits by not being enabled.  A completion function is
the number of its call, so that `ToldTrue` can compare what is run with what was
given.  `zw_assign_suc_return_route` and `zw_delete_suc_return_route` keep no
parameter for the timeout (a finding), and `ToldTrue` excepts them.  Nor does it say
that the timeout runs the function of the call whose time is up, which the code
does not do either (a finding of `HciAppl`).

### HciFrameRx

`frm_buf` is the automaton's buffer from the SOF on, and its length stands for
`frm_sta` and `frm_offset`; `Idle`, `FoundDataFrame`, `FoundLength` and `WaitCompleteFrame`
are the cases of `frm_sta_machine`.  The chip sends a frame until it is acknowledged, at
most `MaxTries` times, with its own acknowledgements at any time in between, and
its next frame after that.  `Lose` takes a byte from the line; an answer of
the host is lost in `tpt_wr_thrd`, when its request could not be queued or written.
`up` is what was handed up since the chip took up `msg`, `taken` the
acknowledgements the sending side was told of.

The instance lets the read timeout come (`TmoutCb`, as under Windows) but forces
nobody to wait for it, so its behaviours include those of Linux, where it never
does; there the SOF of the frame sent again ends what a truncated frame began.
`HeardAsSent` holds for messages without a byte that can be mistaken for
another: it fails with `<< 0, 4, 1 >>` and with `<< 0, 4, 9, 12, 8 >>` (see the
findings), and with two bytes lost (`MaxErrors = 2`).

### ZwPoll

`poll_lst` is the linked list, an entry of it `[req, handle, cnt_left, left]`
with `left` the ticks until its `next_poll_tm` (a time that has passed is 0, as
`zwpoll_tmr_exp_chk` has it).  `ChkThrd` is one round of the check thread:
`StartPos` is its search for a starting point, `Visited` and `FirstDue` its walk
round the queue.  `RptChk` is `zwpoll_rpt_chk` for the awaited report, `TxCb` the
transmit status.  `zwpoll_cmd_send` is cut in two at its call of `zwif_exec_ex`:
`BeginSend` is part of the caller's step and leaves `poll_mtx` taken, `EndSend` is
the call, which needs `nw->mtx`, and what follows.  `Add`, `RmMul` and
`ZwpollNodeRm` are critical sections; `Rm` and `RmLocked` are `util_list_rm`
before and after its lock; `ZwnodeRm` takes `nw->mtx`, which is kept until
`ZwpollNodeRm`.  The transmission ends in any way and its status and report may
come at any time or never.

### ZwSecTx and SecTxService

`zwsec_send` is the caller, `CbThread` the callback thread with the statuses and
commands it has in order (`cb_q`), `TmoutThreads` the threads of expired timers.
`zwsec_tx_sm` is split into its events as the source has them; between
`zwsec_enonce_put` and the state machine `sec_mtx` is released, so the report
handler is two steps (`rpt_hdlr`).  A nonce is identified by the request it was
made for; a cipher nobody else can build is a term.  `SecTxService` promises one
report for each accepted message, in order; its `line` is the message in hand
followed by the queue.

Left out: completion functions that send again from inside the callback, and a
failed allocation of a queue entry other than as a refused send.  What the code
does and the service does not forbid: a repeated report may fail a message that
waits for another nonce, and a stale timeout may fail the next message.

### ZwSecRx

The internal nonce table is cleaned by the timer thread slot by slot without
`sec_mtx` (`clean_up_idx`, two steps for a slot), looked up by the callback thread
(`rx_pc`), and written by whoever sends (`SppTxGen`).  `tmr_tick` is taken modulo
`TICK_MOD`, `util_tmr_exp_chk` with its window.  A peer sends whole messages and
split ones, numbered modulo `SEQ_MOD`; frames are lost, repeated and overtaken;
a message not split needs no nonce when the peer is not secure.  `SplitPaired`
assumes fewer than `SEQ_MOD` messages in a row are lost, as the number of `MaxMsgs`
gives; `PrmMayFail` adds the failed allocation of a nonce report.

### ZwSecIncl

One action per state of `zwsec_add_node_sm` and of `zwsec_incd_node_sm`, each with
the guard on the sender and the key; the two run against each other over `air`.
A timer is `none`, a delay or a time limit; `add_late` counts, for each of the two
of the adding side, the callbacks of expired ones that wait for `sec_mtx`, and
`incd_late` those of the added side.  A callback of the delay that comes late
is not stopped by the state: it tells the waiting user an error and leaves the
machine as it is.  `OkMeansVerified` holds with any number of late calls;
`InclusionEnds` is about inclusions that begin with none.  A key is `none`, the zero key, or
the network key.  Encrypted commands of an earlier inclusion are gone when the
next begins, since their nonces are; repeated plain ones are not.  `Schemes` with
`bad` stands for nodes of other makes.

### ZwNetOp and NetOpService

`net` is what `nw->mtx` protects: `curr_op`, the state of the interview and of the
update, the job and the timer.  `chip` is the controller chip's part of an
operation and `cbs` its reports; `Add`, `Fail`, `Initiate`, `Reset`, `Migrate`,
`SendNif`, `BeginNodeUpdate`, `UpdateCheck` and `BeginUpdate` begin operations,
`UserAbort` is `zwnet_abort` with its parts for every operation, and
`Interviewed` is an interview as `ZwNodeInfo` promises it.  `NetOpService` says
that an operation begins when none is in progress, ends, and is told once.
What contradicts that is a constant: `Races` (a callback, a timeout, the progress
notification meeting an abort; `zwnet_update`'s check without the lock) and
`Fails`, and operations whose abort leaves something behind are not in
`Abortable` of the instance (see the findings for each).  `zwnet_assign`'s
operation is commented out in the source; firmware updates of the chip are
left out.

### ZwNodeInfo

`ni`, `eps` and `sep` are the states of the three machines, `of` the node
the questions go to, `rd` the nodes done, `tmr` whose timer `sm_tmr_ctx` is.
`Start`, `NiReport`, `SepReport`, `EpReport` and `Tmout` are the handlers,
`Resume` what follows the notification of the progress, `Stop` the abort.  Whether a question
can be put is left to chance.  A saved end point may be gone when it is used.
A report that the code takes whatever was asked last is taken here too: the number of end
points and the capability of any (`EpNumReport`, `EpCapReport`), the instances of any
class, the last version, the name; each asks again and starts the timer anew (`Asks`).
`turn` changes with each start, so that a timer is told from the one before it.
Reports the code ignores (another class's version, an AV report it has) are left out.
Callbacks of timers that have already expired (`Races` of `ZwNetOp`) and timers
that do not start are left out; `Races` adds what meets the notification of the
progress, `Partial` group information in several reports.

### ZwExec

`ApiExec`, `LibExec` and `PollExec` are `zwif_exec_ex` for its three kinds of
callers: with the number `zwif_cmd_id_set` left in the node, without, and for a
poll.  `wait_cmd_q` and `mul_cmd_q` are the two queues, `wait_q_thrd` and
`cmd_q_thrd` the two threads with what they hold.  A transmission is one step
with its result and its status comes later (`air`).  Left out:
WAKE_UP_NO_MORE_INFORMATION, which the queue thread sends, and failing memory and
timers.  A node is removed only when no timer callback waits for the lock.  An
unsolicited report may come before the transmit status and leave a timer
running without a wait; that is modelled, and harmless to the properties.

### IfCall, IfHome, IfAdmin, IfClimate, IfTables and ZwIntf

A `zwif_` function is the sequence of library calls it makes until the first
that fails: `Rpt` (`zwif_set_report`), `Id` (`zwif_cmd_id_set`), `Send`, `GetRpt`,
`GetRptPoll`, `Cached`.  The three modules give every function that way,
with its checks of class, version and values; `IfTables` are
`cmd_get_resp_tbl` and the reports of each class.  `ZwIntf` interleaves the steps of two
threads with the node's answers, the callback thread and the node's removal.
The interface is chosen at the start.  Adding a callback request and posting its
semaphore is one step.  `cmd_q` says whether the node's commands are queued: a command
that is queued takes the identifier `zwif_cmd_id_set` has left with the node, of
whichever thread it is, and one that is sent at once leaves it there (`Queued`,
`SentAtOnce` of `Sends`).  `SwitchesQueue` turns queueing on and off.  A callback is not
told from another for the same report, so a thread that registers its own in between
is not seen.  `Faults` has what the code gets wrong: `late` (a function returns after
`zwif_cmd_id_set`), `alloc` (an allocation fails after it) and `switch` (queueing is
turned on with an identifier still there that a command sent at once has left; without
it that happens only while the next call is about to send, which takes it).

### ZwCodec and ZwReports

`ZwCodec` sets a value and lets the node report what it has stored: `...Bytes` are
the parameters of the set, `...Read` the handler's reading of the report, with
signs, sizes, scales, bit masks and reserved values.  What a node stores is
external: what it was told.  Each function has an action, whose guard is the range
of the values it lets through (`Levels`, `Setpoints`, `Clocks`...) as far as their
parts fit the command's fields.  What the application may ask for is the constant
`Settable`; the instance asks for the ends of the ranges and for values a step beyond.

`ZwReports` are the answers that come in parts, which the handler puts together in
one place of the network for each kind: groups, secure classes, AV commands,
wake-up, meter.  `Overlap` (a second question meets the first answer), `Again` (a
report comes twice) and `Fails` (an answer that is given up) say which kinds
are exposed to what; those not listed in the instance are the ones for which the
code goes wrong (see the findings).  An answer has up to three reports, but no more
than two for wake-up and just two for the meter (`ReportsAssumption`), as their
commands have it.  The interface keeps a node's wake-up capabilities (`known`): a later
answer is whole without its second report.

### ZwNodeDb and ZwStore

`db` is the list of nodes with end points and interfaces; `NodeInfoReceived`,
`NewIdAssigned`, `SecSupReport`, `MultiInstanceReport`, `EpNumReport` and
`EpCapReport` are the handlers that change it.  A node may become something else
between any two (`Becomes`).  Versions are left out; a node that goes back to the
first version of the multi channel class could get an end point twice.

`ZwStore` writes the tags of network and key when it empties the file (`SaveBegins`),
then one tag a step (`SaveWrites`): `rest` is the nodes left and the place (node, end
point, interface) of the next tag, and `Onward` goes from a place to the next as the
nested loops of `zwutl_ni_save` do.  It closes the file with the checksum (`SaveEnds`) and
may fail or stop in between (`SaveFails`, `Stops`).  `Loads` looks at the checksum;
`LoadTag` takes one tag in the file's order as `zwutl_ni_load` does, with `rdr` for the
place in the file and the node and end point that `curr_node` and `curr_ep` stand for,
until `LoadEnds` or `LoadFails`.  A checksum is a mark of a file written to its end.  Files
of earlier versions (`OldFiles`) have the same tags in the same order.

### ZwServer, ZwFirmware, ZwJobs, ZwLife

`ZwServer` takes a frame, drops or refuses it, and handles its commands one by one;
`PowerSet` and `PowerTimed` are the two halves of a power level command around
the radio's answer, `SecondPasses`, `TickCounts` and `TickRestores` its timer,
`TestNodeSet` and `TestFrameStatus` the link test.  Secure commands are in
`ZwSecRx` and `ZwSecIncl`.  `PowerFaults`: a test `frame` not accepted, a failing
`power` command, `overlap` of two tests, a `lost` status.

`ZwFirmware` has the request (`FwUpdtReq`), the callback thread's handlers
(`Takes...`) and the node.  The node's information is asked once, before the first
update.  `FwFaults`: a `second` request during a transfer, and a file so `long` that
the last number a question of the node covers does not fit into the field it
is sent in; without `long` the assumption on the files excludes that.

`ZwJobs` is one request at a time from the queue: `Takes`, then what its action
does, or back to the queue.  `JobFaults`: a refused `send`, a restarting node that
is `removed`.

`ZwLife` goes through the nineteen steps of `zwnet_init` and the unwinding of each,
then through `zwnet_exit` with the five threads' flags and semaphores.  The first
thirteen acquisitions are one step, since nothing else runs yet.  `LifeFaults`: a
thread that begins `late` or is too `slow`, a `frame` or the use of `secure`
functions during the end, and the callback thread told to end with a request `taken`
from the list, which it then drops without freeing it (`Dropped`); the execution thread
frees its own.

## 3. Runs

| Run | Module | Question |
|---|---|---|
| `frame` | `HciFrame` | Is an outstanding frame always timed, is no timer orphaned, with failing writes and timers? |
| `session_service` | `MCHciSession` | Does the session layer over the frame layer implement `CommandService` with its liveness, and is nothing left over for the next command? |
| `session_callbacks` | `MCHciSession` | Are callbacks routed right while identifiers wrap? |
| `appl` | `HciAppl` | Is the timer that of the wait, does every wait end and every accepted call complete? |
| `poll` | `MCZwPoll` | Does the entry being sent stay in the queue, and does polling go on? |
| `sec_tx` | `MCZwSecTx` | Does `zwsec_send` implement `SecTxService`, is what is reported as sent sent, and no nonce used twice? |
| `sec_rx` | `ZwSecRx` | Is a nonce accepted once and reclaimed in time, and are split messages put together from their own parts? |
| `sec_incl` | `ZwSecIncl` | Does success mean that the key was verified, and does every inclusion end? |
| `net_op` | `ZwNetOp` | Does nothing run on after its operation, and do operations implement `NetOpService`? |
| `node_info` | `ZwNodeInfo` | Does every interview end, whatever the nodes answer, unless their reports take it back for ever? |
| `exec` | `MCZwExec` | Is each command in one place, and has every wait for a report something that ends it? |
| `parts` | `MCZwParts` | The properties of the eleven modules of `ZwParts`, each on its own behaviours. |

All hold.  What each property says is in the comment above it; the runs check those
that take several steps or several actors to break, not the type
invariants, which the proofs need and which were checked while the models were
written.  The same instances also satisfy `FrameReleased`, `ReadThreadServes`,
`WaitQDrains` and the interview's `TimerOfTheWait`, which stay in the modules without
a run; `RestsEmpty`, `WaitIsTimed` and `ExpiryIsDue` have theorems (section 4).

What comments and documents say and the code does *not* do is listed under
"findings" in `PROJECT.json`, each with its quotation.  Where a formula says
it, it stands at the end of its module under a heading of its own, and TLC
refutes it on the instance above; `OpEnds` with `RP_NODE` added to `Abortable`,
`NonceFound` with `MaxNonces` at 5.  This last one holds on every smaller instance and
was taken for a property until its proof failed: the clean-up may give a slot back
after its nonce was drawn and before the nonce is reported, and the report makes the
slot live again, beside another that has the same first byte by then.
The other findings show as a violation of a property above when the constant
that stands for the fault is given: `Unserialised = {a}` breaks `NeverOutOfSync`,
`ApplFairSpec` (a controller that need not call back) `WaitEnds` of `HciAppl`, each
member of `Races` and `Fails` `ImplementsNetOp`, `Races` and `Partial` `JobEnds`, and each
fault of `ZwParts` a property of its module (`Faults` `IdIsTaken`; `PowerFaults`
`LowPowerEnds` or, for `overlap`, `TestReportTrue`; `FwFaults` `ImageIsFile`, for `long`
with `MaxNum` at 3: a question that an update of a longer file left behind reaches
beyond the field, and its number comes round as a small one with the mark of the last; `JobFaults` `ResetIsFollowed`; other `Messages` and a larger
`MaxErrors` `HeardAsSent`; `LifeFaults` `UsedWhileThere` or, for `frame` and `taken`, `NothingLeft`).
`JobAlwaysEnds` of `ZwNodeInfo` fails as it stands: a node that reports the same end point
before each timeout is asked for the next one for ever.

**Bounds.**  `frame`: two frames (one can be mistaken for the other, a third adds
nothing because only one is ever outstanding), two resends, the ratio of the real
timeouts at 500 ms per tick, two callback threads in flight.  `session_service`:
two callers, commands with and without response, one resend, timeouts of two,
one and three ticks (the send timer runs out before the response timer, the
resend delay before both), two callback threads.  `session_callbacks`: one
caller, identifiers 1 and 2 so that they wrap, one queued callback.  `appl`: two
callers and three calls, so that one waits while another sends and a late
timeout meets the two commands after its own; two timeout threads.
`poll`: up to three requests queued over a run (a fourth handle would be the wrap
of `handle_gen`, which is excluded), from two nodes, unlimited, once and twice,
with intervals below, at and above `MIN_POLL_TIME`; `MIN_POLL_TIME` is 2 ticks and
`CHECK_EXPIRY_INTERVAL` 1 instead of 20 and 2, which keeps their order; one
transmission whose status is to come while the next poll is sent, one tick of
transmission time, one event in `tmr_sem` (a second only repeats a round).  Three
requests are enough for a round that starts after a removed entry and for two
requests of one node against one of another.
`sec_tx`: a message of two frames and one of one frame to the same node, one that is
too long to another, a queue of one, every call failing; three sendable messages
without failures were checked too (2.4 million states).  `sec_rx`: two nodes of
which one sends, two slots, two first bytes, three nonces, two frames on the way,
two messages, sequence numbers and ticks that wrap.  `sec_incl`: two inclusions, so
that what is left of the first meets the second, and two callbacks of one timer
that wait at once (`MaxLate`).  `net_op`: three operations (one
aborted, one that meets its remains, one more), two nodes, one retry.
`node_info`: three nodes, three end points, three items, two jobs.  `exec`: two
GETs, a SET, every kind of node, multi commands of two, three commands, one
change of settings.  `parts`: two threads (symmetric; the run checks safety only),
one open question, two posts; four changes of a node that may be of four kinds;
three reports in an answer and three questions; three changes of what is saved, two
keys; every question a node may ask, tests of one frame and of two; files of
three and two pieces, three fragment sizes, two updates, one retry, and questions for up to three
fragments, which reach beyond the end of the file but not beyond the field of the
number (`MaxNum` 4 instead of 0x7FFF); two probes,
three requests, two nodes; two busy threads; two threads with two commands and one
identifier, so that it comes round while the first command's callback is still
to come; three messages of the chip, of one data byte, two and none, each sent
three times at most, two acknowledgements of its own, one byte or answer lost.

Deadlock is checked in `frame`, `session_service`, `session_callbacks` and `poll`.  In
the others the calls, messages or operations are numbered and come to an end.

**Fairness.**  Weak fairness of every thread that the code lets run: the tick and
check threads and the threads they create, the read thread once it has begun a
byte, a caller inside a call.  None of a byte's arrival, of a node's answer, of the
application's calls.  Weak fairness is enough on mutexes because the number of
calls is bounded; starvation on a mutex by an unbounded series of callers is not
examined.  `ReliableSpec` (`appl`) adds a controller that calls back what it
accepted.  `PollFairness`: tick, check thread, a send and a node removal.
`SecTxFairness`: the callback thread, the timer's expiry, the threads of the
timers, and the status frame that the application layer promises for every
accepted call (its own timeout stands in for a lost one).  `SecInclFairSpec`: only
timers and their callbacks, so an inclusion ends even when no command arrives.
`NetOpFairSpec`: the chip reports what it has begun, the callback thread, secure
inclusion and the timers; strong fairness of the end of an interview, because
the job of an update returns to the same state while it waits between nodes
(`JobEnds` of `ZwNodeInfo` is the reason it may be assumed, of nodes whose reports do not
take the interview back for ever).  `NodeInfoFairSpec`: the return of a notification, and
of the timer that it expires unless it is started again, which is weak fairness of `Tmout`
for each value of `turn`: a report before each timeout may put it off for ever.  No node
needs to answer.  `JobEnds` supposes that from some time on no report puts a question
again that its wait has put already (`GoesBack`); every other report and every timeout
must bring the job nearer to its end.

## 4. Theorems

All are for every value of the constants under the assumptions on them
(`FrameAssumption`, `SessionAssumption`, `ApplAssumption`, `PollAssumption`,
`SecTxAssumption`, `SecRxAssumption`, `SecInclAssumption`, `ExecAssumption`,
`NetOpAssumption`, `PartsAssumption` with those of its parts: the kinds and ranges of
their values, which TLC evaluates on each run), checked by TLAPS.  A theorem
that needs more says so in its `ASSUME`; the table repeats it.

| Theorem | Says |
|---|---|
| `FrmTypeCorrect`, `FrmNoOrphanTimer` | type correctness; every running timer is named by its handle |
| `FrmOutstandingIsTimed` | an outstanding frame has its send timer running or its timeout under way, provided threads can be created (`"thrd_create" \notin MayFail`) |
| `SsnTypeCorrect`, `SsnNoOrphanTimer` | the same for session over frame layer, any callers |
| `SsnVerdictComes` | in `COMMAND_SENT` the verdict is on its way |
| `SsnCallbackRouted` | a queued callback has the function of its own command |
| `SsnNoLeftOver`, `SsnNeverOutOfSync` | with `Unserialised = {}`: nothing is left on the semaphores; no call ends out of sync |
| `SsnImplementsService` | with `Unserialised = {}`: initial states and steps of the session layer are those of `CommandService` |
| `ApplTypeCorrect`, `ApplTimerOfTheWait` | type correctness; at most one flag is set and a running timer is that flag's |
| `PollTypeCorrect`, `PollQueueSorted`, `PollHandlesUnique`, `PollEntryInUse` | type correctness; the poll queue is sorted by node and its handles are unique until `handle_gen` wraps; the entry being sent stays in the queue |
| `SecTxTypesHold`, `RestIsEmpty`, `NonceWaitIsTimed` | type correctness; at rest the queue is empty and no timer runs; the wait for a nonce has something that ends it |
| `OkMessagesAreSent`, `NoncesAreUsedOnce` | a message reported as transmitted had every frame of it sent under its key; no nonce encrypts two frames |
| `SecTxImplementsService` | initial states and steps of the secure transmission are those of `SecTxService` |
| `SecRxTypesHold`, `NoncesAreAcceptedOnce` | type correctness; no internal nonce decrypts two frames |
| `ExpiryIsRight`, `NoncesAreReclaimed` | the wrapping comparison of ticks tells a nonce's age; no live nonce is older than its life and one period of the clean-up |
| `PartsArePairedOrFar`, `PartsArePaired` | two parts put together are of one message, or of two that are `SEQ_MOD` or more apart; of one message if `MaxMsgs <= SEQ_MOD` |
| `SecInclInvHolds`, `SecInclTypesHold` | the invariant below; type correctness of both sides of secure inclusion |
| `OkIsVerified` | a side that is told 0 has to do with a node that proved its key in this inclusion and has it still |
| `ExecInvHolds`, `ExecTypesHold` | the invariant below; type correctness |
| `CommandsAreInOnePlace` | with `"ctl_on" \notin Races`: each command taken on is in one place until it is done with |
| `EveryWaitEnds` | with `Races \subseteq {"cmd_num"}`: a wait for a report has something that ends it |
| `NetOpInvHolds`, `NetOpTypesHold` | with `Undisturbed`: the invariant below; type correctness |
| `NothingRunsOn` | with `Undisturbed`: what goes on is for the operation that `curr_op` names |
| `ServesOperations` | with `Undisturbed`: initial states and steps of the network operations are those of `NetOpService` |
| `NothingIsLeft` | with neither `frame` nor `taken` in `LifeFaults`: after a failed start, and after the end, nothing is left |
| `WhatIsUsedIsThere` | with none of `late`, `slow`, `secure` in `LifeFaults`: no thread uses what has been taken down |
| `ResetsAreFollowed` | with `JobFaults = {}`: one request follows each reset and each restart that is waited for |
| `LowPowerIsEnded` | with `PowerFaults \subseteq {"overlap"}`: something will turn up again a radio that was turned down for a time |
| `TestsReportTrue` | with `"overlap" \notin PowerFaults` and `OneTestEach` (no frame asks for two tests at once): a test's report tells what was counted for it |
| `ToldIsTrue` | a completion function is run with its own parameter; 0 is returned only of commands the chip took |
| `AnswersAreWhole` | with `OneAnswer` (no question meets an earlier answer; what comes again or fails is as in the instance): the answer a callback is given is whole, and of the node that was asked |
| `SettingsAreHeard` | what a function lets through is what the report handler reads out of the node's report of it |
| `ImageIsTheFile` | with `FwFaults = {}`: the image a node has loaded is the file it was asked to load |
| `TransferGoesOn` | with `FwFaults = {}` and no file that has more fragments than `MaxNum`: a transfer does not come to rest while the node waits for a fragment, unless a frame was lost |
| `IdentifierIsTaken` | with `Faults = {}`: with no call under way, a node whose commands are queued has no identifier left for a command of the library's own to be queued under |
| `AnswerIsHeard` | the report that answers a call's question is one the call registered for, and still has its callback |
| `LoadedWasSaved` | a node file that is loaded is one whose save came to its end, and all of it: the key, the lifeline's node, and what is kept of every node still there |
| `QueuedAreTold` | the callback thread does not sleep on a call that was answered with `ZW_ERR_QUEUED` |

The arguments:

- **Frame layer.**  `NoOrphanTimer` is inductive only with at most one timer per
  handle, because a start that overwrites a handle orphans what it named.  For
  a frame the send timer is stopped only by a step that frees the frame or
  starts it again; before a send, no send timer runs.
- **Session layer.**  At most one caller is inside (`OneInside`, from
  `snd_mtx`), and its program counter determines the state of the machine, the
  two semaphores and the two status fields up to the few combinations of
  `Inside`.  So the unlocked reads see final values.  This is what
  `zw_send_data_abort` breaks.  Routing rests on a second invariant relating
  `cb_map`, the outstanding frame and the controller's pending callbacks by
  function identifier.
- **Application layer.**  `CmdInv` and `OwnerInv` say which command each caller
  has and that the holder of the mutex is alone; a caller inside the session
  has both flags clear, hence no timer runs when it starts one.
- **Polling.**  The invariant adds that no entry has a handle that is still to
  come.  Each removal is shown to leave a subsequence (`SubQueue`), which keeps
  order and uniqueness, each addition to go between the lower and the higher
  nodes (`InsertInv`).  While `poll_mtx` is kept no step moves an entry, hence
  the pointer stays good.
- **Secure transmission.**  `SmInv` relates the state of the machine to its two
  buffers and to what was sent: a second frame, or a message that a timeout left in a
  buffer, is overwritten before it could count as part of the current message.
  `NonceInv` follows a nonce from its maker through the callback thread's queue
  to the stored nonce and the frame: of the nonces in the queue only the first
  can be the stored one, and a stored nonce has encrypted nothing.  So a report
  that is repeated, or comes after a retry, brings nothing that was used.
  Nothing is assumed of failing calls or late timers.
- **Nonce table and split messages.**  `TimeInv` relates the expiry tick of a slot,
  which wraps, to the nonce's age, and bounds the age at each moment of the clean-up,
  within which the wrapping comparison is right.  `UseInv` follows a nonce through
  the unlocked steps of the callback thread: the slot it works with may be given
  back and taken again, but a nonce that is held unused stays unused.  `SplitInv` compares
  the sequence numbers of any two messages of a node, wherever their parts are;
  they differ within `SEQ_MOD` messages only, hence the hypothesis of `PartsArePaired`
  and the theorem before it, which needs none.
- **Command queues.**  `PlacesInv`: no command is twice in a queue, the places are
  disjoint, and they hold the commands taken on.  `zwnode_mul_cmd_ctl_set` with commands
  queued loses them (a finding), which is the first hypothesis.  `WaitInv` adds what a
  node that no beam wakes can not have.  A user who cancels a queued GET, or drops it
  in this way, takes away what would have ended the wait, which is the second.
- **Network operations.**  `InOneStage`: an operation is in one of nine stages, from
  the chip over its report and secure inclusion to the interview, and the stage
  says what the machines, timers and threads outside it hold, which is nothing except
  the timer of a replaced node.  What a handler comes to is shown to be in
  a stage again (`Somewhere`) before the steps are.  `Accounts`: of an operation the ends
  owed are one if it runs, and those about to be told; so a step that tells
  nobody and adds to `telling` begins no operation, which is the refinement for all
  handlers at once.  `Undisturbed` is `Races = {}`, no failed migration and the abort
  only of operations of which `zwnet_abort` leaves nothing running: each of the
  others breaks `NetOpService` (findings).
- **Secure inclusion.**  An inclusion begins with a node at rest and with nothing
  encrypted on the air (`AddStart`: the nonces of what was sent before are gone), so what
  is said with the network key comes from a node that was given it in this inclusion
  (`KeyInv`), and that keeps it until the next.  The adding side asks a node to inherit the
  scheme only after it was shown the key (`InheritInv`); a late callback may move a
  machine, but not past the state that waits for that proof.
- **Start and end.**  What a step of the end gives back is not acquired again
  (`GivenBack`): after the queues were emptied only the execution thread gets any, and
  nobody after the chip's interface is closed.  A thread that is told to end has a
  token to wake it and a flag it reads then (`Told`), so the wait for it ends with the
  thread.  The excluded faults are those with findings: a thread that has not begun to
  run, one the wait gives up on, a frame after the queues were emptied, a secure send
  after `zwsec_exit`; and for `NothingIsLeft` the request in the callback thread's hands.
- **Own work.**  A node that resets itself, and a restart that is waited for, is
  followed by one request, which is in the queue, in the thread's hand, or a probe
  under way (`Carried`), and one node is in one of the two at a time.  The faults are the findings
  about refused sends and removed nodes.
- **Power and link tests.**  Whoever turned the radio down for a time has left what
  turns it up: the half of the set that starts the timer, a timer with seconds left, its
  tick that waits for the chip, or the test under way.  What is counted is counted for
  the one test.
- **Commands.**  A call under way has no result and is one thread's own, so what the
  chip made of a command does not change after it was read.  A completion function is
  entered in `cb_map`, and kept for the timeout, in one critical section with its
  parameter.  No hypothesis: `ToldTrue` itself excepts the functions that keep none.
- **Firmware.**  From the request until the node is done or gives up, the library's
  file and size are those the node was asked to load (`FwInv`): each fragment behind the
  request is a piece of that file, the node has the first `next - 1` of them, and
  no update is told done meanwhile, which would take the file away.  The bound on
  questions in `FirmwareAssumption` keeps a number that comes round from being one
  that a node wants.
- **Transfer.**  `Flows`: while nothing is lost, the node's last question is in the queue
  (`Pending`), or it was answered and what it asked for is sent or will be (`Covered`: the
  fragments under way follow each other from the one the node wants, and while any
  are left to send a fragment or the status of one keeps the library at it).
  `Registers` says that the function to be called with that status is there.  The
  hypothesis on `MaxNum` is the finding about numbers of fragments: a larger one goes out
  as 0, which nobody waits for.
- **Answers in parts.**  Each kind of place has its own account.  Of an association or a
  security answer, the rest is on its way and the place holds what came before
  (`RunOk`); a second report of a wake-up or a meter finds the first of its node
  (`PairOk`); the reports of an AV answer on their way are no further than the one
  awaited, whatever was repeated (`AvOk`).  `OneAnswer` excludes what the findings name.
- **Values.**  One lemma for each kind (`...ComesBack`): what the function lets through is
  what the handler reads out of the bytes, because the parts of a byte do not reach
  into each other and the marks of the unused are none of the values.  The fan's bit
  for "off" before version 3, and the radio part of a protection before version 2, are
  not told, and so not compared (`Told`).
- **Identifiers and answers of calls.**  Every function is shown, class by class, to be a
  sequence in which an identifier is followed by its command, and a question by nothing
  that takes away what was registered for its answer (`CallsGood`).  Then an identifier with a node
  that queues has a call about to send (`IdInv`), not always the one that set it, whose command
  takes it; and what a call registered has its
  callback until the interface is gone (`AskInv`).
- **Node file.**  The tags of a file follow one walk through all the places of what was
  saved (`SavingAlong` while it is written, `TagsOf` then), however many nodes, end points
  and interfaces there are.  When the reader comes to a place, every node is known as far
  as the tags before that place go, and blank otherwise (`KnownAt`, `ReadingAlong`); a
  node the controller does not know is passed over with its end points and interfaces
  (`ReaderAt`).  Only a save that came to its end sets the checksum (`SealedBy`), so a
  stop at any moment of a save leaves a file that is not taken.  Of the constants
  `StoreAssumption` says that an interview, and an old file, has end point 0 first and
  only there, an interface class once at an end point, and that 0 is no node.
- **Queued calls.**  What is untold is among the requests as long as the node is there,
  and with a request there the thread is at work or its semaphore is posted.

The proofs corrected the models in places where TLC's instances were too small to
tell: the callback of secure inclusion's delay was taken to do nothing when it came
late; the numbers of fragments that come round were not seen with questions for two,
nor that a file with more fragments than numbers stops at the last; protection was
told with its radio part whatever the version.

Model-checked only: every liveness property (fairness and `ENABLED` are outside
the prover's reach) and the liveness half of the three refinements; of the parts in
`ZwParts`, `NothingLost`: the lists of end points and of interfaces are gone through by
folds, so that what comes out for every length needs induction over data; and
`HeardAsSent`, which holds of the messages of the instance and not of all (findings of
`HciFrameRx`): which bytes can be mistaken depends on each message, byte by byte.
`JobEnds`, the property of `ZwNodeInfo`, is liveness.

## 5. Not modelled, and why

- Opening, setting up and closing the serial port, and a frame of which only a part is
  written: what the chip makes of the rest is the chip's matter.  `HciFrame` and
  `HciSession` take any frame, repeated or lost, rather than the bytes of `HciFrameRx`.
- Initialisation and shutdown of the host controller interface beyond what
  `ZwLife` sees of them.
- The payload of the commands, where no property tells it apart: `ZwCodec` has the
  values whose encoding is a matter of signs, sizes and reserved values; names,
  texts, keys and version numbers are left out.
- Firmware programming of the chip (`zwnet_flash_prog`, `zwnet_auto_prog`,
  `lib/zw_hci_fl_prog.c`): a sequential dialogue with the stack shut down; its
  mistakes are findings met while reading.
- Cryptographic primitives and random numbers: sequential computation; a nonce
  that is drawn again until its first byte is new is modelled.
- The device database and its parser, the layout of the node file: data.
- Routing queries and other single requests to the chip: a call and its answer.
- WAKE_UP_NO_MORE_INFORMATION, failing memory and failing timers in `ZwExec` and
  `ZwNodeInfo`.
- The wrap of `handle_gen` in the poll facility, which duplicates handles (a
  finding), and timer identifiers, abstracted in `TimerService`.
- The test programs: interaction by hand.

## 6. Plan

1. The lists of `ZwNodeDb`, which are gone through by folds, restated so that the induction
   is over steps, as the file's tags in `ZwStore` are.
2. The tick and check threads with identifiers and 16-bit ticks against unbounded
   ones.
