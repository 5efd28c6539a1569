# Formal models of the pan-tilt servo controller (se_tr_m_1910)

The program sits between an operator and a camera on a pan-tilt platform. It
takes commands from a USB joystick, a serial port and up to a few network
connections, keeps the *mode* of operation (pan-tilt, box selection, manual or
automatic detection of moving targets, scene tracking), tells a second process -
the image process, reached through shared memory and message queues - what to
do, drives the platform, and answers the operator. It is C++ with some ten
threads and hardly a lock outside of the message queue: what goes wrong in it
goes wrong between two threads. That is what the models are about.

Paths below are relative to the repository. `DxTimer.cpp` stands for
`src/DxTimer/src/DxTimer.cpp`, `osa_*.cpp` for `src/OSA_CAP/src/osa_*.cpp`.

Contents: 1 inventory, 2 modules and how they correspond to the code, 3 runs,
4 findings, 5 proofs, 6 bounds and fairness, 7 what is left out, 8 plan.

## 1. Inventory

### 1.1 Threads and what connects them

```
 joystick thread ─┐                       ┌─> State objects ──> image process
 serial thread ───┼─ ComParams + message ─┤        ▲   ▲            │ notifications
 net threads ─────┘   (CMessage, OSA_msgq)│        │   │            ▼
                          DISPATCHER ─────┘  autoMtd  DxTimer    IPC thread
                              │              Mainloop message        │
                              ▼              threads  thread         │
                        ACK_ComParams <──────────────────────────────┘
                              │ m_semHndl / m_semHndl_s
                              ▼
                    thread_comsendEvent ──> serial port, connections
```

| Thread | Created in | Loop |
|---|---|---|
| dispatcher (`MSGAPI_MainThread`) | `CMessage.cpp` | receives a message, calls the registered handler (`EventManager.cpp`) |
| joystick | `js_usb.cpp`, `eventParsing.cpp` | reads a report, compares it with the last one, changes `ComParams`, sends a message |
| serial receiver, accept, one per connection, reclaim | `eventParsing.cpp` | bytes into `parsingframe`, commands into `ComParams`, sends a message |
| answer sender (`thread_comsendEvent`) | `eventParsing.cpp` | waits for an answer, packages and sends it |
| IPC receiver | `ipcProc.cpp` | calls the handler of a notification of the image process |
| timer loop, timer message thread | `DxTimer.cpp` | compares timers with the clock; calls their callbacks |
| 803 receiver | `803uart.cpp` | bytes into its own parser, commands to the image process |
| pan-tilt mover, receiver, zoom server | `PTZ_control.cpp` | sends speeds; takes answers; asks for the zoom position |
| image's display | `EventManager.cpp` (`ipcGst`) | stores errors, resets the platform's filters, stops the unit |
| detached workers | `EventManager.cpp`, `state_AutoMtd.cpp` | `setPlatAngle`, `preposHandle`, `setZoom`, `answerPos`, `answerZoom`, `autoMtdMainloop` |

Shared without a lock: `ComParams` (what was commanded), `ACK_ComParams` (what is
to be answered), the State objects and their `ipcParam`, the timer table
`gDxObj`, the parser's `swap_data`, the table `cfg_value` (which the image process
reads, and writes in one block), the filters of the platform, and `m_pReq`, in which
every request to the pan-tilt unit but a speed is built.

### 1.2 Components

**Message queue** (`osa_msgq.cpp`). *State*: ring of handles `queue`, `curRd`,
`curWr`, `count`, mutex `lock`, conditions `condRd`, `condWr`; the handles are
heap blocks. *Operations*: create, send, receive (a copy, or the block itself,
waiting or not), free, acknowledge, delete. *Used by*: dispatcher, timers, OSA
tasks and mailboxes. *Hard*: several waiters on two conditions, spurious wakeups,
recycled blocks. *Correct when*: it is a FIFO that loses and doubles nothing, no
block is leaked or freed twice, no wakeup is lost, blocked senders get on.

**Software timers** (`DxTimer.cpp`). *State*: `tmReg` (cycle), `tmBegen`, `tmCnt`
per timer, and a status per timer. *Operations*: create, register, start, stop,
reset, status, kill, destroy; the timer loop; the message thread. *Interacts*: with
callbacks, that call back into it. *Hard*: three kinds of threads on one table,
stores seen one at a time, late passes. *Correct when*: a started timer fires, never
early, missed cycles are made up, the status says what is so.

**Answer channel** (`EventManager.cpp`, `eventParsing.cpp`). *State*:
`ACK_ComParams` - link, command id, feedback fields, three queues of configuration
answers - and two semaphores. *Operations*: fill in and signal (dispatcher, IPC
thread, workers); wait, package, send, give the slot back (sender). *Hard*: one slot,
many writers, only some of which ask for it; fields read again after use; early
returns. *Correct when*: each answer leaves once, in order, whole and by the link
its command came from, and the dispatcher is never blocked for good.

**Modes of operation** (`src/state`). *State*: `curState`, `_state`, per object
`ipcParam`, `m_haveobj`, `mtdStatus`, and the timer of a track. *Operations*: mode
changes, detections, track states, axis movements, end of a track, the search
thread. *Hard*: four kinds of threads in one object; a guard flag that never guards;
a test, a wait of 300 ms, then the act. *Correct when*: the image process is told
the mode and the detector state the program believes in; a search is never lost
while its mode lasts and ends when it is left.

**Mode input** (`eventParsing.cpp`, `EventManager.cpp`). *State*: `workmode`,
`capturemode` of `ComParams`, `captureModeBack`. *Operations*: press, command, the
two handlers. *Hard*: a message carries no value, the handler reads the fields late,
one at a time, and writes one of them. *Correct when*: at rest the mode is the one
asked for, and what was reported.

**Joystick** (`js_usb.cpp`, `eventParsing.cpp`). *State*: the last report (`povbak`,
`butbak`, `yBak`), which press is to be undone (two statics `index`), the meaning of
the stick (`Iris_Focus`), and the control fields of `ComParams`. *Operations*: a
report's hat, buttons and stick; the four handlers; a link's zoom command. *Hard*: a
press and its release both *toggle* a field that two other threads store into.
*Correct when*: with everything released nothing runs on.

**Requests** (`eventParsing.cpp`, `CMessage.cpp`, `EventManager.cpp`). *State*:
`comtype` and the fields of `ComParams`, three vectors of configuration requests, the
queue, `m_semHndl_s`, `exist` of the five detached workers. *Operations*: receive,
store, push, send; dispatch, empty a vector, hand on to a worker, answer. *Hard*: the
message is a bare number, what it stands for is read much later; vectors emptied
while they are filled; a guard tested and set in two steps; a handler that sends to
its own queue. *Correct when*: an answer goes to the link that asked and no setting
is left in its vector.

**Frame parser** (`eventParsing.cpp`). *State*: `swap_data`. *Operations*: a read of
any length; a complete frame. *Hard*: frames cut anywhere, noise, one buffer for all
links. *Correct when*: the commands are the good frames.

**Dispatcher** (`CMessage.cpp`). *State*: table of handlers, `tskLoop`, queue.
*Operations*: create, register, send, dispatch, destroy. *Hard*: a handler that
sends to its own full queue; shutdown waits for a flag only the blocked thread
clears. *Correct when*: every message reaches its handler and shutdown ends.

**Network connections** (`eventParsing.cpp`, `src/comm`). *State*: `connetVector`,
`bConnecting`, descriptors. *Operations*: accept, receive, reclaim, send. *Hard*:
a connection is in the vector before it is marked as connected; erase in a loop.
*Correct when*: a live connection is never freed and an answer goes to its own.

**Configuration** (`EventManager.cpp`, `configtable.h`). *State*: the table of 128
blocks of 16 values, the texts of the user OSDs, the profile, a copy of the stick's and
the filter's parameters in the platform control, and what the image process has read.
*Operations*: start, set, set a text, default (one block or all), save, a stored
position, which is saved by a thread of its own. *Hard*: a field has its own form on
the disk (number, float, address as octets, text); the save writes field after field
into the only copy and may be cut off, or meet another save; who is told what
depends on the block. *Correct when*: what was saved is there after a restart, and
image process and platform work with what the table says.

**Optics** (`sensorComp.cpp`). *State*: copies of the settings per kind of optics, the
field of view, the boresight, the zoom position, the input asked for. *Operations*:
set a field, switch the input, the zoom has moved, the image process switches. *Hard*:
three kinds of optics, thirteen levels in tables with two address schemes, and two
threads that refresh the copies. *Correct when*: field of view and boresight are what
the settings give for the input and the zoom, whatever changed in which order.

**Platform control** (`platformControl.cpp`, `platformFilter.cpp`, `deviceUser.cpp`,
`PTZ_speedTransfer.cpp`). *State*: parameters, what the filters remember (`Xc`, `Uc`,
`Ycbuf`), the stick, the demand, the last track state, the speeds. *Operations*: stick
commands, track reports, start and stop of a track, new parameters, and the
interference of the image's display. *Hard*: dead zones and cuts that need not be in
order, numbers at their limits, a reset in the middle of a computation, a stick that
is ignored while a track lasts. *Correct when*: the unit turns where the stick points,
stands when it is centred, and nothing is left of the last track.

**Pan-tilt control** (`PTZ_control.cpp`; at run time `state.cpp:37` puts
`CPTZ_ONVIF`, whose bodies are empty, in its place). *State*: speeds wanted and sent,
the round counter, the request buffer, three waits with flags and two timers, the
expected answer. *Operations*: mover, set speed, stop, go to a position or a zoom, the
queries, receiver, callbacks. *Hard*: one request buffer for all threads, a line that
loses requests, answers and callbacks that come after the wait they were for. *Correct
when*: at rest the unit moves as the speeds say, and every wait has an end, for a
reason.

**Pan-tilt formats** (`pelcoDformat.cpp`, `pelcoPformat.cpp`). *State*: one buffer that
some requests overwrite and others change in part. *Hard*: what is left over.
*Correct when*: a motion is a motion, and only the one asked for.

**803 protocol** (`803uart.cpp`). *State*: its parser's buffer, the tracking time and
the file that keeps it. *Operations*: start, bytes, every command, the errors and
targets that leave. *Hard*: lengths nobody checks, a time file that is missing or too
short. *Correct when*: the image process hears what the good frames say, and an error
can be read back from its frame.

**Image process link** (`ipcProc.cpp`). Every command is sent twice; notifications
come in a thread of their own. **Rest of the OSA library**: semaphores, queues,
buffers, mailboxes, events, tasks. **Serial port, main**: I/O with no logic of their
own.

`PROJECT.json` lists every component with its sources and status, and under
`hazards` each hard behaviour at its line.

## 2. Modules

Each module's variables have the names of the code's fields; variables listed in a
second `VARIABLES` block are history, read by properties only. An action stands for
what one thread does between two points at which another can see or change shared
state: a critical section in `MsgQueue`, one access to a field elsewhere. Operators
named `X_Something` next to an operator `X` are faulty variants of it, with which
the properties were tested for the power to fail.

| Module | Models | Composition |
|---|---|---|
| `BoundedFifo` | what a queue promises: senders with an outbox, a FIFO, receivers that wait or poll | abstract |
| `MsgQueue` | `osa_msgq.cpp` | `INSTANCE BoundedFifo` with a refinement mapping |
| `MsgQueueProofs` | theorems on `MsgQueue`: types, ring, wakeups, owners of blocks, the refinement | extends it |
| `DxTimer` | `DxTimer.cpp` | uses the queue as the FIFO that `BoundedFifo` promises |
| `DxTimerProofs` | theorems on `DxTimer` | extends it |
| `AckChannel` | `ACK_ComParams`, semaphores, sender | - |
| `AckChannelProofs` | theorems on `AckChannel` | extends it |
| `AutoMtd` | `src/state` | takes from `DxTimer` that a running timer elapses |
| `AutoMtdProofs` | theorems on `AutoMtd` | extends it |
| `NetConnections` | accept, receivers, reclaim, sender | takes from `AckChannel` that answers queue |
| `NetConnectionsProofs` | theorems on `NetConnections`: answers, blocks, the list of connections | extends it |
| `ModeInput` | joystick and link keys to a mode | uses the queue as a FIFO |
| `Joystick` | all other keys and the stick, up to zoom, iris, focus, search box | uses the queue as a FIFO |
| `Requests` | commands through `ComParams`, vectors and workers to answers | uses the queue as a FIFO |
| `RequestsProofs` | theorems on `Requests` | extends it |
| `FrameParser` | `parsingframe`, `parsingComEvent` | extends `CheckSum` |
| `Uart803` | the 803 line and its time file | extends `CheckSum` |
| `ConfigTable` | addresses, forms of values, which setting matters to what | operators only |
| `Settings` | table, profile, image process, platform's copy | extends `ConfigTable` |
| `Optics` | `sensorComp.cpp` | extends `ConfigTable` |
| `Platform` | stick and track errors to speeds | its speeds are what `PtzControl` sends |
| `Pelco` | the requests of formats D and P | operators only |
| `PelcoPackets` | one buffer for request after request, both formats | extends `Pelco` |
| `PtzControl` | `CPTZControl` and the unit at the other end | extends `Pelco` |
| `CheckSum` | the exclusive or that ends a frame, of both parsers | operators only |
| `Commands` | `FrameParser`, `Uart803`, `ModeInput`, `Joystick`, `Requests`, `Settings` side by side, and their properties | extends `Requests`, instantiates the others |
| `CommandsProofs` | theorems on `Commands` | extends it and `RequestsProofs` |
| `Motion` | `Optics`, `Platform`, `PtzControl`, `PelcoPackets` side by side, and their properties | extends the first, instantiates the others |
| `MotionProofs` | theorems on `Motion` | extends it |
| other `MC...` | symmetry sets and constant definitions for TLC | extend each |

`Commands` and `Motion` each put several components that share no variable into
one run. The variable `part` names the component a behaviour moves; the variables of
the others stay 0. So the states of the run are the union, not the product, of the
states of its parts, and every property is one part's.

### MsgQueue
`SendMsg` allocates and fills a block before the lock is taken; `SendPut`,
`SendBlock` are the two ways through the critical section of `OSA_msgqSend`;
`RecvMsgEx`, `RecvMsg`, `RecvBlock`, `RecvFail` those of the receive calls.
`pthread_cond_wait` gives up the lock and joins `condRd` or `condWr`;
`pthread_cond_signal` removes any one member; `SpuriousWakeup` removes one with no
signal; a woken thread runs the loop test again among all that contend.
`OSA_memAlloc` may return any block not allocated, so use after free and double
free would show as a wrong message or as a block with two owners.

### DxTimer
Each store and each test of `startTimer`, `stopTimer`, `resetTimer`, `Dx_setTimer`
is an action (`StartTest` ... `SetStop`), and so is each read and store of
`Dx_OnTimer`; `tmCnt[i]++` is a load and a store. `Dispatch` takes a message and
runs the callback, which stops its own timer: both callbacks of the program do
(`state_AutoMtd.cpp`, `PTZ_control.cpp`). One unit of the clock stands for a
period in which the timer loop may or may not have run; nothing orders its passes
and the clock, so it may be arbitrarily late.

### AckChannel
A writer goes `Ask`, (`WaitFree`), `SetComtype`, `SetCmdid`, `SetPayload`, `Signal`;
`Skip` is an early return. The sender goes `SendWait`, `GetSendInfo`, `Package`,
`Send`, `Recheck`, reading `cmdid` twice as `getSendInfo` and
`thread_comsendEvent` do. `SetPayload` is what `signalFeedBack` does with the
`cmdid` it finds, which may be another thread's. An answer is a number, so that
the mix of one answer's link with another's content is visible. A read of element
0 of an empty vector is undefined behaviour: `undefined` is set and the behaviour
ends.

### AutoMtd
`ChangeState`, `ChangeObject`, then `EnterOther`/`OpenMtd`/`ClearFound` or
`EnterAuto` are the dispatcher; `IpcLoad`, `MtdHandle`, `RecvTrkmsg`, `IpcOut` the
IPC thread, whose handler is called on the object `_state` pointed to when it was
read; `Elapse`, `CallbackStops`, `CallbackOut` the timer; `Prepos`, `Check`,
`StorePrm`, `SendMtd`, `Watch` the search thread. `prm` is the `ipcParam` that the
first, the second, the third and every search share. `imageMode` and `mtdSent` are
the last commands sent, and `mtden`, in shared memory, follows them.

### ModeInput
`Press`, `Store`, `Send` are an input thread, `Take` the dispatcher's receive; each
comparison of `MSG_WorkMode` and `MSG_CaptureMode` is an action that reads the
field again. `missed` records that all comparisons of a chain failed because the
field changed under them.

### FrameParser
`Arrive` puts a frame or noise on a link, `Byte` is one byte through
`parsingframe`, which is the finest way in which reads can be cut. `Hunt` and
`Collect` are its two branches; `Valid` is the sum test of `parsingComEvent`. The sum
is `Xor` of `CheckSum`, bit by bit: a bit of it is set when an odd number of bytes have
it. `commands` and `good` are kept per link, which is all that the property tells apart.

### NetConnections
`Accept`, `Push`, `Mark`, `Create` are the accept thread up to each point another
thread can see; `Command`, `EndOfFile`, `ThreadEnds` a receiver; `ReclaimLock`,
`ReclaimNext`, `ReclaimUnlock` the reclaim thread, which holds `mutexConn` from the
first to the last (`iter` is its place), so that marks change under it; `Write` and
`Drop` the sender. `malloc` leaves `bConnecting` with either value. When the reclaim
thread takes a block that is listed but not yet marked, it deletes a thread whose
handle was never written: `undefined`, and the behaviour ends; it also ends when an
answer to a closed end raises `SIGPIPE`, which nothing handles (`killed`). A
connection's descriptor is never closed by the code, so `Accept` has no more of them
after as many clients as there are descriptors.

### Joystick
`NextReport` is a report; `parsingJostickPovData`, `parsingJostickButtonData` and
`parsingJostickAxisData` compare its three parts with the last ones, in that order.
`index` is the press to be undone. `LinkZoom` and `ImageTracks` are the two others who
store. `meddled` records that one of them, a second press, or the dispatcher's clear of
`sectrkctrl` came between a press and its release, or that the key for iris and focus or
the one for the search was pressed while the stick was out, or was back with its message
still in the queue (`StickWaits`).

### Requests
A receiving thread goes `Receive`, `StoreField`, (`PushBack`), `Send`; the dispatcher
takes one message and goes through its handler: `Size`, `TakePermit`, `HandleConfig`,
`StartErase`, `Erase` for the vectors, `PushOutput`, `SendOutput` for
`MSG_Com_TrkOutput`, and the start of a worker (`Guard`, `Enter`, `Run`, `Finish`).
`push_back`, `erase` and `front` take two steps, so two threads in one vector are seen:
nothing is defined after that (`undefined`), and the behaviour ends. `crossed` are the
commands that were under way together with one of another link.

### Uart803
Bytes are as in `FrameParser`. `Tells` is what the image process is told for a frame,
`sendtrkerr` and `sendmtdprm` are the frames that leave. A parameter that is not there
throws and ends the program (`phase` "down"), after which it starts again with its file.

### ConfigTable and Settings
`ConfigTable` is `configtable.h`: addresses, which of them are floats, octets or texts
on the disk, which may be set and within which range, on which the field of view and
the boresight depend. `Settings` writes one field per step (`Write`), for two savers;
`Crash` may come anywhere. `Written` and `Loaded` are the two conversions, so that a form
used for the one and not for the other is seen. `ipc` is the sequence of messages to the
image process, which reads the shared table when it takes one.

### Optics
A change refreshes through a list of steps (`job`) per thread, each of which is one
access to the copies, the table or the result: `UpdateFov`, `GetBoresight`. The state of a
copy is what it was made from; levels are interpolated by their tables.

### Platform
Numbers are whole tenths. `HandleLock` takes the filters as they are and `FinishLock`
stores them, so that `GstReset` of the display's thread may fall in between (`torn`).
`joyParamProcHandle` is what each use of the stick does to its settings. `ignored`
records that `MSG_JosPos` returned early during a track.

### Pelco, PelcoPackets and PtzControl
A request is a record of two bytes as sets of bits and two data bytes.
`PelcoPackets` uses one buffer per format for any sequence of requests. In `PtzControl` a
thread builds its request in `req`, in two steps, and sends what it then finds there;
`UnitArrives` is the unit, `MoveSync` the mover; a request may be lost (`losses`), an
answer may arrive late, a timer may elapse and its callback run when the wait it was for
is over (`late`).

## 3. Runs

| Run | Question | Result | Distinct states |
|---|---|---|---|
| `MsgQueueSafety` | two senders, two receivers, two slots, all receive calls | `RingInv`, `OneOwner`, `NoLostWakeup` hold; the ring implements the FIFO | 40 000 (up to symmetry) |
| `MsgQueueLive` | one looping reader, two senders | liveness of the FIFO (`ServesEventually`), every message leaves the ring, blocked senders move | 28 000 |
| `DxTimerRaces` | a caller against callbacks | a pass with no overlapping call reports every elapsed cycle and none early | 776 000 |
| `DxTimerStatus` | is the status truthful? | **no** (finding 1) | - |
| `DxTimerStarve` | does a started timer fire? | **no** (finding 2) | - |
| `DxTimerEarly` | is a timer never early? | **no** (finding 3) | - |
| `AckAnswers` | configuration commands, feedback of two threads, early returns | the slot is safe among configuration commands; exactly which overlaps break it | 637 000 |
| `AutoMtdModes` | three modes, a search, the IPC thread, the timer | image process follows the mode; searches end | 485 000 |
| `AutoMtdSearch` | two searches at a time | a search is never lost by leaving and re-entering its mode | 3.6 million |
| `NetConnectionsChurn` | clients that come and go against the reclaim thread and answers on their way | live connections are kept, closed ones reclaimed, answers reach the client they are for, or are dropped only behind a closed connection | 106 000 |
| `Commands` | what comes in: frames, 803 line, mode keys, joystick, requests, settings | see below | 3.44 million |
| `Motion` | what moves: optics, platform, pan-tilt unit, packets | see below | 1.56 million |

| Property | Of | Says |
|---|---|---|
| `CommandsAreFrames` | `FrameParser` | the commands are the good frames, and the parser looks for a head between frames |
| `Link803` | `Uart803` | the image process hears what the good frames say and the time it had before; an error can be read back from its frame |
| `FollowsInput` | `ModeInput` | at rest the mode is the one asked for; what is reported is the mode |
| `ReleasedMeansOff` | `Joystick` | with everything released nothing runs on |
| `AnswersReachAsker`, `SettingsHandled` | `Requests` (`AnswersAsker`, `NoSettingLeft`) | an answer goes to the link that asked; no setting is left in its vector |
| `SettingsReturn`, `SettingsReachUsers` | `Settings` | what was saved returns; image process, platform and table agree |
| `OpticsFollow` | `Optics` | field of view and boresight are what the settings give |
| `StandsWhenCentred`, `FollowsStick` | `Platform` | the unit stands with the stick centred and keeps nothing of the last track; it turns where the stick points |
| `UnitFollows`, `WaitsEnd` | `PtzControl` | at rest the unit moves as the speeds say; a wait has an end, and ends for a reason |
| `MotionIsMotion` | `PelcoPackets` | what the buffer held before never spoils a motion |

Several properties are conditional. Each condition names an interleaving that does
occur in the model and after which the code really does go wrong; the property then says
that this interleaving is the *only* way to go wrong, and the unconditional form is
violated by the same run. Where a doc or a comment promises the unconditional form it is
a finding; the others are hazards in `PROJECT.json`.

| Condition | Module | Names |
|---|---|---|
| `t \notin touched` | `DxTimer` | a call of another thread falls into a pass |
| `~overlapped`, `~skipped` | `AckChannel` | a writer fills the slot while it is in use; a handler returned early |
| `~overlap`, `~disturbed` | `AutoMtd` | two searches at a time; a search's act falls behind a change of mode |
| `~missed` | `ModeInput` | a field changed between the comparisons of one chain |
| `~mixed` | `FrameParser` | two threads in `swap_data` |
| `crossed`, `undefined` | `Requests` | commands of two links at a time; two threads in one vector |
| `~meddled` | `Joystick` | something between a press and its release; a key that changes what the stick means while the stick is out or its message waits |
| `marks` | `Settings` | a save cut off or met by another; a default that reaches the table and not its users |
| `~overlapped`, `refreshed` | `Optics` | one change before another was done with; a start, before the first refresh |
| `~ignored` | `Platform` | a stick command ignored during a track |
| `~disturbed`, `late` | `PtzControl` | a speed set between the halves of a stop, or set again before the mover saw the stop, or a mixed request; an answer or callback after its wait |

For the answer channel `SlotGuarded` says that the overlap cannot come from
configuration commands alone, so the semaphore `m_semHndl_s` does its work between them,
and feedback, which does not take it, is what defeats it; that the permission is given
back unless a handler returned early; and that nothing undefined happens before an
overlap.

`CHECK_DEADLOCK FALSE` is stated where the system may rest: nobody has to send a
command, press a key or send a frame, and the bounds on how many there are end each
behaviour in such a rest. In `MsgQueue` a producer may always send, so a deadlock
there is a real one and is checked; `AckAnswers` and the modes check progress by
liveness properties instead.

## 4. Findings

1. *Status of a timer* (`DxTimer.cpp:145`). `stopTimer` clears the cycle and then
   stores Stop; `startTimer` stores the cycle and then Run. A callback's stop and
   another thread's start can end as Run over a cleared cycle. `getTimerStat` then
   says the timer runs, and `startTimer` refuses to start it, for good.
2. *A timer that is never looked at again* (`DxTimer.cpp:298`). The `while` of
   `Dx_OnTimer` reads `tmReg[i]` again after each message. If the callback has
   stopped the timer by then it is 0, the condition holds for ever, the loop fills
   the queue and looks at no other timer.
3. *A timer that is early* (`DxTimer.cpp:219`). `Dx_setTimer` stores the cycle before
   the beginning, so a pass in between measures the new cycle from an old beginning.

Each is a short trace of the named run; each contradicts the comment that
`PROJECT.json` quotes.

## 5. Proofs

`MsgQueueProofs` holds, for any sets of producers, consumers (finite), messages and
handles and any positive ring length (`QueueAssumption`):

| Theorem | States |
|---|---|
| `TypeCorrect` | `Spec => []TypeOK` |
| `RingCorrect` | `Spec => []RingInv` |
| `NoLostWakeupHolds` | `Spec => []NoLostWakeup` |

*Argument.* `TypeOK` is not inductive: a receive stores `queue[curRd]` in `held`, a
handle only if the slot is occupied. `IInv` therefore adds `RingInv` (the write
index is `count` slots on from the read index) and `SlotsHoldHandles` (the slots in
between hold handles). The slots in between are `Window(curRd, count)`; lemmas
`WindowGrows` and `WindowShrinks` say that a put adds the slot at `curWr`, which was
not in it, and a take removes the one at `curRd`. They rest on `ModL`, remainder as
one conditional subtraction, which is all the arithmetic the solver needs. `InvHolds`
and `InvKept` are the two halves of the induction, with one step per action.

`NoLostWakeup` is strengthened by `WaitersInCall` (only threads in a call that may
wait are waiting) to `WInv`. Its two halves have the same form, *if anyone sleeps,
the work available is at most the number awake*, and each action changes one of them
in one of three ways: someone more is awake (`BalancedMore`), there is one more piece
of work and one sleeper was signalled (`BalancedSignal`), someone awake leaves with a
piece of work (`BalancedLeave`). A spurious wakeup only adds to those awake. This is
why one signal per message suffices although a woken thread may lose the race.

Its second part is about blocks and the FIFO, under the same assumptions:

| Theorem | States |
|---|---|
| `OneOwnerHolds` | `Spec => []OneOwner` |
| `RingIsFifo` | `Spec => ImplementsFifo`, the refinement |

*Argument.* A block is free, in a sender's hand, in the ring or in a receiver's hand.
`OInv` says that no two of these share a block and that no block lies in two slots or
two hands; that who is idle or asks holds none (`EmptyHanded`); and that a block that is
waiting in the ring or in a sender's hand holds the message it was filled with
(`BlocksFilled`). A step moves one block from one owner to the next: `OwnerGets`,
`OwnerGives` say what that does to hands, `RingGets`, `RingGives` to slots. For the
refinement `FifoOf` reads the messages of the slots from `curRd` on, `OutboxOf` those in
the senders' hands, `AskingOf` who waits or polls. `FifoPut` and `FifoTake` show that a
put appends to that sequence and a take removes its head, which needs `RingInv` (no slot
is written over) and `OInv` (no block is freed or filled again while it waits).
`StepsAreFifoSteps` then maps `SendMsg` to `Submit`, `SendPut` to `Accept`, `RecvCall`
to `Ask`, `RecvMsgEx` and `RecvMsg` to `Deliver`, `RecvFail` to `Refuse` and every other
step, spurious wakeups among them, to a stutter. The liveness of the FIFO
(`ServesEventually`) stays with TLC.

`DxTimerProofs` holds for any number of timers, any users, cycles, queue length, bounds
of the clock and width of the counters (`TimerAssumption`):

| Theorem | States |
|---|---|
| `TypeCorrect` | `Spec => []TypeOK` |
| `PassCatchesUp` | `Spec => []CaughtUp` |
| `OnTimeUnlessOverlapped` | with one user, `Spec => EarlyOnlyByOverlap` |

*Argument.* `CaughtUp` speaks of timers the loop has passed. `PInv` adds those it is at
(`Reported`: between the test and the message the cycle has elapsed and the table still
says so) and that a timer with a call on it is `touched` (`BusyTouched`), so that an
untouched timer keeps its cycle, its beginning and its count but for the loop's own
store. `EarlyOnlyByOverlap` compares the table with what was last asked for. `EInv` adds
that the message thread only stops (`OnlyStops`) and that cycle and beginning in the
table are those of the last start, except where a start has not stored them yet
(`OfLastStart`); an elapsed cycle is then at least one cycle after the start
(`CycleOver`). The assumption `OneStarter` is needed: with two users that start one
timer at once TLC finds the cycle of the one left with the beginning of the other, and a
message that is early long after both calls are over. The search's timer is started by
the thread that hears the image process only (`recvTrkmsg`), the case `DxTimerRaces` has;
those of a pan-tilt query by whichever worker asks for a position.

`AckChannelProofs` holds for any links (at least one), threads, and bound on answers
(`AckAssumption`):

| Theorem | States |
|---|---|
| `TypeCorrect` | `Spec => []TypeOK` |
| `SlotIsGuarded` | `Spec => []SlotGuarded` |
| `AnswersInOrder` | `Spec => []AnsweredInOrder` |

*Argument.* `IInv` is the types, who does what (a thread that has not asked holds no
answer, the sender holds one only between taking and sending), `ConfigsOnly` (no
overlap without feedback), and, until the first overlap, `Clean`. `Clean` has four
parts: one writer or the sender uses the slot, never two (`OneUser`); what the slot and
its user hold is the answer that is being given (`Contents`); what has been sent, with
what the slot holds, is what was signalled, in that order (`InOrder`); and the permission
of `m_semHndl_s` is with the semaphore, a writer, the slot or the sender, in exactly one
of them unless a handler has lost it (`OnePermission`). Two configuration commands cannot
meet in the slot since each would hold the permission.

`NetConnectionsProofs` holds, for any sets of clients, blocks and descriptors
(`NetAssumption`: there is a descriptor):

| Theorem | States |
|---|---|
| `AnswersGoHome` | `Spec => []AnswersHome` |
| `NoneFreedInUse` | a running receiver's block is allocated |

*Argument.* `AnswersHome` says of each answer in the queue that its descriptor still
leads to the client it is for. A step could break it by adding an answer with a
descriptor that is not the client's, hence `Owned` (a running receiver's block is
allocated and its descriptor leads to its client), or by giving a descriptor to a new
client, which `Accept` does only with one in use for nobody. `Owned` needs `Accepted`
(the same of the accept thread's block, until it creates the receiver) and that the
reclaim thread, which frees blocks, knows the thread of the block to have ended.

Its second part is about the list of connections, under the same assumption:

| Theorem | States |
|---|---|
| `TypeCorrect` | `Spec => []TypeOK` |
| `LiveIsKept` | `Spec => []LiveKept` |
| `DroppedBehindClosed` | `Spec => DroppedOnlyBehindClosed` |

*Argument.* That answers go home needs nothing of `connetVector`; that live connections
are kept does. `LInv` adds to the invariant above that the list holds allocated blocks,
each once (`ListOfBlocks`); that the accept thread's block is in the list exactly from
`Push` on (`Arriving`); that blocks of different clients differ (`Belongs`); and that a
receiver that runs for an open client has its block in the list, marked and leading to
that client (`Kept`). The reclaim thread erases an element while it walks: `RemovedAt`
and `Erased` say that erasing one place of a sequence without repetitions leaves every
other element once, and `Listed` turns the count in `LiveKept` into membership. It
erases only what is not marked, which is an ended receiver's block or, before `Mark`,
one whose thread does not exist yet; after that nothing is claimed (`Over`).

The sender asks the first connection of the list, whomever the answer is for. An answer
is for a client whose receiver has been created (`Heard`); if that client is still there
its block is listed and marked, so the list is not empty. The block the accept thread is
about to mark is the last of the list (`LastIn`), so the first, which is not marked, is
one that has been marked and whose receiver has seen its client go: an answer is never
dropped because a connection has just come.

`RequestsProofs` holds for any links, any commands, and any bounds on queue and commands
(`RequestsAssumption`: at least one link, a place in the queue):

| Theorem | States |
|---|---|
| `TypeCorrect` | `Spec => []TypeOK` |
| `NoneLeft` | `Spec => []NoSettingLeft` |
| `AnswersGoToAsker` | `Spec => []AnswersAsker` |

*Argument.* A vector that is not empty is `Settled`: a message of its kind is in the
queue or about to be sent, or the dispatcher is at that vector. Each step keeps this
because a request is pushed before its message is sent and the dispatcher leaves a vector
only when it has found it empty; it needs `Places` (only settings are ever at a
vector). For the answers, `Current` are the commands that have come since all was last
done. `Recent` says that whatever is still to be handled - in a receiver, a field, a
vector, the dispatcher or a worker - is one of them, `SameLink` that they all came on the
link `ComParams` has, or are crossed. An answer's link is read last of all, and by
`Recent` from a command that `SameLink` speaks of. That needs all six places: the number
of a command outlives its message.

`AutoMtdProofs` holds for any modes that have a work mode, any finite number of searches
at a time and any number of mode changes (`ModeAssumption`):

| Theorem | States |
|---|---|
| `TypesCorrect` | `Spec => []TypeOK` |
| `SearchStaysAlive` | `Spec => []SearchAlive` |
| `ImageIsTold` | `Spec => []ImageFollows` |
| `DetectorIsTold` | `Spec => []MtdStatusTruthful` |

*Argument.* One invariant carries all four. `Places` says where in an entry the
dispatcher is and which mode is being entered; `OneSearch` that, until two searches
overlap, at most one thread is between its store in the `ipcParam` of `AUTOMTD` and the
message made from it, so that the message carries what that thread stored; `ModeSent` and
`DetectorSent` what has been told by the middle of an entry. `SearchAlive` is not
inductive: a search that is alive may be one that switches the detector off and then
ends. `FreshLoop` is stronger and inductive: in `AUTOMTD`, with the dispatcher at rest, a
target was taken or a search is at one of the places (`Fresh`) that it leaves, while the
mode is `AUTOMTD`, only for another of them or with a target. A search that meets another
mode ends, and the entry back into `AUTOMTD` starts the next before the dispatcher rests.

`MotionProofs` holds for any tables of levels and any settings that may be set, sticks,
errors, tunings, positions, speeds, and any number of changes, inputs, calls and answers.
`MotionAssumption` collects what the four parts ask of their constants, all of it the
range the code has: a stick has 21 places, the address of every field that the optics
read is in the table, and so on.

| Theorem | States |
|---|---|
| `PartsTyped` | `SpecOfParts => []TypesOK` |
| `OpticsFollowSettings` | `SpecOfParts => []OpticsFollow` |
| `StandsAtRest` | `SpecOfParts => []StandsWhenCentred` |
| `UnitTurnsWithStick` | `SpecOfParts => FollowsStick` |
| `UnitFollowsTheSpeeds` | for `MaxLosses <= 2`, `SpecOfParts => []UnitFollows` |
| `SearchesEnd` | `SpecOfParts => WaitsEnd` |
| `PacketsAreMotions` | `SpecOfParts => []MotionIsMotion` |

*Argument.* Each part has its own invariant, and says nothing while another part moves
(`OpticsPart`, `PlatformPart`, `UnitPart`, `PacketsPart`).

- *Optics.* `OpticsInv`: as long as changes do not overlap one thread works, for the
  input asked for and the zoom there is (`OneAtATime`); and the field of view is right or
  still on that thread's list (`FovDone`), the boresight likewise (`BoreDone`). The step
  that needs the most is a setting: if its address is not related to the field of view
  it must not change it, which is why the addresses of all fields of an input are told
  apart by arithmetic (`Addresses`, `Unrelated`, `UnrelatedChanges`). That a level found
  in a table is one of the table needs that a set of levels has a lowest one, which is
  the only use made of well-foundedness.
- *Platform.* `PlatformInv`: a stick in the middle leaves the speeds at 0
  (`RestsWithStick`), the platform has the stick's position once no stick command is in
  the queue (`StickKept`), and a filter between two tracks is empty. Two facts about the
  arithmetic of the code carry it, for all numbers: a stick at rest is shaped to a demand
  of 0 and a demand of 0 to a speed of 0 (`RestDemanded`, `SpeedFollows`), and shaping,
  compensation and the levels of speed keep the sign, once `joyParamProcHandle` has put the
  breakpoints in order (`SticksDemanded`).
- *Pan-tilt unit.* `UnitInv`: the unit moves as the mover knows, or as many requests
  were lost as it has sent since the change, or a stop came between (`UnitAgrees`); after
  three looks with no change three have been sent, of which two were lost at most.
  `StopAgrees` is where the proof changed the model. `ptzStop` sets the wanted speeds to
  0 and sends a stop of its own (`resetPtz`, `PTZ_control.cpp:495` and `:504`), and the
  mover notices a change by comparing with what it saw last (`Move`, `:440`). If the same
  speed is set again before its next look it sees no change and sends nothing, and the unit
  stands although it is wanted to move. The attempt to show the invariant inductive met
  this; in an instance it takes three calls, one more than the run has, and no comment
  of the code promises otherwise. The history variable `halted` marks it, and it is the third of the
  conditions under which `UnitFollows` claims nothing. For the searches `PositionSearch`
  says that the thread of `ptzSetPos` asks only with its timer on or its flag set.
- *Packets.* `Fine` says of each buffer what `MotionIsMotion` says, and in the P format
  also that no command, motion or not, leaves both focus bits set: the P format keeps
  what it does not clear, and the next zoom would inherit them. One lemma for each maker
  of a request says that it leaves any buffer fine, whatever was in it.

`CommandsProofs` holds for any links, joysticks, frames, noise, errors, files, reports,
settings, values and positions, and any number of frames, presses, reports, commands and
starts. `CommandsAssumption` collects what the six parts ask of their constants. The
noise between frames does not hold a head nor end in the first byte of one; contents are
shorter than 256 bytes, which is what one byte of the length says; an error fits in the
fifteen bits of its frame; the values of a setting that is kept as octets have four of
them.

| Theorem | States |
|---|---|
| `PartsTyped` | `SpecOfParts => []TypesOK` |
| `FramesGiveCommands` | `SpecOfParts => []CommandsAreFrames` |
| `LineHeard` | `SpecOfParts => []Link803` |
| `ModeFollows` | `SpecOfParts => []FollowsInput` |
| `ReleasedIsOff` | `SpecOfParts => []ReleasedMeansOff` |
| `AskerHasAnswer` | `SpecOfParts => []AnswersReachAsker` |
| `HandlerHasSetting` | `SpecOfParts => []SettingsHandled` |
| `SavedReturns` | `SpecOfParts => []SettingsReturn` |
| `UsersHaveSettings` | `SpecOfParts => []SettingsReachUsers` |

*Argument.* As in `Motion`, each part has an invariant of its own and says nothing while
another part moves (`FramesPart`, `LinePart`, ...); `PartsInv` is all of them.

- *Frames.* `CommandsAreFrames` compares sequences and knows nothing of the bytes under
  way, so that the step that completes a frame could add anything. `FramesInv` says of
  each link where it is: what the parser has collected of the link's bytes (`Mid`),
  followed by the bytes still on the wire, is exactly one frame, and the link's commands
  are its good frames but this one (`InFrame`); or it is noise without a head
  (`InNoise`). Both parsers, which differ in head and order of the length bytes, go
  through the same lemmas: `Framed` says which byte is at which place of a frame,
  `IsFrame` the same by places, `GoesOn` what one byte changes. That the sum of a bad
  frame never passes needs that `Xor` is a byte and that a byte with its lowest bit turned
  over is another one; how `Xor` comes about matters only to its bounds.
- *803 line.* `LineInv` has the same two cases for the one line, with what the image
  process was told at the start (`AtStart`), followed by what the good frames tell, in
  place of commands. The tracking time outlives the program: `LastKept` says that a whole
  file holds the time told last, or, if none was told since the start, the one before it.
  `LineReports` is that a frame with an error can be read back.
- *Modes.* `FollowsInput` holds at rest only. `Known` is what holds at each comparison of
  the two handlers: the comparisons before have come out as the fields now are, *unless*
  a message of the field that changed is still to come (`Coming`) - from a thread that
  has stored and not yet sent, or in the queue. At rest none is to come. `Acked` is the
  same for the reported work mode and needs `~missed`.
- *Joystick.* `Undisturbed` ties the toggled fields to the keys: `zoomctrl` is on exactly
  for the hat's press that `index` is to undo, `sectrkctrl` for button 6, and iris and
  focus move only while the stick is out (`StickOut`). `Looked` says which parts of a
  report have been compared. Here the proof changed the model: TLC had found nothing with
  four reports, and the invariant did not go through. With six, the stick is out, goes
  back to the middle, and before the dispatcher has taken its message button 11 gives the
  stick to the other of iris and focus (or button 6 starts a search, in which the stick
  moves the box): the message that the stick is centred stops the wrong one, and the
  first runs on with everything released. `meddled` now counts a key pressed while the
  stick's message waits; what is shown is that this, with the cases above, is the only way.
- *Requests.* `RInv` of `RequestsProofs`, in the composition.
- *Settings.* `SavesWrite`: of a file that one save writes, each field holds a value the
  table has had since the save began, or is still to be written, later in `Order`; the
  table's own values are among these while anyone saves. Each value is read back as it was
  written, whatever its form (`ReadsWritten`, and `OctetsReturn` for addresses and any
  `Octet`). `OrderCovers` is that the loop of `SaveConfig` leaves no address out. `ImageKnows`: a field differs between table and image process only if a
  message that makes it read the field is in its queue or will be sent by the command the
  dispatcher is at. `Tuned` and `Reported` are the platform's copy and the status.

*Model-checked only*: `StatusTruthful`, `NotEarly` and `FiresEventually` of `DxTimer`,
which do not hold; and all liveness (`ServesEventually`, `BlockedSendersMove`,
`EveryCommandAnswered`, `SearchEnds`, `ClosedReclaimed`), which is out of the prover's
reach as is `ENABLED`. Every other property of the runs is a theorem. Three definitions
have a form the prover can use, and not the first that comes to mind: `Xor` counts bits,
where the module `Bitwise` would recurse; octets are four divisions, and
what the good frames tell is kept in one sequence, where a fold over a sequence would need
induction.

## 6. Bounds and fairness

*MsgQueue.* Two slots and as many handles as can be in use at once (two senders and
two slots; the live run has one less, so that senders also meet an exhausted heap),
two messages so that a swap shows. Two threads on each side are the least that can
steal a wakeup from one another; the safety properties and the refinement are theorems
for any number, so that the bounds matter to liveness only. *DxTimer.* `LastStart` ends calls
and `MaxNow` stops the clock; three units and cycles of one and two let a timer
elapse, be missed and be made up. `CntMod` 4 makes the counter wrap within reach,
as 2^32 does not; `Elapsed` is only claimed while it does not. One timer
suffices for the safety run, since callers share nothing but the timer; the starved
timer needs two. *AckChannel.* `MaxAsked` answers in a behaviour: three let one be in
the sender, one in the slot and one on its way. *AutoMtd.* `Loops` is a bound on
the threads alive at once: a `Spawn` waits while all are in use, so runs with one
loop explore what one search does against all other threads, and the run with two
what two do to each other. `MaxSwitches` 3 is there and back and there again.
*ModeInput.* Three presses are one in the dispatcher, one in a queue of two and one in a
thread, from joystick and link. *FrameParser.* Four frames on two links, with contents that contain the head
and its first byte, an empty frame, and noise that ends just short of a head. *NetConnections.* Two descriptors and
two blocks for three clients: the third would reuse whatever is given back, which is
what a mistake in giving back needs, and two answers can be on their way meanwhile.

*Joystick.* Six reports are two presses and their releases with the stick moved out and
back between them, which four are not; hat at rest, steering or zooming, one message
pending is the least that the next report can overtake. *Requests.* Two links and three
commands: one of each link under way together and one more; a queue of two is full with
the two that the others send, so the dispatcher's send to itself blocks; both
properties are theorems for any links, commands and queue. *Uart803.* Three
frames, noise or frames that leave, and two starts, so that a time that was stored is
read back; lengths with the head in them; the three states of the time file. *Settings.*
One address of every form and of every kind of user (tuning, octets, status, text, a
ranged number, a position); two commands and two starts are a set and a save, a save
and a crash, a reset and a set. `Octet` 4 stands for 256, so that 27 has three octets.
*Optics.* A continuous and a switched input, a class out of range, positions of the
zoom below, inside and above the table; four changes. *Platform.* `FrameNum` 2
wraps where 50 does; the ring of rates has its eight places; the stick at its end, centred and between; parameters
in order and not. *PtzControl.* Two calls, two losses: a change is sent three times, so
two losses leave one; one answer on its way can be late for its wait. *PelcoPackets* has
no bound on the number of requests. Of all the bounds of `Motion` only the two losses
remain in its theorems, and these are the code's own: a third loses the change.

*Fairness.* `WF` of a thread's next step, everywhere: threads run, none has a
priority, and each loop goes round (`CMessage.cpp:96`, `DxTimer.cpp:340`,
`osa_tsk.cpp:12`). For `MsgQueue` it means that the mutex is eventually granted to
each thread that asks, and for `NetConnections`, where one thread keeps the mutex
over several steps, strong fairness of the one that asks for it: the reclaim thread
sleeps three seconds between two passes. No property of `Commands` and `Motion` needs fairness: `WaitsEnd`
says that a wait is over or its timer runs, not that it ends. Nothing is assumed of those who send: no fairness on
presses, commands, notifications, frames, calls, new sends or spurious wakeups. The
clock of `DxTimer` advances, a timer of `AutoMtd` that runs elapses. Which of
several waiters a signal wakes is up to the implementation, so no property claims
that a particular sender gets on, only that a set of blocked senders does not stay as
it is.

## 7. Not modelled

- *Numbers.* Fractions are whole tenths and divisions drop what they leave; a number
  written to the profile is read back exactly. The Kalman filter of the platform is
  only opened and closed. The camera's resolution (`updateWH`) is fixed.
- *Bytes.* Addresses, check bytes and fixed bytes of frames that leave. Names, colours
  and positions on the screen of answers.
- *Formats nothing creates*: `ExtensionFormat.cpp`, and two more makes of units.
  `CPTZ_ONVIF` has empty bodies. `parsing()` of `803uart.cpp` is called by nobody.
- *Pan-tilt control*: creation and destruction, the reading from the port (`dataInThrd`
  up to the parser of an answer), the output of tracking errors instead of speeds,
  `judgePanTilpos`.
- *Modes*: the acquisition box and the moves of the selected target; the timer (SIGALRM)
  of iris and focus.
- *Single steps*: `saveTrktime` is one step; so are the stores of `DefaultConfig`, after
  which its text messages follow. Nothing reads between them but the image process, which
  reads again when it is told.
- *Wrappers* of system calls have no state. Of the queue, `OSA_msgqSendAck` and
  `OSA_msgqDelete` are called by nobody; of the timers, creation and registration
  precede every thread that uses them; the program never comes to the dispatcher's
  shutdown, nor to that of the connections.
- *Undefined*: a frame longer than the parser's buffer, two threads in `swap_data` or in
  one vector. Behaviours end there.

An observation that no run is about: `803uart.cpp:530` comments "Set the trktime 3s" and
stores 3000, where the file and the commands hold seconds.

## 8. Plan

Done: `MsgQueue`, `BoundedFifo`, `DxTimer`, `AckChannel`, `AutoMtd`, `ModeInput`,
`FrameParser`, `NetConnections`, `Requests`, `ConfigTable`, `Settings`, `Optics`,
`Platform`, `Pelco`, `PelcoPackets`, `PtzControl`, `Joystick`, `Uart803`, and the proofs
about the queue, the timers, the answer channel, the connections, the requests, the modes
and everything in `Motion` and `Commands`. Left, what matters most first:

1. `StatusTruthful` of `DxTimer` with calls of one thread only, which would say exactly
   what finding 1 needs.
2. `Links`: `NetConnections` composed with `FrameParser`, so that what a receiver leaves
   in `swap_data` when its client goes meets the next client's bytes.
3. `AutoMtd` composed with `ModeInput` and `Requests`: one dispatcher for all handlers.
4. The dispatcher's shutdown, should the program ever come to it.
5. `OsaSync`: semaphores with timeouts, `SELF_sem`, the OSA queue, buffers, events.

Abstract specifications worth stating besides `BoundedFifo`: a *mode switch* (the
image process sees each mode once, in order), which `ModeInput` composed with the
entry into a mode should implement, and a *one-shot timer*, which `DxTimer` implements
up to the overlaps of findings 1 to 3.
