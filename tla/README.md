# com0com, model-checked and proved

This directory is a TLA+ verification project for the code of this repository.
Its subject is **com0com** (`src/com0com3/sys`), the null-modem driver: pairs of
virtual serial ports in the Windows kernel, each of which gives what is written
to it to the readers of the other.  It is the only program of the repository
with a logic of its own of any size; the rest is copies of WDK samples and small
tools (see *The repository*).  Of the samples the driver of a real UART
(`src/wdk7-samples/serial`) is modelled too, as far as its transmit side goes: it
answers the same requests as com0com, with interrupts instead of a second port.

## The repository

| part | where | state it keeps | operations | modelled in |
|---|---|---|---|---|
| IRP queues | `startirp.c` | per port four queues (read, write, wait, close): `pCurrent`, a list, per-IRP flags; `amountInWriteQueue` | dispatch (`FdoPortStartIrp`), cancel (`CancelRoutine`), purge (`CancelQueue`), completion (`FdoPortCompleteQueue`) | `IrpQueue` over `Requests` |
| transfer engine | `io.c`, `read.c`, `write.c` | none: works on the queues and buffers of a pair | `ReadWrite`, `TryReadWrite`, `StartCurrentIrp`, `StopCurrentIrp`, `StartXoffCounter`, `FdoPortIo`, `SetModemStatus` | `IrpQueue` (control), `DataPath` (data), `HandFlow` (both directions, rounds) |
| buffers | `bufutils.c` | ring buffer of received characters, transmit buffer, inserted data | copy, escape insertion, purge, resize | `DataPath` over `Wire`, `HandFlow` (XON, XOFF, break) |
| timeouts | `timeout.c` | four timers and their DPCs, `SERIAL_TIMEOUTS` | `SetIrpTimeout`, `TimeoutRoutine` | `IrpQueue` (total timers), `OpenClose` (close timer) |
| flow control | `handflow.c` | `handFlow`, `writeHolding`, `writeHoldingRemote`, `sendXonXoff`, `tryWrite` | limits, XON/XOFF, RTS and DTR handshake, transmit toggle, break | `HandFlow` |
| pins and modem lines | `pinouts.c`, `SetModemStatus` of `io.c` | `modemControl`, `modemStatus` of both ports | `SetModemControl`, `PinMap` | `HandFlow` |
| wait mask | `wait.c` | `waitMask`, `eventMask` | `SetWaitMask`, `FdoPortWaitOnMask`, `WaitComplete` | `IrpQueue` (queue) |
| write delay | `delay.c` | timer, `idleCount`, `sentFrames`, `decibits` | `StartWriteDelayTimer`, `WriteDelayRoutine`, `GetWriteLimit` | `DataPath` (the tick) |
| open and close | `openclos.c` | `openCount`, `isOpen`, close queue and timer | `FdoPortOpen`, `FdoPortClose`, `c0cCleanup` | `OpenClose` over `Session` |
| IOCTLs | `ioctl.c` | parameters of the port | purge, handshake, lines, XON, XOFF, break, status, parameters | `IrpQueue`, `DataPath`, `HandFlow` |
| PnP, power, WMI, names | `pnp.c`, `power.c`, `wmi.c`, `adddev.c`, `showport.c` | device objects, `shown` | start, remove, power, hide and show | `OpenClose` (the query that hides and shows a port), `HandFlow` (lines and pins of a new port) |
| setup | `src/com0com3/setup*` | INF and registry | install, rename | no |
| WDK serial sample | `src/wdk7-samples/serial` | queues, `REQUEST_CONTEXT`, timers and DPCs, what the ISR owns | read, write, IMMEDIATE_CHAR, XOFF_COUNTER, purge, flush, waits, modem lines, PnP | `SerialWrite` (the transmit side) |
| other WDK samples | `src/wdk7-samples` | vendored | | no |
| tools | `WinSpy++64`, `enumser`, `InterfaceEnum`, `prjskeleton` | | | no |

How the parts interact: every dispatch routine, DPC and cancel routine takes the
spin lock `pIoLock` that the two ports of a pair share, works on the queues and
buffers of both, collects the requests that ended on a list of its own
(`queueToComplete`), drops the lock and completes them.  What the lock does not
protect is what belongs to the I/O manager: `Irp->Cancel` and the cancel routine
of each request, which `IoCancelIrp` reads and takes at any moment.  Whoever takes
the cancel routine (an atomic exchange) owns the completion of the request.

## Modules

### `IrpQueue`: one queue and everybody who touches it

The state is that of `C0C_IRP_QUEUE` and of the requests: `pCurrent`, `queue`,
`flags` (IN_QUEUE, IS_CURRENT, EXPIRED), `status` and `information`
(`IoStatus`), `amountInWriteQueue`, the total timer; of the I/O manager:
`ioCancel` and `cancelRoutine`; and of the threads: `pc`, `toComplete` and the
locals of the section under the lock.

| threads | code | actions |
|---|---|---|
| `<<"start", i>>` | `FdoPortStartIrp` for request i, `StartIrp`, `NoPending` | `StartEnter`, `StartCheck` (`StartFirst`, `StartImmediate`, `StartLater`, `StartOverXoff`), `StartMore`, `StartRefuse`, the engine, `StartEnd`, `CompleteOne`, `Return` |
| `<<"cancel", i>>` | `IoCancelIrp` and `CancelRoutine` | `IoCancelMark`, `IoCancelTake`, `CancelRoutine`, the engine, `CompleteOne` |
| `Dpc` | `TimeoutRoutine` | `TimerFire`, `TimeoutRoutine`, the engine, `CompleteOne` |
| `Io` | any other handler of either port that runs `ReadWrite` or `FdoPortIo`, `OnRxChars` | `IoEnter`, `IoXoffCounted`, the engine, `CompleteOne` |
| `Purger` | `FdoPortCancelQueues`, IOCTL purge, overrun with SERIAL_ERROR_ABORT | `PurgeEnter`, `CancelQueue`, `CompleteOne` |

The engine is `TryReadWrite` seen from one queue: `EngineSkip` and `EngineWork`
(StartCurrentIrp, the transfer, StopCurrentIrp), `EngineRestore`, `EngineRecheck`
and `EngineDrop` (the end of StopCurrentIrp), `XoffSent` and `XoffSweep`
(StartXoffCounter), `EngineAgain` (the loop of ReadWrite).

Atomicity: a section under `pIoLock` is cut into steps of its holder so that each
step makes at most one access to the cancel state of a request, since only
`IoCancelIrp` can come between.  `CompleteOne` is one iteration of
FdoPortCompleteQueue, which takes the lock again for a write queue.

Abstractions: the bytes a round of the engine moves are any number from none to
the rest of the request, which covers every state of the buffers, of flow control
and of the other port.  The two loops of TryReadWrite over the write queue are
one.  A read does not end early (WAIT_ONE, MAXULONG timeouts); in `DataPath` it may.
`UlongRange` stands for 2^32.

### `Requests`: what the port promises

The abstract specification: a request is sent, moves bytes, is ended at most once
with a status its history justifies and the count of bytes it reports.
`Promise` in `IrpQueue` is the refinement mapping: a request has ended from the
step in which its completion is decided for the application, that is when
IoCompleteRequest is called or when the dispatch routine is on its way to call it.

### `DataPath`: the way of the characters

One direction of a pair.  `writes` and `reads` are the two request queues (of a
write what is left of it, of a read its length and what it got), `tx` with
`txAt` is `txBuf` (the index of pBusy decides where a stretch of the ring ends),
`rx` is `readBuf`, `taken` the characters of completed reads, `holding` stands
for writeHolding, `limit` for writeLimit.  `port` is the configuration of the two ports, which does
not change in a behaviour.

| steps under the lock | code |
|---|---|
| `ReadFromRx`, `ReadFromTx` | an iteration over the read queue: ReadFromBuffer, then the loop of ReadFromTxBuffer |
| `NoRead`, `MoveFromTx` | SendTxBuffer and the loop of MoveFromTxBuffer, WriteToBuffer |
| `ReadWriteDirect`, `EndRead` | the loop over reads and writes, StopCurrentIrp of the read |
| `WriteToBuffers`, `EndTransfer` | the last loop: WriteToBuffer, then WriteToTxBuffer |

The others are the events that start a section: `Write`, `Read`, `Tick` (the write
delay timer), `Expire` (a read timer), `Hold`, `Release`, `CancelRead`,
`CancelWrite`, `Purge`.  A section runs to its end before the next begins, since
all of it is under `pIoLock`; what happens to a request in between is the subject
of `IrpQueue`.

Abstractions: characters are numbers in the order of writing, and what the filter
strips is a set of them (`dropped`); `Without` of module `Filter`, which `Wire` uses
too, is what passes.  `Consumed` is the loop of
CopyCharsWithEscape in closed form.  The baud rate allows any number of
characters in a round.  A timer that ticked in vain for a while stops in the code
and goes on in the model: such ticks move nothing.  Inserted bytes
(escape mode, noise) and the error character are not carried; XON, XOFF and break
are the subject of `HandFlow`.

### `Wire`: what the cable promises

Sent, on the way, arrived.  Characters arrive in order and once; the filter may
strip those of `dropped`, and a lossy line (overrun emulation, purges, cancels)
may lose others.  `BehavesAsCable` maps the two buffers and both queues of
`DataPath` to its one pipe.

### `OpenClose`: sessions of the two ports

Per port: `openCount`, `isOpen`, whether `readBuf` has memory, the close queue,
the close timer and its DPC, `shown`, and where the PnP query is.  Per application:
`pc`, the place in the driver its CreateFile or CloseHandle has reached, and `at`,
the port.  `mode` says which ports are in exclusive and in plug-in mode.

| `pc` | code | action that leaves it |
|---|---|---|
| idle | no handle | `OpenEnter` |
| plugIn, relations, init, mark, notify | `FdoPortOpen` before lines 135, 141, 144, 210, 212 | `OpenPlugIn`, `OpenRelations`, `OpenInit`, `OpenMark`, `OpenNotify` |
| denied | before line 128 or 136 | `OpenDenied` |
| using | has the handle | `Cleanup` |
| cleaned, unplug, free, start | `FdoPortClose` before lines 250, 268, 273, 286 | `CloseEnter`, `CloseNotify`, `CloseFree`, `CloseStart` |
| pending | in the close queue | `CloseComplete`, by `TimeoutClose` or `QueryComplete` |
| done | before IoCompleteRequest | `CloseReturn` |

`QueryLocal`, `QueryRemote`, `HidePort`, `ShowPort` and `QueryComplete` are
QUERY_DEVICE_RELATIONS of `pnp.c`; `stale` is what IoInvalidateDeviceRelations
leaves for the PnP manager.  One action is a section under `pIoLock` or one access
outside it, since openCount and isOpen are also used without the lock.

Assumed of the system: the PnP manager sends one query at a time to a device, at any
time, also unasked; the I/O manager sends one cleanup and one close per file
object and does not cancel a close; a port can be opened by its device name
while it is hidden.  Abstractions: what an open and a close do to the requests
and the modem lines of the pair, and the names ShowPort and HidePort register.
The code of a device in removal is not modelled.

### `Session`: what opening and closing promises

An owner and a stage (closed, entering, open, leaving) per port: one application
enters, is refused or connected, disconnects and leaves before the next enters.
The refinement mapping takes the one application inside a port for its owner.

### `HandFlow`: the lines of a pair and who holds whom

Both ports, both directions.  `port` is C0C_IO_PORT (`flow` handFlow, `holding`
writeHolding, `holdingRemote` writeHoldingRemote, `busy`, `limit` and `size` of
readBuf, `tx` txBuf, `writing` and `reading` what is left of the pending requests),
`wiring` what the input pins of each port hang on, `added` the ports AddFdoPort has
run for, `engine` the writing port of the next TryReadWrite.

| action | code |
|---|---|
| `AddFdoPort` | the lines a new port raises, its pins and those of the other end |
| `Open`, `OpenLine` | `FdoPortOpen`: the section with SetHandFlow, which runs ReadWrite, and the one that raises OPEN |
| `Close` | `FdoPortClose`: its two sections under the lock in one, since nothing of the pair looks at the port in between |
| `Write`, `Read`, `Abort`, `Purge` | requests, CancelQueue, PURGE with RXCLEAR |
| `ChangeHandFlow` | IOCTL_SERIAL_SET_HANDFLOW, with `SetHandFlow` whole |
| `SetRts`, `SetDtr`, `SetOutputs`, `SetXon`, `SetXoff`, `SetBreak` | the IOCTLs of these names |
| `Transfer` | one round of `ReadWrite`: TryReadWrite for `engine`, then for a port that asks |

Pins and lines are not abstracted: `SetModemControl` finds the pins that changed at
both ends and calls `SetModemStatus` for each end, as in the code, and that calls
`SetModemStatusHolding`.  Characters are counted, except in txBuf, where XON and
XOFF travel among them.  `history` remembers what went around the handshakes (a
hold set by hand, a close, a purge, a switch to transmit toggle, an XOFF taken
back); each property names those it leaves out.

Left out: noise, emulation of baud rate and overrun, inserted status bytes, the
filters for NULL and DSR, IMMEDIATE_CHAR, SERIAL_ERROR_ABORT, changes of the size
of readBuf.  Applications do not write XON or XOFF as data.  SetHandFlow refuses
limits above the size of readBuf; the settings to choose from have none.

### `SerialWrite`: the transmit side of the UART driver

A request in work is shared by its cancel routine, its timer, the interrupt service
routine and the DPC of that, and has a reference for each in `RefCount`.  Who is
called takes its own away, tries to stop the others
(`SerialRundownIrpRefs`), and completes the request if no reference is left.
`req` is REQUEST_CONTEXT and what the framework knows of the request, `ext` the
device extension: the current request of each slot, the write queue, what the ISR
owns, timers and DPCs, TotalCharsQueued.

| action | code |
|---|---|
| `Write` | `SerialEvtIoWrite` and IOCTL_SERIAL_XOFF_COUNTER: `SerialStartOrQueue`, `SerialStartWrite` |
| `Immediate` | IOCTL_SERIAL_IMMEDIATE_CHAR, `SerialStartImmediate` |
| `TransmitImmediate`, `TransmitWrite`, `ReceiveChar` | `SerialISR` (SERIAL_IIR_THR), `SerialPutChar` |
| `CompletionDpc` | `SerialCompleteWrite`, `SerialCompleteXoff`, `SerialCompleteImmediate` |
| `TimerExpires`, `Timeout`, `SerialTimeoutXoff` | the timers and their callbacks |
| `CancelRequest`, `CancelRoutine` | the framework cancels, and calls the routine that was set |
| `Purge` | PURGE with TXABORT: `SerialFlushRequests`, `SerialPurgeRequests` |
| `SerialFlush`, `FlushDone` | IRP_MJ_FLUSH_BUFFERS: the queue stops, and starts again |

Atomicity: the device is created with WdfSynchronizationScopeDevice (`pnp.c`), so
callbacks of queues, timers, DPCs and cancel routines exclude each other, and each
is one action.  The ISR runs between them.  What it does inside one could as well come
before or after, with one exception, which the parameter `early` of
`SerialGetNextWrite` is for: the last character an XOFF counter waits for may arrive
between SerialGiveXoffToIsr and the start of the next write.

Assumed of the framework: a timer that was stopped in time does not fire, one that
had expired will be called; WdfRequestUnmarkCancelable fails once the cancel
routine is to be called, which then waits for the lock; WdfIoQueuePurge cancels
what is queued, then what the driver made cancelable; a queue is idle
when it holds no request and the driver has none that came out of it.  Left out: the wait
for EV_TXEMPTY, requests that are cancelled before the driver marks them cancelable,
SerialCompleteIfError, EvtIoStop and EvtIoResume, the read path, modem lines.  An
immediate character goes before the write in the ISR; flow control, which may hold
either back, is the absence of fairness.

### Theorems

`IrpQueueProofs`, `OpenCloseProofs`, `HandFlowProofs`; `SerialWriteSteps` (what each step
of the driver does to the two slots of its ISR) and `SerialWriteProofs` over it;
`DataSequences` (lemmas about sequences and filters), `DataPathProofs` (every
configuration) and `DataPathFlow` (no filter), each over the one before: see *What is
proved*.

## Runs

| run | instance | shows |
|---|---|---|
| `IrpQueue_kinds` | 2 requests of any kinds (the four write kinds, read, wait), one of them cancelled at any step, timeouts, a purge, another transfer | refines `Requests`; completed once, released, owned, flags, no cancel lost, untouched after completion; all but waits end, under fairness |
| `IrpQueue_preempt` | 3 writes, flushes or IMMEDIATE_CHARs of 2 bytes, timeouts, a purge, a second round inside a dispatch | types, byte account, order of arrival, what a status overwritten by the second round can hide |
| `IrpQueue_amount`, `IrpQueue_order` | violations | see *Findings* |
| `DataPath_cable` | buffers of 2 and 3, requests of 1 and 3, up to 4 characters, one cancel, timeout or purge; five configurations of the ports | refines `Wire`; nothing waits while there is room; a pending read misses nothing; loss only at a full buffer; under fairness sections end and pending reads get the data |
| `DataPath_overtake` | violation | see *Findings* |
| `OpenClose_modes` | 2 applications, 2 opens, plug-in beside exclusive, and both at once | refines `Session`; exact count, one session, no leaked buffer, a timer for every pending close, hidden and shown with reason |
| `OpenClose_hidden` | violation | see *Findings* |
| `HandFlow_shake` | buffers of 2, a null modem at one end and a loopback and an inverted pin at the other, each application chooses among three handshakes, two orders of any kind | pins show their outputs, holds follow the lines, lines tell their reason, no XON is lost, nothing waits that could move, ReadWrite ends; under fairness a held writer goes on |
| `HandFlow_cancel` | violation | see *Findings* |
| `SerialWrite_path` | 3 requests in five batches, with and without timeouts, a purge or a flush, cancels at every step | references are held by those who may still come, exact count of queued characters, reported results, the queue is served; under fairness every write ends |
| `SerialWrite_xoff` | violation | see *Findings* |

Bounds of `DataPath`.  A transmit ring of 3 has every relation of pBusy, pFree and
the end that one of 15 has; 4 characters in writes of 1 and 3 fill readBuf and more
than half of the ring, so that a write waits and the ring wraps.  The configurations
(`MCSettings`) are a plain line, a filter with a lower limit and WAIT_ONE reads,
baud rate emulation with reads that do not wait and with reads without timeout,
and overrun emulation.  The stripped characters come early, so that no stretch of a
wrapped ring is stripped as a whole: that case is `DataPath_overtake`.
The run does not check for deadlock: readers may wait for characters nobody writes.

Bounds of `IrpQueue`.  `MaxIo`, `MaxPurges` and `MaxRounds` count how often the environment acts;
no action of the driver is bounded.  Three requests are one current, one queued
and one arriving, which is what the flags and the completion list tell apart;
the order of four is needed to overtake.  `IrpQueue_kinds` mixes XOFF_COUNTER and
IMMEDIATE_CHAR and passes only because it has two requests: with four of them
finding 2 also breaks `FlagsMatch` and `PendingIsOwned`, with five `Released` and
`UntouchedAfterCompletion`.  The theorems about these, which have no bound, exclude the
mix (`NoOvertaking`).  Symmetry is used only when either all
requests may be cancelled or none, and never for liveness.  In `IrpQueue_kinds` one
of the two may be cancelled, whichever comes first in the queue, and no symmetry
is used.  It has one round of ReadWrite per dispatch, since with a second one the status of
a request its own dispatch ended is overwritten (startirp.c:302), which `Requests` does
not allow; what that can hide is `PendingIsWhole`, checked with a second round in
`IrpQueue_preempt`.

Bounds of `OpenClose`.  Two opens let one application open a port while the other
closes it, with the timer, the DPC and a query of the close still to come, or use
the other port, which is what the modes look at.  Three opens, so that a port is
opened again after such an overlap, were checked once by hand (1.6 million states).
Timers and queries are not bounded.  The applications are symmetric: no action
and no property names one.  It does not check for deadlock: once the opens are
used up everybody has left.  That a pending close ends is not checked as
liveness: `PendingCloseHasTimer` says that a timer or a DPC is always on its way,
and the kernel does the rest.

Bounds of `HandFlow`.  A readBuf of 2 has the three positions that matter to a
handshake: below XonLimit, between the limits, crowded.  A txBuf of 2 holds an XON
or XOFF behind a data character.  Two orders (settings, lines by hand, purges,
closes) let a handshake be replaced while it holds the other end; requests, opens and
rounds are not bounded by it.  What `NothingHeldBack` names "limit" takes more orders
than these: it was found by simulating longer histories.  `MaxRounds` (5) is no guard: it is what
`ReadWriteEnds` checks.  Fairness: the lock is dropped again and again (weak
fairness of `Transfer`, written out, which is due as long as `engine` names a port),
an open that began comes to its second section, and an application that may read
again and again does so (strong fairness, since others hold the lock in between).

Bounds of `SerialWrite`.  Three requests are one current, one queued and one that
counts or is immediate; a write of 2 with a FIFO of 1 can time out half sent.  Each
batch has at most one XOFF_COUNTER, since a second one overwrites CurrentXoffRequest
while the first counts, which the code asserts never happens.
Fairness: timers expire, and DPCs, timer and cancel callbacks get the lock.  It is
stated as "not pending, again and again", which is weak fairness of these actions:
each takes away what enables it, and so does who stops a timer or a cancel routine
in time.  None for characters: flow
control may hold them back for ever, and then the timeouts must end the write.
The run does not check for deadlock: once every request is done nothing is left to
do.

Fairness.  Weak fairness of every thread of the driver and of IoCancelIrp once it
began: DPCs, dispatch and cancel routines run to their end, and spin locks are
held for bounded sections.  Weak fairness is enough for the lock because the
environment acts boundedly often.  Nothing makes an application send or cancel.
`DataPath`: weak fairness of the holder of the lock, and strong fairness of timer ticks with a limit above 0, since
GetWriteLimit counts the frames since the timer was started and what was not sent
adds up, so that a limit of 0 cannot come back for ever.

## What is proved

Every theorem is about `Spec`, for every value of the constants.  The assumptions on
these are `IrpAssumption`, `DataAssumption`, `OpenAssumption`, `HandFlowAssumption` and
`SerialAssumption`, which TLC evaluates in each run.  Two groups of theorems have a
hypothesis of their own, `NoOvertaking` and `Plainly`; each leaves out what a finding
shows to be false without it.  Each inductive invariant was checked by TLC on the
instances of the runs before it was proved.

### The queue of requests

`IrpQueueProofs`.  Three theorems hold for every mix of kinds:

- `TypeCorrect` (`TypeOK`).  TypeOK alone is not inductive: that a step
  moves at most the rest of a request needs to know that the request at work is
  one of the queue (`WellPlaced`), and which requests are held where (`Held`).
- `NeverCompletedTwice` (`CompletedOnce`).  The invariant is that each
  request has at most one owner of its completion (`OneOwner`): its cancel routine
  is set, or the cancel routine runs, or the engine holds it, or it is on exactly
  one completion list, or its dispatch is on its way to complete it, or it was
  completed; and no list holds it twice (`ListedOnce`).  Each action passes the
  ownership on.
- `CancelNeverLost` (`CancelledEnds`).  The converse of the single owner: a
  request that was sent and not given back has one (`SomeOwner`), and where
  IoCancelIrp found no cancel routine and one is set now, the thread that set it
  has still to look at `Cancel` (`Noticed`).  It holds for every mix of kinds.

The next adds where each request is.  `NoOvertaking`, a hypothesis of its
theorems, says that the queue does not get both XOFF_COUNTER and IMMEDIATE_CHAR
requests; with both, finding 2 makes StartIrp forget a request that is current.

- `FlagsNeverLie` (`FlagsMatch`) and `NoDanglingIrp` (`Released`).  The invariant
  `PlacesInv`: nobody is in the queue twice and the flags say where (`Sound`), a
  request that is in the queue has the cancel routine or is known to who holds the
  lock (`Engaged`, `Charged`, `Dispatched`), a counting XOFF_COUNTER has nobody
  behind it (`Alone`), and an empty pCurrent means an empty queue (`NotStuck`).
- `PendingNeverLost` (`PendingIsOwned`), by `ReachableInv`: whose cancel routine is
  set is in the queue, or the thread that holds the lock has still to give it back.
- `NeverOutOfOrder` (`InOrder`), an action property: who joins the line, who passes
  whom, and who moves.  The place operators let nobody pass one that stays (`Before`,
  and a lemma for each operator), and by `PlacesInv` the one that leaves is the
  current one, which its ender has just given up, or the one that is cancelled.
- `NoWriteAfterCompletion` (`UntouchedAfterCompletion`), an action property.  Who
  writes to a request may complete it, takes it through the queue, or is its own
  dispatch (`OwnInv`); none of them does so after IoCompleteRequest.

One more needs nothing of the places, and holds for every mix of kinds:

- `PendingHidesNoFailure` (`PendingIsWhole`), by `FullInv`.  While the dispatch of a
  request holds the lock no timeout has marked it, and what a thread puts on its
  list meanwhile is full or cancelled (`EndsFull`).  That an XOFF_COUNTER which the
  sweep or a write ends has sent its character is `Remembered`.

### Open and close

`OpenCloseProofs`, for any finite number of applications and opens and any modes:

- `OpenTypeCorrect` (`TypeOK`), `CountNeverDrifts` (`OpenCountExact`),
  `NeverTwoSessions` (`OneSession`), `BufferNeverLeaks` (`BufferOfSession`) and
  `CloseNeverStuck` (`PendingCloseHasTimer`).  None of them is inductive alone.  The
  invariant `IInv`
  joins them: at most one application is inside a port (`Sole`), isOpen and
  readBuf follow where it is (`OpenByOne`, `BufferByOne`), the close queue holds
  exactly the one that waits (`WaitsAlone`, `TimerRuns`), and the count is the
  number of those who raised it (`CountRight`).  The next one to get in needs a
  count of 0, hence an empty port; that the count is exact in turn needs that
  the queue a cleanup or a query empties holds at most one close, and never
  that of another session.
- `HiddenOnlyWithReason` (`ShownWithReason`), by `Queried`: for each port a query is
  owed (it was asked for, or somebody is between the change of isOpen and
  IoInvalidateDeviceRelations), or the stage of the query and what it showed last
  agree with isOpen of both ports.

- `SessionsKept` is the refinement, `Spec => KeepsSessions`.  By `IInv` the place of
  the one application inside a port decides the abstract stage (`StageFacts`); an
  action either keeps everybody in the same part of the code (`MovesWithin`,
  `MovesOutside`, `NothingMoves`: a stutter) or takes one application to the next
  part (`MovesOn`: a step of `Session`).

### The way of the characters

`DataPathProofs`, for every configuration of the ports, sizes of the buffers and
lengths of the requests.  Most of it says what each step does (the `Effect` of the
step, and the lemma `...Does` that it has it); the copies are described by what they
take and leave (`ConsumedIs`, `StoredIs`, `Fed`).

- `DataTypeCorrect` (`TypeOK`).  The invariant `Shape` adds that something is left of
  each write, that only the current read has characters, and what the place in the loops tells about the queues
  (`Engaged`: in the loop over txBuf somebody reads, in SendTxBuffer nobody does, and
  the last loop finds a read and a write only if the limit is used up, which is why
  overrun emulation never drops what a read waits for).
- `LosesOnlyWhenFull` (`LostOnlyWhenFull`), an action property, from `Shape` alone:
  each step keeps every character that is in some place, hands it to the reader, or
  loses it to the filter, a purge, a cancel or a full readBuf (`LossStep`).

`DataPathFlow`, for a receiver that strips no characters (`Plainly`; `port` does not
change, so the hypothesis is about the initial state).  It has to be there: with a
filter finding 3 breaks the order, and then neither `ReadInOrder` nor the refinement
holds.  The invariant `FlowInv` joins `Shape` with

- `Fine`: what was read and what is in transit, in a row, are some of the written
  characters in their order;
- `EnoughLimit`: without baud rate emulation the limit covers all that waits;
- `Drained`: what is already empty where the section is in its loops, or which limit
  or full buffer kept it from being so;
- `AtRest`: what a section leaves.

None of the parts stands alone: that no write overtakes txBuf needs `Drained`, that a
section may leave its first loops needs `EnoughLimit`, and that needs that no
character was counted twice (`Fine`).

- `NoReadStarves` (`PendingReadIsHungry`) and `RoomIsUsed` (`NothingWaitsForRoom`)
  follow from `AtRest`, `ReadsKeepOrder` (`ReadInOrder`) from `Fine`.
- `DataIsACable` is the refinement, `Spec => BehavesAsCable`.  Each step carries the
  oldest characters to the reader (`Carries`, Wire's `Arrive`), cuts a stretch out of
  what is in transit with a reason (`Drops`, `Lose`; that no other character equals one
  of the stretch is `Fine`), appends a write (`Sends`, `Send`), or stutters
  (`StepKinds`, `CableStep`).

Facts about sequences of any length, such as what the flattening of a queue or a
filter gives (`DataSequences`), are proved from the shortest counterexample, since
the naturals are well founded.

### Lines and handshakes

`HandFlowProofs`, for every wiring of the pins, every size of the buffers and every set
of handshakes:

- `FlowTypeCorrect` (`TypeOK`), `PinsFollow` (`StatusFollowsPins`),
  `WriterHeldByLines` (`HoldingFollowsStatus`) and `ReasonsToldByLines`
  (`LineTellsReason`).  The invariant `LinesInv` joins them with what is true of each
  port (`Good`: the limits, and what a closed port has not), of the pins
  (`Follows`), of the writer (`Held`), of ports not added yet (`Unborn`) and of the
  lines of handshakes (`Telling`).  Most of the proof is about the operators: what
  SetModemStatus, SetModemControl, UpdateHandFlow, SetHandFlow and TryReadWrite each
  return, with the cases in which a change of one line comes back through a
  loopback to the same port.
- `XonAlwaysOwed` (`XonIsOwed`), from `LinesInv` and `XonOwing`.  That `XonIsOwed` holds
  is not enough to go on: an XOFF that is still in txBuf will hold the other end when it
  arrives.  So `XonSafe` also says that a port with an XOFF to send or in txBuf holds
  the other end or has an XON behind it (`Told`), and that a port which does not obey
  XON and XOFF is held by its own XOFF only (`Obeys`).  What counts in a stretch of
  txBuf is its last XON or XOFF (`LastIs`), which is the one that the receiver obeys:
  `HeardFromTx` splits txBuf where the room ended, `HeardDirectly` and `Appended` are the
  two ways of sendXonXoff past it and into it.  The first is only right when txBuf is
  empty; `Clear` and `SameRoom` carry through TryReadWrite that there is no room otherwise.
  `Clean` names what the property leaves out: a hold changed by hand, a close, and
  finding 5.
- `NothingIsHeldBack` (`NothingHeldBack`), from `LinesInv` and `HeldInv`.  The property is
  about moments when the lock is free, and what happens while it is held may make room
  or let a writer go again and again.  So `Serving` speaks of every moment: a port that
  could send asks for ReadWrite or finds the other end `Full`, unless ReadWrite is to
  run for it next (`Due`).  Three lemmas carry it.  Whatever a handler does to lines,
  holds and sendXonXoff leaves `Awake` true: who becomes able to send asks
  (`StatusHoldingStir`, `SetControlStir`, `XonXoffStir`, `BreakStir`, `UpdateStirs`,
  `SetHandFlowGoes`).  A round leaves the writing port served and the other as it was
  (`TryReadWriteServes`), which needs that the read is exhausted before readBuf is used and
  that a break left to send is a hold (`Sound`).  And a limit of readBuf is always the one
  that SetLimit would compute (`Limited`), so an open does not raise that of the other
  port.  The close of an end runs no ReadWrite: with an inverted pin it may let the
  writer of the other end go, which then asks in vain until the end is opened again
  (`Asked`).  The instances have no such wiring; it was met in the proof, and the
  property allows for it.

### The transmit side of the UART driver

`SerialWriteSteps` and `SerialWriteProofs`, for any number of requests of any length in
any batches, with at most one XOFF_COUNTER in each (`SerialAssumption`).  The
invariant `Inv` (`Invariance`) has three parts.

`IInv` says of each slot (write, immediate, XOFF counter) in which mode its request is:
at rest, about to be started, due to be completed, or just called by the ISR or the
timer; and for each mode which references it has and who may still come (`Work`: a
reference of the ISR means characters left or a DPC queued, one of the timer means
that it runs, fired, or was abandoned as finding 6 says, one of the cancel routine
means that it is set or called).  No request is in two slots (`Apart`) or twice in
the queue (`Once`), and one that is in neither was not issued or is done (`Placed`).  A
callback is a sequence of operators on the state; a lemma for each says which mode it
takes the slot from and to, and that the other slots and the queue stay (`Lends`,
`Admits`, `Dismisses`).  `Balanced` is the count of characters, `QueueServed` is
inductive together with these.

- `SerialTypeCorrect` (`TypeOK`), `ReferencesAreHeld` (`RefsAreHeld`) and
  `RequestsEndAsPromised` (`EndsAsPromised`) follow from `IInv`.
- `CharsQueuedIsExact` (`CharsQueuedExact`): TotalCharsQueued is the size of a set of
  characters, one for each that a queued or current request has left; a callback
  that enters or removes a request adds or takes away its part (`NumberWithout`).
- `WriteQueueIsServed` (`QueueServed`).

### What stays with TLC, and why

- Liveness (`TimeoutEnds`, `WriteEnds`, those of `DataPath` and `HandFlow`): the
  prover has no ENABLED and no fairness.
- `AmountExact`, `NothingLeftToSend`: sums over the sets of requests, which are
  folds; each action would need how the sum changes with one request.
- `KeepsPromise` (the refinement of `Requests`) holds in the run but not for every
  value: with a second round (`MaxRounds` above 0) the StartEnd of a request that its
  own dispatch completed in that round overwrites its status with STATUS_PENDING.
- `ReadWriteEnds` of `HandFlow`: its bound is a number of the instance, and in general it
  needs a measure that every round of ReadWrite takes down.
- `DataPath` with a filter: in the configurations of `DataPath_cable` the stripped
  characters come early, and the four theorems of `DataPathFlow` hold there as well.
  For all filters they are false (finding 3).

## Findings

1. `amountInWriteQueue` is increased twice for a write that takes over from a
   counting XOFF_COUNTER, and wraps below zero when a write is cancelled before it
   was accounted for (`IrpQueue_amount`; the run stops at the second, and at the
   first when nothing may be cancelled).
2. A write that takes over from an XOFF_COUNTER resumed after an IMMEDIATE_CHAR
   overtakes the write queued before it and orphans it (`IrpQueue_order`).
3. A stretch of the transmit ring that the receiver strips as a whole ends
   ReadFromTxBuffer, and the current write overtakes the rest of the ring
   (`DataPath_overtake`).
4. An exclusive port asks for the query that hides it before it sets isOpen: the
   query may come too early, and the open port stays visible (`OpenClose_hidden`).
5. `sendXonXoff` holds an XOFF that was not sent or an XON that is owed.  An XOFF that
   replaced an owed XON is taken back by SetHandFlow, and the XON with it: the
   writer of the other port waits for good (`HandFlow_cancel`).
6. SerialTimeoutXoff of the serial sample does not name its timer, so the reference
   of the timer stays: an XOFF_COUNTER whose time is up is never completed
   (`SerialWrite_xoff`).

Beside these the models show behaviour that no text of the repository speaks about;
the properties leave it out, by name, and the hazards list it:

- A second round of ReadWrite inside a dispatch may end the request that is
  dispatched; StartIrp then writes STATUS_PENDING over its final status, and the
  request is given back with it.  That it has a final status is therefore no
  property; `PendingIsWhole` says that the request got all it asked for or was cancelled.
- `NothingWaitsForRoom` and `NothingHeldBack` fail once PURGE with RXCLEAR made room:
  without handshake nothing runs ReadWrite then.
- `NothingHeldBack` also fails once SetHandFlow raised the limit of a readBuf that was
  full up to it: SetLimit makes room, and ReadWrite runs only if a port asks for it.
- The close of an end may let go the writer of the other (a pin wired inverted to what
  the close drops) and runs no ReadWrite: tryWrite stays set until somebody runs it.
  Nothing is held back, since a closed end takes nothing (`NothingHeldBack`).
- A pin wired to OUT2 of the port that is added last does not show it
  (`StatusFollowsPins`).
- RTS switched from handshake to transmit toggle while it holds the other end keeps
  the reason, and no other handshake of that port works from then on
  (`LineTellsReason`).
- SerialFlush of the sample stops the write queue; a write that ends just then
  starts no successor (`QueueServed`, "paused").
- IsQueueEmpty of the sample is false while an XOFF_COUNTER from the write queue
  counts: the next write is queued and nothing starts it (`QueueServed`,
  "delivered").

## Not modelled

- com0com: the pointers of the ring of readBuf and its resizing, the interval timer
  of reads and the MAXULONG cases, the event mask of WAIT_ON_MASK, how many
  characters a tick of the write delay lets pass, inserted status bytes and noise.
  The models of the same code take any number of characters, or any moment, where
  these decide; a model of each alone would repeat single assignments.
- Device creation and removal, power, WMI, names: sequential code between the PnP
  manager and the registry.  The setup programs: the same with SetupAPI and a GUI.
- The read side, waits, modem lines, PnP and power of the serial sample.  The
  other WDK samples (toaster, cancel, USB, echo, keyboard filter, setup tools) are
  vendored copies, several of them stages of one driver, which nothing here uses.
- WinSpy++, enumser, InterfaceEnum, prjskeleton: a GUI, enumerations, a skeleton.

## Plan

The modules in the order of their making: `IrpQueue` over `Requests`, `DataPath` over
`Wire`, `OpenClose` over `Session`, `HandFlow`, `SerialWrite`; the proofs in the order
`IrpQueue`, `OpenClose`, `HandFlow`, `SerialWrite`, `DataPath`.  What is worth proving
next: `AmountExact` of `IrpQueue` with sums over finite sets as `CharsQueuedIsExact` has
them, and a condition on the filter, weaker than `Plainly`, under which the order of
`DataPath` holds.
