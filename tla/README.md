# QAQ: a verification development

QAQ is a C++ framework for STM32 microcontrollers on top of the ThreadX kernel
and the NetX network stack. Its own logic is about 27 000 lines of headers under
`src/api`; `src/lib`, `src/core` and `src/port` are the vendored kernel, network
stack, ST drivers and board support. The repository has no tests, and its
documentation is three files: `api/base/uart/uart.md`,
`api/net/tcp/tcp_server.md` and a README of two lines. What the code promises is
therefore mostly in the comments beside it.

The modules here model the parts in which threads, interrupt handlers and
transfers meet; TLC checks them on small instances and TLAPS proves the most
important properties for all instances. This file says what is in each module,
how it corresponds to the code, what is checked and proved, and what is not.

## 1. Inventory

### The parts and how they interact

| Part (`src/api/...`) | State | Operations | Hard behaviour |
|---|---|---|---|
| Read/write lock `system/kernel/read_write_lock.hpp` | two semaphores, two mutexes, two counters | `lock_read`, `unlock_read`, `lock_write`, `unlock_write`, two guards | interleaving of counters and permits, timeouts that have to be undone, blocking with a mutex locked, writer preference |
| Semaphore, mutex, event flags, message queue `system/kernel` | one ThreadX object each | acquire/release, lock/unlock, wait/set/clear, send/receive | suspension lists, timeouts, queue sizes in words rather than bytes |
| Ring buffer `system/memory/ring_buffer.hpp` | `m_head`, `m_tail`, `m_roll_back_save`, the slots | push, pop, read, write, peek, roll_back, clear; transfer-facing modes INPUT_SINGLE, INPUT_DOUBLE, OUTPUT | wrap-around, full against empty, stale roll-back point, transfers that run while the indices move |
| Stream devices `system/device` | two ring buffers, event flags, `m_opened` | read, peek, write, flush, open, close; the Device_Manager's thread | lost and stale wake-ups, dropped posts, transfers that overlap |
| UART `base/uart` | configuration, DMA channels, callbacks | manager handler, send, receive, interrupts | the order of the DMA interrupt, the line interrupt and the deferred handler |
| Signals and slots `system/signal` | hash table of groups and receiver nodes under the read/write lock, pools | connect, disconnect, emit, blocking emit | nested emission under the lock, handlers that connect, the count of a blocking emission |
| Objects `system/object` | package queue | post_signal, destruction | a receiver destroyed with packages queued |
| Threads `system/thread` | NOT_INIT, SUSPENDED, RUNNING, EXITED | create, start, suspend, resume, stop, exit | the state variable against the kernel's state |
| Software timers `system/soft_timer` | timer object | start, stop, change | expiry racing a stop |
| DMA `base/dma` | a bitmap of channels, a state per channel | open, start, stop, close | allocation without a lock |
| Interrupts `base/interrupt` | handler table, queue, thread | register, unregister, dispatch | unregistering with messages queued |
| TCP server `net/tcp` | clients, flags, server thread, timer | start, stop, accept, receive, time-out check | callbacks of the stack, flags set non-atomically |
| Network manager `net/base` | link state | start, poll | start-up order |
| Strings, format, parse | none shared | pure | sequential text processing |

Calls go downwards: a stream device owns two ring buffers and an event flags
group and posts messages to the Device_Manager's queue; that thread (priority 3)
calls the device's `manger_handler`, which starts a DMA transfer; its end raises
interrupts whose deferred half runs on the Interrupt_Manager's thread (priority
2), which calls back into the device. Signals use the read/write lock and the
receivers' package queues; the TCP server uses devices, timers and threads.

### What makes each part correct

* Lock: a writer excludes everybody; permits are conserved over every timeout;
  unlocking takes bounded time; nobody starves beyond the stated preference.
* Ring buffer: a bounded first-in first-out queue with an undo of the last pop.
* Stream output: bytes leave in order, once each; room is reused only after the
  byte left; `flush` means sent; no wake-up is lost.
* Stream input: bytes are delivered in order, overruns excepted; a reader that
  waits is woken.
* Signals: an emission reaches the receivers connected, a disconnected or
  destroyed receiver is never called, a blocking emission returns after the last
  handler, no cycle of lock waits.
* Threads: the state variable agrees with the kernel at rest; start after stop
  works; a timer does not fire after stop.
* TCP server: client counts agree with the sockets; an idle client is closed
  within the documented time.

`PROJECT.json` lists every part with its status, and under `hazards` what in the
code is hard to test, each at its line, with the properties that watch it.

## 2. Modules

### ReadWriteLock, ReadWriteExclusion

`ReadWriteLock` models `Read_Write_Lock` with one step per semaphore call, per
mutex section and per expiry. `pc[t]` is the place of a thread in the source:
the labels `R_*` are `lock_read`, `U_*` `unlock_read`, the first four `W_*` and
`W_Resource` `lock_write`, `W_Release` and `W_Leave*` `unlock_write` or the way
out of a failed `lock_write`. A mutex section that makes no blocking call in
between is one step; where the code blocks on a semaphore with a mutex locked,
the mutex stays owned over several steps. `suspended[s]` is the first-come
first-served suspension list of ThreadX: `Release` hands the permit to its head,
`Expire` takes a thread out of it. The counters are unsigned, modulo `Modulus`.

`CheckStatus` says whether callers test the returned `Status`. FALSE is how
`Read_Guard` and `Write_Guard` behave: the section runs and the destructor
unlocks also after a failed call. A thread does not take the lock again while it
holds it (the code has no support for that).

`ReadWriteExclusion` is the promise of the class comment: readers together, a
writer alone, no reader admitted while a writer that announced itself waits.
`KeepsPromise` is the refinement: who has been admitted is read off `pc`.

### RingBuffer, BoundedQueue

`RingBuffer` models `Ring_Buffer_Base`: `head`, `tail`, the slots and
`roll_back_save`, with one action per operation; the public operations run under
an `Interrupt_Guard`, so each is atomic. The two-part `memcpy` is modelled as the
two parts it copies. `reply` holds the last call with its arguments and its
result, so that the refinement also pins what callers are told. `mark` is a
history variable: what the saved roll-back point stands for. `Careful` limits
callers to roll-backs of an entry that is still there.

`BoundedQueue` is the abstract specification: a sequence of at most N - 1
entries and an undo of the last pop.

### StreamOutput, ByteChannel

`StreamOutput` models the buffered output of a stream device that is a UART
sending by DMA, from the caller to the wire:

| In the model | In the code |
|---|---|
| `CallWrite`, `Check`, `Wait`, `Write`, `Filled`, `Post` | the loop of `Stream_Device::write`, one step per call it makes on shared state |
| `CallFlush`, `FlushWait`, `FlushOK` | `Stream_Device::flush` |
| `Expire` | the timeout of `Event_Flags::wait` |
| `PostOther` | other devices using the Device_Manager's queue |
| `Receive`, `ReadIndices`, `CopyOut`, `Send` | the Device_Manager's thread in `manger_handler`: `output_start` in its three reads, then `Config::send` and `Dma::start` |
| `Transmit`, `Interrupt` | the hardware; the DMA and the line interrupt, which queue a TC message |
| `Complete`, `Finish` | the Interrupt_Manager's thread: `Ring_Buffer::output_complete`, then `Transmit_Finish` is set |
| `Deinit`, `Close`, `SetClose` | `Device_Base::close` |
| `Open`, `ClearFlags` | `Device_Base::open` of a device that was used before |

Bytes are numbered in the order the buffer takes them, so slots, `m_ex_buffer`
and the wire hold numbers, and `m_tail` is `accepted % N`. `sent` and `garbled`
are the history of the wire: how many bytes came out in order, and whether one
ever came out that was not next. `Styles` is how the device is used: writes may
fill the buffer and nobody flushes (`"fills"`), writes leave room and are
flushed without a timeout (`"flushes"`), or both (`"mixed"`).

Assumed: the Interrupt_Manager's thread (priority 2) is not preempted by the
Device_Manager's (3) nor by a thread that writes, so between `Complete` and
`Finish` only hardware and the posts of other devices happen. A transfer of no
bytes never completes, as the DMA stream is not enabled with a length of zero.
The interrupt of the DMA stream and the line's transmission-complete interrupt
it enables are one step.

A device is closed at any moment. `open` neither empties the buffer nor clears the
flags before `m_opened` is set, so what a second opening finds depends on how the
first one ended. Outside the `"mixed"` style a device is opened again only when its
buffer is empty and no call is under way (`Open`), and calls begin when `open` is
done (`MayCall`). Under that condition a transfer message, a TC message or an
`m_output_size` left from before does no harm; without it `WriterReturns`,
`WireInOrder` and the refinement are violated.

`ByteChannel` is the promise: bytes are counted in, out, and given back, in that
order, with room for N - 1.

### SignalManager, MCSignalManager

`SignalManager` models the table of connections and everything that meets in it.
The lock is `ReadWriteExclusion`, the abstract specification that the detailed
lock implements, so a step of the lock is one step here.

| In the model | In the code |
|---|---|
| `CallConnect`, `CallDisconnect`, `CallDisconnectSignal` | `Signal_Manager::connect` with `check_receiver_and_type`, `disconnect`, `~Signal` |
| `AnnounceWrite`, `BeginWrite` | `Write_Guard` |
| `AddConnection`, `RemoveConnection`, `RemoveSignal`, `RemoveReceiver` | the operations of `Signal_Hash_Table` |
| `CallEmit`, `LockEmit`, `Count`, `OutOfSemaphores`, `BeginWalk`, `Visit` | `Signal_Manager::emit` with its three read guards, `get_blocking_connection_count`, `for_each_connection` |
| `Execute`, `ExecuteFails`, `HandlerReturns`, `Posts`, `PostFails`, `PostFaults` | `execute_signal`, one action for each way a package may go |
| `Receive`, `Process`, `DestroyPackage` | `Object::process_signal` and `Signal_Blocking_Data` |
| `Destruct`, `ClearOne`, `Cleared`, `Invalidate` | `~Object`, `clear_signal`, `~Object_Base` |

`table[s]` is the `Connection_Group` of a signal, its `nodes` in the order of the
list. `free_groups` holds what the free blocks of the pool contain, because the
constructor of a group leaves `blocking_count` as it finds it; `inherited` is the
history of that. A queue holds a quarter of the messages it is declared for, and
`enqueued` divides once more: the wrapper takes bytes for words.

Assumed: an object is destroyed by the thread that processes its signals and is
given its affinity thread before it is connected; a handler does not itself use
the signals; the memory of a destroyed object can still be read, with `m_valid`
FALSE. `PostFaults` is where the code calls through the null pointer that
`~Object_Base` leaves; nothing runs after it.

### BlockingEmit

The waiting loops of `Signal::emit` and `Signal::operator()`, the releases by the
threads that process the packages, and the semaphore block they share, down to
each read and each write of `used`. `SignalManager` has the walk that posts the
packages and ends before the wait; here a package is posted to each of some
threads in one step.

### StreamInput

The buffered input of a stream device that is a UART, in the three modes the
configuration offers: every byte by interrupt (`"bytes"`), DMA into the ring or
the extra buffer (`"single"`), DMA into two halves in turn (`"double"`).

| In the model | In the code |
|---|---|
| `CallRead`, `Loop`, `Wait`, `Read`, `Check`, `ClearFlag`, `Expire` | `Stream_Device::read`, one step per call it makes on shared state |
| `Clear`; `Deinit`, `Close`, `SetClose`; `Open`, `PostEnable` | `clear`; `Device_Base::close`; `open` |
| `StartReceive` | the Device_Manager's thread: `input_start` and `enable_receive` |
| `Hold`, `Lose`, `PushByte`, `Land`, `LandInHalf`, `SwitchHalf` | a byte on the line: receive register, interrupt, DMA stream; `switch_buffer` |
| `Idle` | the direct handler of the idle line, and its message |
| `Complete`, `NextTarget`, `Restart` | the Interrupt_Manager's thread: `irq_queue_handle`, `received_complete_callback` |

Bytes are numbered as they arrive, and 0 is whatever else a memory holds, so that
a byte that is read twice, too early or out of order shows. The
Interrupt_Manager's thread is not preempted by the others, as for the output.

In some situations the code loses or repeats data. `damaged` names them, and the
properties do not speak of what comes after:
* `clear` while DMA writes into the ring and its target is not slot 0;
* `open` with data in the ring while a reader is about to wait (the flag that
  told of the data is cleared);
* a reception that starts with `m_is_used_ex_buffer` left over from a close, or
  with a byte waiting after which the line was already idle;
* a full half that does not fit into the ring, or one that is switched while
  `received_complete_callback` runs.

Three more are named where they matter: `Overrun`, the end of a `"single"`
reception with more bytes than the ring has room for (only that one step of
`Complete` may disturb what is unread); `dropped`, a message the full queue of the
Interrupt_Manager did not take; and `refused`, an Enable_Receive that the full
queue of the Device_Manager did not take. `post_event` sends without waiting and
`open` ignores that it failed, so each opening, the first one too, may leave a
device that never receives (`Posts`, `Init`). How full that queue is depends on
other devices, hence the choice.

### ThreadLifecycle

A `Thread` object, its ThreadX thread and one thread that controls it. A call is
one or two of the steps suspend, resume, stop, reset and delete (`doing`,
`then`), and each of these but the deletion has three stages (`stage`): the test
of `m_status` (`AskSuspend`, `AskResume`, `AskStop`, `AskReset`), the kernel's call
(`Suspend`, `Resume`, `Stop`, `Reset`) and the assignment (`Suspended`, `Resumed`,
`Stopped`, `ResetDone`). The code takes no lock, so the thread runs between any
two of them, and m_status and the kernel's state may have changed when the next
one comes. The thread may sleep, suspend itself (`AskItself`, `SuspendItself`,
`SuspendedItself`, again three steps), end itself (a `stop()` of its own,
a stack overflow) and return from `run()`; `thread_entry` assigns EXITED before
the kernel completes the thread. `state` and `delayed` are the kernel's
`tx_thread_state` and `tx_thread_delayed_suspend`; "sleep" stands for any wait.

`strayed` records five things that make `m_status` untrue, since the last stop:
a suspend of its own ("itself"), an end of its own ("ended"), an exit after
`suspend` or `resume` asked m_status, whose EXITED the assignment then replaces
("overwritten"), a resume while a suspension is put off
until the end of a wait ("lifted"), and a reset that leaves such a suspension
behind ("stale").

Assumed: one thread controls the object, and only one that was created. No
priorities are modelled, as the interleavings of a more urgent thread, of a less
urgent one and of a time slice are all among those of the model.

## 3. Runs

| Run | Expected | What it shows |
|---|---|---|
| `rwlock` | pass | three threads, both roles, finite and infinite timeouts, status tested: `TypeOK`, `WriterIsAlone`, `PermitsConserved`, `ReaderFindsResource`, `UnlockIsPrompt`, the refinement `KeepsPromise`; `TimedCallReturns`: a finite timeout also bounds the two mutexes the call waits for without one, even if no holder ever unlocks; `WriterIsServed`, `ReaderIsServed` when callers unlock |
| `rwlock_guard` | violation | `WriterIsAlone` through the guards with a finite timeout |
| `ring_buffer` | pass | `TypeOK` and the refinement `ImplementsQueue` for 4 slots, two kinds of entry, every write of 0 to 4 entries |
| `ring_roll_back` | violation | `RollBackIsHonest` for callers who do not know whether the buffer changed |
| `stream_output` | pass | one writer, 3 bytes of room, writes of 1, 2 and 4, closed at any moment and opened again: `TypeOK`, `WireInOrder`, the refinement `ImplementsChannel`, `FlushMeansSent`, `WriterReturns` |
| `stream_flush` | violation | `FlushMeansSent` when the writes before the flush filled the buffer |
| `signal_table` | pass | two threads and an object, any order of connects, disconnects, destructions, emissions and processing: `WalkSeesTable` and `TotalIsCurrent` (the list and the total of an emission hold while it walks), `CountFollows` (the count of blocking connections does not drift), `ReleasedOnce` (a blocking connection that was met never releases the semaphore twice, and one that has not yet is accounted for: a ledger, in which a package that stays in a queue is pending, so it does not say that the emission's wait ends), `HandlerHasReceiver`, `WriterGetsTable` |
| `signal_count` | violation | `CountIsExact` after a signal with a blocking connection was destroyed |
| `blocking_emit` | violation | `ReturnMeansHandled` for `Signal::emit` with two blocking connections |
| `stream_input` | pass | one reader, all modes, bytes at any time, clear, close and open: `ReadInOrder`, `RingIsQueue`, `NoSleepOnData`, `ReaderWoken`; the message that starts a reception may be refused |
| `stream_idle` | violation | `ByteReaderWoken` for a UART that receives by interrupts |
| `thread_lifecycle` | pass | any order of eight calls: `ExitedIsOver`, `StatusIsTrue`, `StartRuns` |

### Bounds

* Lock: with three threads there is a holder, a waiter and a third that arrives
  or times out, two readers against a writer and two writers against a reader:
  first, last and middle of every counter. `Modulus = 4` is the smallest that
  counts three threads; the theorems hold for every modulus above their number.
* Ring buffer: 4 slots wrap around at every offset; writes go one beyond what
  fits; reads ask for 0, 1, 2 and 4. Two kinds of entry tell a lost from a
  repeated or swapped one. Nothing else is bounded: the run covers all states.
* Stream output: writes of 1, 2 and 4 bytes meet every offset of 4 slots;
  4 does not fit at once, so a write sends and waits in the middle. `MaxBytes = 9`
  lets the indices go around twice; it is a bound on `CallWrite` only. `MaxOpens = 1`
  is a second opening at every offset of the indices. The queue holds 2 messages so
  that a full queue, and the failed post, happen. One writer: see the hazards for
  two.
* Signals: one thread that owns an object and one that does not are a walk and a
  change of the table, an emission and a destruction, a post and a receive. Two
  handlers of one receiver and a global function are the two ways `RemoveReceiver`
  may leave a node behind and a node it must not touch; two nodes and one group
  let both pools run out, and one message per queue a post fail. `MaxConnects = 3`
  and `MaxEmits = 2` reach a second connection after a removal, and two emissions
  at once or one after the other. `Words = 2` in place of 4 keeps the quotients of
  the queue: 4 declared messages are 2 in fact, and `enqueued` of 2 is 1.
* Blocking emission: three emissions on two blocks, so that a block is used again.
* Stream input: 4 slots, so `"single"` receives 3 bytes at most and `"double"` 2
  per half; an empty ring at slot 1 makes the first reception go into the ring and
  up to its end, and the next into the extra buffer. Four bytes fill a ring and
  find no room. One call of `clear` or of `close` (then `open`) at any point.
* Threads: eight calls of the controlling thread. Suspend, stop, reset and start
  of a sleeping thread, the longest sequence behind a name in `strayed`, are six.
  The theorems hold for any number.

`CHECK_DEADLOCK FALSE` is set where the system may stop: a device that was closed
or whose bytes are used up, signals and threads after their last call, a virtual
call through null. The lock and the ring buffer are checked for deadlock.

### Fairness

* Lock (`LockFairness`): a thread inside the lock's code keeps running (weak
  fairness), a finite timeout expires (weak fairness of `Expire`), and a mutex is
  handed over to a waiting thread when it is unlocked (strong fairness of the
  steps that lock one: ThreadX gives a mutex to the head of its list, so among
  threads of one priority nobody is passed over for ever). Semaphores need no
  fairness of their own, as their lists are in the model. `CallersUnlock`, that
  callers end their sections, is separate: the two properties of service assume it.
* Stream output (`LiveSpec`): the writer's thread runs when it can, timeouts
  expire, the two managers and the hardware go on, and a close or an open that has
  begun ends. Nobody is made to call `write`, `flush`, `close` or `open`.
* Signals (`FairSpec`): a thread goes on with a call it is in, handlers included.
  Nobody has to call, or to process a queue. A cycle of waits is real: an emission
  holds one read guard when it asks for the second and third, and a writer that
  arrives in between waits for it while the lock, by its preference for writers,
  makes the emission wait. `WriterGetsTable` says that this, and a call through
  null, are the only ways in which a writer does not get the table.
* Stream input (`LiveSpec`): the reader's thread, the two managers and a close or
  open that has begun go on, and a line that is silent is reported idle. No byte has
  to come, nobody has to call, and the reader's timeout need not expire.
* Threads (`FairSpec`): both threads are scheduled when they can run and every wait
  ends. `run()` need not return.

### Findings

1. `rwlock_guard`: `Read_Guard` and `Write_Guard` accept a timeout, ignore a
   failed lock call and unlock in the destructor, so that a writer may share its
   section although the class promises exclusive access.
2. `ring_roll_back`: `roll_back` reports SUCCESS after the buffer was refilled
   or cleared, where the content vanishes or stale entries come back, although
   `Status` has a value `ROLL_OVER` for it.
3. `stream_flush`: `write` leaves `Transmit_Finish` set when the buffer it filled
   has been sent; a later `flush` takes it for the end of its own transfer and
   returns OK at once. A write of one byte more than fits, then `flush`, is enough.
4. `signal_count`: the constructor of a `Connection_Group` does not set
   `blocking_count`. Connect a blocking receiver, destroy the signal, and the next
   signal to get the block counts a connection it does not have: its blocking
   emissions wait for ever.
5. `blocking_emit`: `Signal::emit` counts in `used`, as the handlers do, so that a
   blocking emission to two threads returns, and frees its semaphore, when one
   handler has run.
6. `stream_idle`: `irq_queue_handle` has no branch for a UART that receives by
   interrupts, so `received_complete_callback` is never called for it and a reader
   that sleeps is not woken by the bytes in the ring.

One disagreement with a comment shows without a run: `thread.hpp:597` says that a
thread restarts after `set_loop_time`, which stops and resets it (`CallSet`) and
leaves it suspended until somebody starts it. `StartRuns` speaks of `start` only.

The exceptions that the passing runs name are defects of the code, too, without a
line of the repository that promises otherwise; `PROJECT.json` lists them under
`hazards`, where they bite. The gravest are that a thread which calls its own
`suspend()` cannot be resumed by `resume()` or `start()`, which report SUCCESS, and
the cycle of waits between an emission and a writer of the signal table.

## 4. Proofs

`TLAPS` checks every theorem below; the assumptions are the named `ASSUME`s on
the constants, which TLC evaluates in the runs, and what the statement says.

`ReadWriteLockProofs`, for any finite set of threads:
* `TypeCorrect`: `Spec => []TypeOK`, with no restriction on the use.
* With `StatusRespected` (callers test the status, or only infinite timeouts
  are used): `MutualExclusion`, `FirstReaderNeverWaits`, `UnlockNeverBlocked`,
  `PermitsAreConserved`. Finding 1 shows that the condition cannot be dropped.

None of these properties is inductive. `Invariance` proves the inductive `IInv`,
the conjunction of `TypeOK`, `QueueInv` (who is on each suspension list, and that
nobody is suspended while a permit is left), `MutexInv` (the labels at which each
mutex is owned), `CountInv` (the counters are the numbers of threads at the
labels they count, and the first and the last are alone there), `PermitInv` (the
permit of each semaphore is with one thread of the exclusive kind, with the group
of the shared kind, or in the semaphore) and `TimeoutInv` (only finite calls
fail). `CountInv` needs the mutexes, `PermitInv` the counters and the lists, so
they are proved together, one lemma per conjunct over the kinds of steps that
`StepKinds` lists.

Its last section proves `Refinement`, `StatusRespected => (Spec =>
KeepsPromise)`. Each step leaves the admitted and the announced threads alone, or
moves one of them as `ReadWriteExclusion` allows; that a grant moves the head of
the suspension list, and that the head is where the mapping needs it, is
`QueueInv` and `PermitInv`.

`RingBufferProofs`, for every N >= 2, every set of entries and every amount:
* `TypeCorrect`: no index leaves the array, also for careless roll-backs.
* `Refinement`: `Careful => (Spec => ImplementsQueue)`. The content is written
  as a function of the indices, `SeqOf`, in which the wrap-around no longer
  shows; each operation is shown to change it as the queue changes. The invariant
  adds to `TypeOK` where the saved roll-back point lies relative to the head.

`ThreadLifecycleProofs`, for any number of calls: `TypeCorrect`,
`ExitedThreadIsOver` and `StatusTellsTruth`. `StatusIsTrue` speaks of the moments
between two calls and is not inductive. `IInv` adds what is known while a call is
between the kernel's work and its assignment (`CallShape`: which steps go
together, and what state the kernel's call left) and what is known of a thread
that has not strayed (`Truth`: a suspension that is put off belongs to a thread
that waits or is over, and a thread on its way out has said so). `Truth` holds at
each of the three stages of a call (`Calling` and `Assigning` say what m_status
and the kernel's state may be there); it is what shows that an assignment over
EXITED is the only way in which the gaps between the stages do harm. One lemma for the
calls, one for their steps, one for each thing the thread does.

`StreamOutputProofs` and `StreamOutputOrder`, for every size of the buffer, of the
writes and of the Device_Manager's queue, closed and opened again at any moment:
* `TypeCorrect`, for one writer (`OneWriter`).
* `WireKeepsOrder`: `WireInOrder`; `FlushTellsTheTruth`: `FlushMeansSent`;
  `ImplementsByteChannel`: the refinement `ImplementsChannel`. They also assume
  `KeepsToStyle`, that the device is not used in the `"mixed"` style.

`OneWriter`: nothing keeps two threads apart in the loop of `write`, and a device that
two of them write to is not promised anything (the hazard at
`streaming_device.hpp:1329`). `KeepsToStyle` cannot
be dropped, as finding 3 is a behaviour of the `"mixed"` style, and so is a second
opening of a device that still had something to send.
The invariant is `OrderInv`. Its heart is `OneTransfer`: a request to send is a
token that the writer is about to post, or is in the queue, with the
Device_Manager, with the DMA stream, or in the Interrupt_Manager's queue, and in
one of these places only. `Holds` says what the writer knows at each label, above
all that it leaves the buffer alone while the token is anywhere, so that the
indices which `output_start` reads at three different times belong together
(`ManagerHolds`). `WireHolds` says how far the wire is, for each place of the token.
The refinement then follows step by step: only `Write`, `Transmit` and `Complete`
are steps of the channel.

`SignalManagerProofs`, for any threads, objects, signals, handlers, bounds and
queue length: `TypeCorrect`, and `CountDoesNotDrift`: `CountFollows`. The pools make
even the types a matter of counting: nodes in lists and free nodes are `MaxNodes`
together, groups likewise, so nothing is lost or freed twice; and what an operation
on the table takes out of a list is what it takes off `blocking_count`.

`SignalManagerWalk`, for the same:
* `WalkIsStable`: `WalkSeesTable`, and `TotalStaysCurrent`: `TotalIsCurrent`, from
  `WalkInv`. A thread that walks is among the readers of the lock, one that changes
  the table is its writer (`LockPlaces`), and the lock, here its abstract
  specification, has no writer beside readers. The three read guards of `emit`
  nest, so the list and the count cannot change between them, and two emissions
  never share a number.
* `HandlersHaveReceivers`: `HandlerHasReceiver`, from `HomeInv`. A package for an
  object only goes to a queue that the object's thread serves, and that thread
  destroys it, so the package and the destruction are never in two threads; and an
  emission that calls a handler directly is a reader, for which the destructor waits
  before the object goes.
* `EveryReleaseOnce`: `ReleasedOnce`, from `OwedInv`, a ledger: what an emission owes
  is the number of releases so far, its packages in the queues, those in the hands
  of threads, and the blocking nodes it has yet to visit. Every step moves an entry
  of the ledger, and none makes or loses one. A package may stay in its queue for
  ever, so this is no promise that the emission returns.

They assume what `ReceiversAssumption` says of an object's home thread (§2).

`StreamInputProofs`, for every even size of the ring, any reads, bytes, closes and
places of the indices, in the three modes of reception:
* `TypeCorrect`: `TypeOK`. It needs to know that a reception is in a memory of its
  mode and, while it runs, not full (`PlaceInv`).
* `RingKeepsUnread`: the action property `RingIsQueue`, with any number of readers.
  The invariant `Placed` says, as long as no Damage happened, that a reception in
  the ring starts at the head of an empty ring and is not counted before it is
  complete, that `m_is_used_ex_buffer` tells where the reception is or is going to
  be, and that the stream fills the half which `m_current_buffer` names. The ring is
  looked at from its head on (`From`): in this order a write is a splice behind what
  is unread, a read is a shift, and the wrap-around is gone.
* `NobodySleepsOnData`: `NoSleepOnData`, with one reader (`OneReader`). A reader that
  saw the ring empty is told of every byte that comes after, as `ClearFlag` comes
  after an `empty` of its own. A second reader may clear the flag that was set for
  the first, hence the hypothesis; a stream device is read by one thread.
* `ReadersGetOrder`: `ReadInOrder`, with any number of readers. The invariant is a
  chain, `OrderInv`: what was read last, what is unread, what the stream has taken and
  what is in the receive register rise, each after the one before. A byte goes
  from the end of one part of the chain to the end of the next, or is dropped. An
  `Overrun` leaves a prefix of what was unread. What is in flight is left out of the
  chain while the Interrupt_Manager is between `Complete` and `Restart`, where the
  bytes are in the ring already and the memory is about to be used again.

So each invariant and each action property that a passing run checks, and the three
refinements, are theorems as well. Only model-checked:
* the liveness properties (`TimedCallReturns`, `WriterIsServed`, `ReaderIsServed`,
  `WriterReturns`, `WriterGetsTable`, `ReaderWoken`, `StartRuns`), as fairness and
  ENABLED are outside the prover's reach;
* `BlockingEmit`, whose run refutes its property.

## 5. Not modelled, and the plan

Worth proving next: what is true of `BlockingEmit` with a single blocking
connection.

Worth modelling next: two writers of one device; handlers that use the signals
themselves; several threads that control one `Thread`.

Left out, with the reason:
* The TCP server, the sockets and the network manager: nearly all of their steps
  are calls into NetX and its callbacks, so a model would be one of assumptions
  about vendored code.
* Software timers and memory pools: each operation is one call of the kernel.
* Direct and storage devices: the stream devices without the buffer.
* The allocation of DMA channels, the table of interrupt handlers.
* Sizes and memory: the receive that copies four times the message over its
  local, packages larger than their block, the block of a semaphore that is freed
  twice. They are listed as hazards.
* Register set-up, clock trees and pin tables (pure I/O), the fast memory copies
  and text processing (sequential, no shared state), the drivers under `unfinish`
  (not built), the demo application, and the vendored kernel, network stack and
  board support, which appear only as far as the framework's use of them shows.
