# Verification of the xgameruntime threading core

TLA+ models, TLC runs and TLAPS proofs for the task queues and asynchronous calls
of xgameruntime (`src/System/Threading`), and for the initialization of the runtime
(`libs/libxgameruntime`). Line numbers below are of
`src/System/Threading/XTaskQueue.cpp` unless another file is named.

## The system

| Part | State it keeps | Operations | Interacts with |
| --- | --- | --- | --- |
| Task queue (`TaskQueueImpl`) | two port contexts, its termination entry, handles | create, composite, duplicate, close, terminate, submit, dispatch | one or two ports, possibly shared with other queues |
| Port context (`TaskQueuePortContextImpl`) | status, suspend count | set status, add and remove suspend | its queue and its port |
| Port (`TaskQueuePortImpl`) | ready list, pending (delayed) list, two lists of terminations, counters of running drains, one event | `QueueItem`, `DrainOneItem`, `Wait`, `Dispatch`, `Terminate`, `SuspendTermination`, `ResumeTermination`, `IsEmpty`, timer and pool callbacks | every context attached to it, the pool, the timer |
| Lock-free list (`LocklessQueue`) | nodes in blocks, tagged head, tail, free list | push, pop, remove_if, reserve, free | every list of a port |
| Timer (`WaitTimer`, `m_timerDue`) | due time | start, callback | a port's pending list |
| Thread pool (`ThreadPool`) | outstanding calls | submit, callback, terminate | a port |
| Monitors (`SubmitCallback`, `AtomicVector`) | registered callbacks, two buffers | register, unregister, invoke | a queue's submissions |
| Wait registrations | handles waited for, references | register, unregister, fire | a port, the pool |
| Asynchronous calls (`XAsync.cpp`) | the client's block, the `AsyncState` with its references, cleanup location, wait | begin, schedule, complete, cancel, get status, get result | a provider, a client, both ports of a queue |
| Process queue | the process's queue and its default | get, set | queue handles |
| Runtime initialisation (`Init.cpp`) | initialized flag, loaded library | initialise, uninitialise | the implementation library |

`XThreading.cpp` and the calls of `Impl.cpp` forward their arguments; `Error.cpp`, logging and
the interface definitions keep no state that other parts read.

What makes it hard: nearly all of it is lock-free. A port's operations read several
atomics in turn (status, lists, counters) while submitters, terminators, suspenders,
dispatchers, pool threads and the timer change them. Entries travel through
thread-local lists. The termination of a queue passes through two ports and waits for
suspends that other threads take and give back. An asynchronous call is ended by
whoever comes first among its provider, its client and its queue, and its provider
must be told to clean up exactly once, when nobody is inside it.

What makes each part correct: a port calls every accepted callback exactly once, in a
serialized port one at a time; a termination is delivered exactly once, after the last
suspend; a dispatcher with no timeout returns when its queue has terminated. A call is
signaled once, keeps its queue from terminating until then, releases its waiters, and
is cleaned up once and after its provider's work. `PROJECT.json` lists the hazards, each
at the line where it bites, with the properties that watch it.

## Modules

### TaskQueuePort

One `TaskQueuePortImpl` shared by several contexts. A thread is a place (`pc`), a place
to return to (`after`) and the locals of the handler it is in; each action is one access
to shared memory or one critical section, in the order of the code:

* `QueueItem`, `PushPending`, `AppendEntry`, `NotifyEntry`, `CheckStatus`: `QueueItem`
  and `AppendEntry` (249-302, 747-764). The status is read before and after the push.
* `LockPending` ... `UnlockPending`: `LocklessQueue::remove_if` on the pending list, entry
  by entry under its spin lock, as `CancelPendingEntries` (766-806) and the promotion of
  ready entries (855-928) call it. Submitters may push meanwhile, as in the code.
* `PrepareTerminate`, `CancelTermination`, `Terminate`, `AddSuspend`, `ParkTermination`,
  `ScheduleTermination`, `AnnounceTermination` (393-457, 1102-1113).
* `SuspendTermination`, `VerifySuspend`, `RemoveSuspend`, `CollectTerminations` (638-682):
  the count and the collection of parked terminations are separate steps.
* `DrainOneItem` ... `EndSignal` (505-554, 1065-1100): pop, call, uncount, the two reads
  that decide whether terminations are signaled, and their callbacks outside the lock.
* `ProcessThreadPoolCallback`, `EnterSerialized`, `LeaveSerialized` (1001-1023).
* `Dispatch`, `WaitCheckQueue` ... `TimeOut` (475-492, 556-613): an auto-reset event,
  with `blocked` for the threads in `WaitForMultipleObjects`.
* `IsEmpty`, `ReadLists` (615-623).

`called`, `delivered`, `outcome`, `request` and `watched` only record what happened.
The lists are FIFO sequences whose push and pop are atomic. Time is `Ripen`: a delayed
item becomes ready at any moment, and `SubmitPendingCallbacks` comes whenever one is.

### TaskQueue

One `TaskQueueImpl`: the two ports as far as a queue's clients see them, and
`XTaskQueueTerminate` step by step: both contexts are canceled (or the first restored),
the work port terminates, its delivery terminates the completion port, whose delivery
calls the client back (1400-1450, 1488-1517). Submission and acceptance are one step
here; module TaskQueuePort has the race between them. A termination may be delivered
while callbacks are queued, as run PortDrained shows.

### AsyncCall

Extends TaskQueue with `XAsync.cpp`. Each call has a block, an `AsyncState` and a client
thread that begins it, waits and fetches its result; workers run `WorkerCallback`,
notifiers run `CompletionCallback`, cancelers call `XAsyncCancel`, outsiders are threads
of a provider that complete what its `Begin` or `DoWork` started. Functions nest
(`DoWork` calls `XAsyncComplete`, which calls `SignalWait`, which resumes the queue), so a
thread keeps a stack of places. The provider and the client are external: the provider
completes, schedules, starts something or fails, and does not use a call after it was
told to clean up; the client calls `XAsyncGetResult` once.

### LocklessQueue and FifoQueues

`LocklessQueue` is `LocklessQueue.h` at the level of single loads and compare-exchanges:
several queues that share a heap, the heap's free list (a list of the same kind), and the
blocks it grows by. A thread runs one call, `push_back`, `pop_front`, `empty`, or a pop
whose node is pushed to another queue, as `remove_if` and the port do with `address`
(`reserve_node` and `free_node` are the first and the last half of these).

* `ReadHead` ... `SwapHead`: `List::pop` and `List::empty` (292-306, 341-374); `MetEmpty` is
  what both take for an empty list.
* `Seal`, `PushReadTail` ... `SwingTail`: `List::push` and `push_range` (308-339). `HelpTail`
  is the help either gives to a tail that lags behind.
* `OutOfMemory`, `AllocateBlock`, `LinkBlock`: `Heap::allocate_block` (467-549).

Addresses are block, index and tag; the tag counts modulo `TagSpace`. Steps on memory a
thread has for itself (the data of its node, the chain of a new block) are merged.

`FifoQueues` is what callers may rely on: each queue is a sequence, a push appends to it
at one instant of its call or is refused, a pop takes the front at one instant, and a
"nothing there" means that the queue was empty at some instant of the call. The mapping
(`Fifo` in `LocklessQueue`) reads a queue's contents off its chain of nodes and a call's
progress off its program counter: a push takes effect at the compare-exchange of `next`
(327), a pop at that of `m_head` (365), and an empty answer at the load of `next` (348)
if the head is the same then and at 350. A pop that meets the end after another pop has
changed the head looks again, in both.

The refinement has one exception, the late link (`LateLink`): the end marker is the same
for all queues of a heap and carries no tag, so the compare-exchange at 327 also succeeds on a
node that was the tail when the pusher read it, was popped since and is now the tail of
another queue. Run QueueStray shows it; `FifoUnlessLate` says that it is the only one.
TaskQueuePort pushes and pops in one step, which the refinement justifies, and so leaves
the late link out.

### DelayTimer

`m_timerDue`, the one-shot timer and the pending list of a port, with a clock.
`QueueItem`, `LowerDue`, `StartTimer` and `CheckStatus` are the end of `QueueItem` (249-302),
`Fire` ... `Verify` are the callback of the timer and `SubmitPendingCallbacks` (968-999),
`Promote`, `NextCanceled`, `NextActive`, `StartNext` and `NoneLeft` are
`PromoteReadyPendingCallbacks` (855-966). `Cancel`, `Terminate` and `Sweep` are the part of
`XTaskQueueTerminate` that touches delayed callbacks (393-443, 766-806). Callbacks of the timer
may overlap, and the pool's clock may be `Early` by the clock of the code.

### WaitRegistration

The registrations of a port (304-391, 814-838, 1121-1196) and of its queue
(56-96, 1342-1384): two arrays (`waits`, `events`), a pool wait (`armed`), an `appended` flag, a
`deleted` mark and a reference count each. Handles are auto-reset events. `Fire` and
`TestAndSet` are the pool's callback, `Wait`, `Wake` and `ReleaseCopy` a dispatcher in
`Wait` (567-609), `Pop` and `Rearm` the call of the entry (505-540), `Remove`, `Disarm` and `Close`
`UnregisterWaitHandle`, `TakeWaits` and `CancelWait` the end of a context. `life` records
whether the object has been deleted.

### SubmitMonitor

`NotifyItemQueued` visits the contexts of the port (`AtomicVector.h`), and each context
calls the monitors of its queue (`SubmitCallback`, 1638-1743). Both keep two buffers and one
word with an index and a count of readers. A mutex covers a writer from its copy to its swap,
so that is one step; a reader holds it for the whole visit, one step for each call it makes.

### QueueLifetime

References: which handle, entry, call, termination, composite or process queue keeps a queue
alive, and which queue or submission to the pool keeps a port alive. Calls that build a
new queue are one step; from then on a thread has a list of things to do (`todo`), each a
release or a destructor, so that the last reference may go anywhere. `DeleteQueue` and
`DeletePort` are `RundownObject` and the destructors (110-149, 1452-1470); the second waits for
the callbacks of the port's pool, in which a thread is counted until `Complete`
(`AfterEntry`, 1016-1023; `ThreadPool.cpp` 103-133). `Get`, `MakeDefault`, `DuplicateCurrent`
and `Set` are the process queue (2009-2077).

### RuntimeInit

`XGameRuntimeInitializeWithOptions`, the `QueryApiImpl` template through which every call of
the API passes, and `XGameRuntimeUninitialize` (`libs/libxgameruntime`). Which functions the installed dll
exports is chosen in the initial state, what they answer is chosen at each call.
`initialized` is read without `g_lock` by `Query` and `Uninitialize`.

### MC modules and proof modules

* `MCTaskQueuePort`: the TLC instance of the port. `MCPortScenarios` restricts it to a cast
  of threads, items and terminations for each scenario (`dispatch`, `pool`, `serialized`,
  `terminations`, `deliveries`), by a conjunct on each step, so that one run covers several
  without the product of their threads.
* `MCParts`: the six smaller parts in one model. Each keeps its own variables; `part`, chosen in
  the initial state, says which of them moves. It runs LocklessQueue, WaitRegistration and
  QueueLifetime twice with different instances. `MCTimer`, `MCWaits` and `MCQueue` are the
  instances of three runs that find violations.
* `TaskQueuePortProofs` (types of the port, what moves an entry or counts a thread, suspends,
  serialized drains, statuses, where a termination and where an item is, and who drains
  it), `QueueLifetimeProofs`, `AsyncReferenceProofs` (counting frames of threads, control and types;
  references and signals of calls; calls and terminations), `AsyncCleanupProofs` (how functions
  nest, and cleanup), `DelayTimerProofs`, `WaitRegistrationProofs`, `SubmitMonitorProofs`,
  `RuntimeInitProofs`.

## Runs

| Run | Checks | Bounds |
| --- | --- | --- |
| PortSafety | an item is in one place until called, and every queued one has a drain coming; one drainer at a time; `IsEmpty` is right about immediate items; terminations are neither lost, doubled nor undone; the suspend count is paired | `pool`: 2 delayed items of 2 contexts, 1 termination, 1 worker, timer. `serialized`: 2 items, 3 workers, an observer. `terminations`: 2 terminations of one context, 2 suspenders, 1 worker. `deliveries`: 2 terminations, 3 workers. `InCast` keeps the other threads idle; the suspenders are interchangeable (symmetry), for no cast names one |
| PortLive | every accepted callback is called, every requested termination arrives, dispatchers with an INFINITE timeout return | `pool`: an immediate and a delayed item of 2 contexts, 1 termination, 1 worker, timer. `dispatch`: 2 dispatchers, 1 termination |
| AsyncCalls | a call keeps its queue alive until it was signaled; its completion is accepted; cleaned up and signaled once, no access to a deleted state | 1 call with a callback, 1 termination, 1 canceler, 1 scheduling |
| AsyncLive | waiters return, calls are cleaned up once, terminations end | 1 call without callback, 1 termination, 1 outsider, 2 schedulings |
| Parts | the properties of the table below | below |
| PortDrained, PortStranded, AsyncOverlap, AsyncSuspend, TimerStall, RegistrationsRemain, QueueStray | see the findings | |

| Part of run Parts | Properties | Bounds |
| --- | --- | --- |
| queueA, queueB | `FifoUnlessLate`: FIFO queues, but for the late link; `NodeInOnePlace`: a node is in one list or one thread's hands | 2 queues of one heap, blocks of 3 nodes, 2 blocks, 4 tags. A: a thread pushes to the first queue, one pushes to it, pops either or asks whether it is empty, one moves from it to the second twice; without the late link. B: one pushes to the first, one moves from it to the second, two pop or ask, one of each |
| timer | `TimerCoversPending`: at rest, the timer is set for what is pending; `DueIsMet`: what is due is queued | 2 items of a context that is terminated, 2 submitters, 1 timer thread, timer early by 1 |
| waits, ends | `LiveRegistrations`: nobody follows a pointer to a deleted one; `RegistrationHears`: none goes deaf; `OneEntryPerRegistration` | 2 registrations, one signaled twice, array of the port or of the queue full with one; a thread in Wait, or a termination |
| monitor | `MonitorsAreActive`, `MonitorsAreCalled`: what is read is what is registered, and all of it is called; `VisitedAreAttached` | 3 monitors, 2 slots, 2 contexts, 2 notifiers |
| lifeA, lifeB | `NothingDangles`; `QueuesAreDeleted`: what nobody reaches is deleted | 2 queues, 2 handles, 1 pool thread, 1 item, 1 termination; process queue with 2 clients |
| runtime | `OneFirstCall`, `QueriesFindRuntime` | 2 threads, any exports |

`PartsTypeOK` is the type invariant of the part that moves.

Two threads of a role, two contexts or two items are where the interactions are:
each operation touches one context and one entry, so a third adds repetitions, except
for the workers of a serialized port (three let two of them leave while one enters) and the
monitors (three, so that a slot is used again while another is taken).
The handlers of one thread loop, so every run covers several calls in a row. An
asynchronous call is bounded by `MaxSchedules`, the number of times its provider
schedules it; two is the least with which `DoWork` schedules itself. AsyncCalls and
AsyncLive divide the completion callback, cancel, outsider and rescheduling between them because
all at once exceed eight million states. The calls of the lock-free
queues are enough for a push that is helped, two pushers to a queue that is moved from meanwhile
and once more, a pop that races the move or takes what was moved, and a block refused
while another is on its way to the free list; a node is sealed up to twice. The runs allow deadlock: a system in which everything was called
and nobody submits has stopped.

Fairness. Every thread that is inside an operation goes on (the operating system
schedules it), the pool calls back as often as it was asked to, the timer comes when a
delayed item is ready, a suspend is given back, a dispatcher dispatches again, a
provider finishes what it has started, the clock moves. Nothing makes anybody submit, cancel,
begin, close or terminate. Spin locks and condition variables need no more than this,
since every holder leaves. The modules state this for each thread; `PartsFairness` in
`MCParts` only says that somebody goes on while somebody can and that the clock gets to its
bound, which is weaker, so what holds under it holds under the modules' own.

Each property of a passing run has a mutant of the code in its module, an operator
before the definition it changes, under which TLC finds the property violated.

### Findings

* **PortStranded**: on a serialized port a callback may never be called. The worker
  that holds `m_processingSerializedTbCallback` finds the list empty; a callback is
  queued; its pool callback finds the counter not zero and returns (1008); the first
  worker lowers the counter (1013). The same strands a termination.
* **PortDrained**: the emptiness check (547) precedes `SignalTerminations`, so a
  termination callback may run before callbacks that were queued before
  `XTaskQueueTerminate`.
* **AsyncOverlap**: `workScheduled` is cleared before `DoWork` (XAsync.cpp:525), so a
  `DoWork` that schedules its call overlaps the next one, and `Cleanup` comes while it
  runs. On one worker (AsyncLive) it does not happen.
* **AsyncSuspend**: a resume that has lowered the count to zero but not yet collected
  (656) schedules a termination that has parked behind the suspend of a newer call; the
  completion of that call is refused, on which `XAsyncComplete` fails fast. With one call
  (AsyncCalls) it does not happen.
* **TimerStall**: when the earliest entry that remains belongs to a context that is no longer
  active, `PromoteReadyPendingCallbacks` cancels that context's entries (921-923) and
  returns without setting the timer for what else is pending. `m_timerDue` keeps a time that has
  passed, so later submissions find none earlier to set it for. With the items of one
  context (Parts) it does not happen.
* **RegistrationsRemain**: the end of one context empties `m_waits` (817-820) and puts none of
  the other contexts' registrations back. Their pool waits stay set, so they still fire, but
  `UnregisterWaitHandle` no longer finds them.
* **QueueStray**: a push may go to another list. A pusher reads the tail X of the delayed
  list (274) and finds nothing behind it; a second pusher links its node behind X; `remove_if`
  (772, 866) pops that item, which leaves it the node X, and pushes it to another list of the heap.
  X ends that list, its `next` is the common end marker again, and the first pusher's
  compare-exchange (LocklessQueue.h:327) succeeds there: its delayed callback is
  appended to the promoted, the canceled or the ready entries. Two pushes and one move, whatever the
  size of a block. The algorithm LocklessQueue.h refers to (65) has counters in these pointers.

## Proofs

For any sets of contexts, items, terminations and threads, under the assumption of
module TaskQueuePort that the roles of threads are disjoint and the constants have
their types:

* `TypeCorrect`: `Spec => []TypeOK`. The invariant `TypeInv` adds to the types what a
  place implies for the locals (a thread that appends has an entry in hand, one that
  suspends has a context), without which `Head` and the function updates have no type.
* `PairedSuspends` and `NoForgottenTermination`: the suspend count of a context is the
  number of threads on their way to resume it plus the suspends granted. The
  invariant is about cardinalities: each action either leaves both sides alone (lemmas
  `Neutral...`) or moves one thread into or out of the counted set.
* `SerializedExclusion`: `m_processingSerializedTbCallback` is the number of workers inside
  `ProcessThreadPoolCallback`, and at most one of them drains.
* `TerminationFinal`: `[][...]_vars` from the type invariant and the fact that a
  compare-and-swap from Canceled cannot touch a terminated status.

* `EveryTerminationInOnePlace`: a requested termination is in the hands of one thread, in one of
  the two lists, or delivered, once (`TokenInv`: a thread has terminations only where the code
  collects or signals them, and nobody else has a termination that was only prepared).
* `EveryItemInOnePlace`: an accepted item is in one list, in the hands of one thread, being called
  or called, once. `HandOK` says that no list in a thread's hand is overwritten, `SubmitOK` that a
  submitter's entry is its own until it is pushed, `DelayedOK` that only delayed entries are in
  the pending list and come out of it. The sum is over the positions of sequences, whose
  cardinalities the lemmas about appending, popping and `remove_if` follow.
* `NoStrandedItem` (`QueuedItemHasDrain`) and `EmptyAnswerIsTrue` (`EmptyMeansDone`), on top of the
  items: `m_processingCallback` is the number of threads that have an entry popped or are about to
  pop (`RunningOK`); what `IsEmpty` was asked about and has not seen queued was called
  or is being called (`WatchedOK`); in ThreadPool mode the queue is no longer than the
  submissions to the pool, the workers about to pop and the threads about to submit (`Backed`).

For any sets of calls, threads and terminations, the last two finite, under the assumption of
module AsyncCall (AsyncReferenceProofs, AsyncCleanupProofs):

* `ReferencesAreLive` (`LiveReferences`): nobody follows a pointer to an `AsyncState` that was
  deleted. The count of a call equals its block, its queued entries and the frames
  of threads that hold one reference or two (`ReferencesOK`).
* `CallsSignaledOnce` (`SignaledOnce`): a call's pending block, its queued completion,
  the frames on their way to `SignalWait` and the signals given are one at most
  (`SignsOK`), and one thread fetches the result of a call (`FetchOK`).
* `TypeCorrect`: the counts in `TypeOK` are natural numbers only because of those sums;
  the suspends of the queue are as many as threads that give one back, calls that
  are not signaled and terminations under way (`SuspendOK`).
* `CompletionIsAccepted` (`CompletionAccepted`) and `TerminationWaits`
  (`TerminationWaitsForCalls`), under the hypothesis `[]NoLateCollect`: who has lowered the suspend
  count to zero collects the parked terminations before another call is begun, or finds none. The
  invariant: while the work port accepts callbacks nothing has ended (`PortOpen`), and while
  a call is still to be signaled every termination is parked or before the place where
  it looks for suspends (`CallsOpen`). The hypothesis is the window at XTaskQueue.cpp:656,
  and needed: AsyncSuspend is a behaviour without it that breaks both. One call suffices
  for it (`OneCallResumesLate`: whoever resumes the queue does so after the call was
  signaled or refused, and it is not begun again), which gives `OneCallIsAccepted` and
  `TerminationWaitsForOneCall` without a hypothesis on behaviours.
* `CleanupWaits` (`CleanupWaitsForWork`), under the hypothesis `[]OneCallbackAtATime`: no two workers
  run callbacks of one call at once. AsyncOverlap is what happens when they do. With one worker
  thread (a serialized port, or one dispatched by its owner) it holds by itself,
  `CleanupWaitsForOneWorker`. The invariant `CleanOK` counts, for each call, the frames and the
  queued entry that may still lead to `DoWork` (`Load`), the frames in `Cancel`, and
  those that return from `DoWork`. Marked `AfterDoWork` or `CleanedUp`, a call has no `Load` left;
  marked `CleanedUp`, it has no frame in either. It needs `FramesOK` (`FramesInvariant`, without
  hypotheses): `DoWork`, `Cancel` and `XAsyncComplete` call each other, so what a
  thread may return to has to be known along its whole stack.

A thread's frames are its place and its stack. They are counted from the bottom of the stack,
so that a call or a return changes one of them and leaves those below alone: the
lemmas `GotoMove`, `CallMove`, `ReturnMove` and `StartMove` say what each does to the
counts, and every action is one of them and an update of a few counters. `QuietKeeps` and the
lemmas before it then close most actions.

For any delayed callbacks, contexts and threads that satisfy `TimerConstants` (DelayTimerProofs):

* `TimerIsSet` (`TimerCoversPending`), however submitters and overlapping callbacks of the
  timer interleave, under the hypothesis `EndedAlone`: no context ends, or it is the port's only one.
  Without it the property is false: TimerStall shows the sweep of an ended context's
  entry leave another context's without a timer. The invariant follows the chain from an entry to
  `m_timerDue` to the timer. While something is pending and `m_timerDue` is `Never`, a thread is
  about to set it (`SetsDue`); while it is set and the timer is not, a thread is about to
  start it, and will unless `m_timerDue` changes, which whoever changed it answers for
  (`Starts`). A late start may set the timer for an entry that was promoted long ago; that does
  not harm, for all that waits comes due after what was promoted (`OrderOK`).
* `NoEndedEntryWaits` (`EndedAreSwept`) and `TypeCorrect`, without that hypothesis: while no
  thread is at work every pending entry is of an active context (`EndsOK`).
  Run Parts checks `TimerCoversPending` and the types through `MCParts`.

For any registrations, contexts, threads and sizes of the arrays that satisfy `WaitConstants`
(WaitRegistrationProofs):

* `NeverDeaf` (`RegistrationHears`) and `OneEntry` (`OneEntryPerRegistration`), whatever is
  signaled, unregistered and terminated meanwhile. The invariant: an entry is in one place, and
  as long as it is, its registration has `appended` set (`EntriesOK`); one thread at most adds
  or takes away a registration, after it left `m_waits` (`OwnersOK`), and nobody else has a
  pointer to one that is not yet there (`FreshOK`); so a registration in `m_waits` has its
  pool wait set, the pool's callback running or an entry on its way (`HearsOK`).
* `RegistrationsAreLive` (`LiveRegistrations`) and `TypeCorrect`, for finitely many threads and
  under the hypothesis `EndsApart` on the constants: no context is terminated, or no thread is in
  `Wait` and the registrations of terminated contexts get no signal. It is needed because
  `CancelPendingEntries` deletes a registration whatever its count is (see Limits). The count
  is at least the first reference, that of the entry and those of the copies of `m_waits` together
  (`RefsOK`); at least, because `Wait` loses some. Who is about to append an entry has a copy, or
  is in the pool's callback, which `Close` waits for before it gives up the first reference.
  Run Parts checks these four properties, through `MCParts`, on the two instances
  that `EndsApart` has room for.

For any finite sets of queues, handles and threads that satisfy `LifetimeConstants`
(QueueLifetimeProofs):

* `HeldAreAlive` (`NothingDangles`) and `TypeCorrect`, under the hypothesis `SetIsApart`: nobody
  calls `XTaskQueueSetCurrentProcessTaskQueue`, or it waits for a thread that is about to duplicate
  the handle it closes (`ExclusiveSet`, as in run Parts; see Limits). Both follow from
  `LifetimeInvariant`: the count of a queue, a port or a pool object is the number of references
  that lead to it (`QueueCount`, `PortCount`, `PoolCount`). Some of those are the members of
  a set (handles, threads with a queue in hand, contexts, terminations), others places in
  sequences (the entries of a port, and the references a thread is still to give up), which
  `Total` counts over all ports or threads. A step moves a reference from one of
  these to another, or adds or takes one. When a count gets to zero the step that deletes
  is the only one that names the object. `NothingDangles` needs more than the counts: what a pool
  thread does with a port comes before it gives up its reference to it
  (`OrderOK`), a context is attached only while its queue lives and a composite's port is
  of a queue that it has a reference to (`LinksOK`), a queue is terminated once (`EndCount`),
  and the handle that a `Get` has read is still the process's handle (`ThreadsOK`).

For any queues, contexts, monitors, notifiers and slots that satisfy `MonitorConstants`
(SubmitMonitorProofs):

* `TypeCorrect`, `NoLostRegistration` (`MonitorsAreActive`), `EveryMonitorIsCalled`
  (`MonitorsAreCalled`) and `OnlyAttachedAreVisited` (`VisitedAreAttached`). The invariant: who reads
  has the mutex and is counted (`LocksOK`), the buffers in use hold each attached context and each
  registered monitor once (`VectorOK`, `SlotsOK`), and a reader has called the monitors in the
  slots before its own (`CalledOK`). Run Parts checks the same properties through `MCParts`.

For any set of threads and any exports of the dll, under the assumption that no thread is the
value that stands for a free lock (module RuntimeInitProofs):

* `TypeCorrect`, `FirstCallIsAlone` (`Spec => []OneFirstCall`) and `QueriesAreServed`
  (`Spec => []QueriesFindRuntime`). Neither property is inductive: that a query finds its pointer
  follows from `InitializedMeansReady` (the flag is set after the pointers and the dll),
  which an initialization keeps only because what it has seen stays true while it holds
  `g_lock` (`InsideIsLocked`, `InsideIsCurrent`), and which `XGameRuntimeUninitialize` ends
  (`OutsideFollows`).

Only model-checked:

* all liveness: the prover does not reason about fairness here;
* the queue's refusals and deliveries (TaskQueue) apart from what AsyncCall's proofs say of them;
* that a delayed callback is queued when its time has come, and that queues are deleted in the
  end;
* LocklessQueue and its refinement of FifoQueues, which reads a chain of nodes recursively: the
  prover has no induction for that.

## Limits

* With three INFINITE dispatchers on a manual port one of them can stay blocked: the
  event is set once per signal and the threads that pass it on may all have returned.
  PortLive therefore has two dispatchers, one of them INFINITE. No text of the code promises more.
* `TerminationsAreDelivered` is about ports with a pool: dispatchers of a manual port that keep
  finding each other in `m_processingCallback` signal nothing.
* `EmptyMeansDone` excepts delayed callbacks: a delayed entry on its way between the
  lists is in neither, and `IsEmpty` may answer true.
* `WaitersReturn` takes a waiter to return when the state was extracted, as the code
  does, though the completion callback may still be running.
* A provider that ignores a failed `XAsyncSchedule` leaves its call pending.
* Run Parts excludes one step of a lock-free list, the compare-exchange at LocklessQueue.h:327
  on a node that has moved to another list since the pusher read it (`LateLink`): the code has it,
  QueueStray shows what it does, and the port's properties are not claimed after it. Tags do not wrap in that run: a node is sealed at most twice, with four tags. A wrap
  takes 65536 seals of one node during one call, and nothing here covers it.
* The registration whose context is terminated gets no signal in run Parts: with one,
  `CancelPendingEntries` deletes the registration (835) under the pool thread that has it in hand.
* `Wait` of the model begins only while the references it takes stay under `MaxRefs`: it
  gives none back when it was woken by the port's own event (602-609).
* In run Parts `XTaskQueueSetCurrentProcessTaskQueue` waits for a
  `XTaskQueueGetCurrentProcessTaskQueue` that has read the handle (`ExclusiveSet`): the code does
  not, and may duplicate a closed handle.
* `QueriesFindRuntime` ends at `XGameRuntimeUninitialize`, after which `initialized` keeps
  its value.
* QueueLifetime has one pool thread and at most one termination; a handle is used and closed
  by the thread it was given to.

## Not modelled

* `SuspendPort`, `ResumePort`, `OnSuspendResume` and the suspend handler: without `SUSPEND_API`,
  which the header says not to define, nothing calls them. The Immediate mode,
  in which the submitter drains one entry itself (`NotifyItemQueued`, 1058-1061; test
  `VerifyImmediateDispatch`).
* A termination that is waited for (`wait`, `WaitForUnwind`), and duplicates with the Reference
  option, which only `XAsync.cpp` takes and gives back as AsyncCall's own references.
* Monitors that call back into their queue, and failing allocations apart from those of
  nodes, blocks and full arrays.
* `XThreading.cpp` and the calls of `Impl.cpp` (they forward their arguments), test
  hooks, tracing, logging, environment, error text, and the interface definitions.

## What could follow

1. TaskQueue as the abstract specification of two TaskQueuePorts with respect to suspends
   and deliveries.
2. Blocks of asynchronous calls that are used again, and two calls at once.
