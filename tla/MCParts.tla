-------------------------------- MODULE MCParts --------------------------------
(***************************************************************************)
(* The smaller parts of the runtime, on small instances, in one model: the *)
(* lock-free queue, the timer of delayed callbacks, wait registrations,    *)
(* submission monitors, the lifetime of queues and ports, and the          *)
(* initialization of the runtime.  They share no state here: a behaviour   *)
(* is of one part, chosen in its initial state, and the other parts stay   *)
(* where they begin.                                                       *)
(***************************************************************************)
EXTENDS RuntimeInit, Integers, Sequences

CONSTANTS
    a, b, c, d, e,   \* threads
    i1, i2,          \* delayed callbacks, registrations, monitors
    i3,
    c1, c2,          \* port contexts
    q1, q2,          \* queues
    h1, h2           \* handles

VARIABLES
    part,
    head, tail, next, data, blockCount, linked, queuePc, job, list, first, last, value,
    rHead, rTail, rNext, calls,
    now, timerDue, timerArmed, pending, promoted, timerStatus, dueAt, timerPc, item, due,
    instant, nextItem,
    life, refs, deleted, appended, armed, waits, events, registry, queue, signaled, signals,
    status, waitPc, reg, snap, heard,
    contexts, current, visitors, attached, slots, index, callers, held, refused, mutex,
    monitorPc, left, slot, called, visits,
    queueRefs, queueLife, portRefs, portLife, ports, sources, portContexts, handles, entries,
    ending, endedQueues, submitted, poolRefs, items, process, default, lifePc, todo, own

Parts == {"queueA", "queueB", "timer", "waits", "ends", "monitor", "lifeA", "lifeB", "runtime"}

-----------------------------------------------------------------------------
(* The instances *)

Four == {a, b, c, d}
Two == {a, b}
PoolThread == {c}
OtherThread == {d}
Waiter == {e}

Call(op, from, to) == [op |-> op, from |-> from, to |-> to]

\* The list of delayed callbacks and that of ready ones are checked twice, with different
\* calls: c moves what it finds in the first to the second.  In A it does so twice while
\* a and b push to the first, or b pops either; in B one pushes, and each is popped.
Push(q) == Call("push", q, q)
Looks(q) == {Call("pop", q, q), Call("empty", q, q)}
Move == Call("move", 1, 2)

JobsA ==
    [t \in Four |->
        CASE t = a -> {Push(1)}
          [] t = b -> {Push(1)} \cup Looks(1) \cup Looks(2)
          [] t = c -> {Move}
          [] t = d -> {}]

JobsB ==
    [t \in Four |->
        CASE t = a -> {Push(1)} [] t = b -> Looks(1) [] t = c -> {Move} [] t = d -> Looks(2)]

TimesA == [t \in Four |-> IF t = c THEN 2 ELSE 1]
TimesB == [t \in Four |-> 1]

QueueA == INSTANCE LocklessQueue WITH
            Threads <- Four, Jobs <- JobsA, Times <- TimesA, QueueCount <- 2,
            BlockSize <- 3, MaxBlocks <- 2, TagSpace <- 4, pc <- queuePc

QueueB == INSTANCE LocklessQueue WITH
            Threads <- Four, Jobs <- JobsB, Times <- TimesB, QueueCount <- 2,
            BlockSize <- 3, MaxBlocks <- 2, TagSpace <- 4, pc <- queuePc

\* Two delayed callbacks, and the end of their context.
TimerItems == {i1, i2}
TimerContexts == {c1}
TimerContext == [i \in TimerItems |-> c1]
TimerEnd == 2
TimerDelay == [i \in TimerItems |-> IF i = i1 THEN 1 ELSE 2]

Timer == INSTANCE DelayTimer WITH
            Items <- TimerItems, Contexts <- TimerContexts, ItemContext <- TimerContext,
            Delay <- TimerDelay, Submitters <- Two, Timers <- PoolThread,
            Cancelers <- OtherThread, Ended <- TimerContexts, Early <- 1, MaxTime <- TimerEnd,
            armed <- timerArmed, ready <- promoted, status <- timerStatus, pc <- timerPc

\* i1 is signaled twice; i2 is of the context that is terminated.  The array of the port
\* is full with one registration, or that of the queue.
WaitRegs == {i1, i2}
WaitContexts == {c1, c2}
WaitEnded == {c2}
WaitContext == [r \in WaitRegs |-> IF r = i1 THEN c1 ELSE c2]
WaitSignals == [r \in WaitRegs |-> IF r = i1 THEN 2 ELSE 0]

Waits == INSTANCE WaitRegistration WITH
            Regs <- WaitRegs, Contexts <- WaitContexts, RegContext <- WaitContext,
            Signals <- WaitSignals, Ended <- WaitEnded, Clients <- Two,
            PoolThreads <- PoolThread, Dispatchers <- OtherThread, Waiters <- Waiter,
            PortWaitMax <- 1, QueueWaitMax <- 2, MaxRefs <- 2, pc <- waitPc

Ends == INSTANCE WaitRegistration WITH
            Regs <- WaitRegs, Contexts <- WaitContexts, RegContext <- WaitContext,
            Signals <- WaitSignals, Ended <- WaitEnded, Clients <- Two,
            PoolThreads <- PoolThread, Dispatchers <- OtherThread, Waiters <- Waiter,
            PortWaitMax <- 2, QueueWaitMax <- 1, MaxRefs <- 2, pc <- waitPc

\* Three monitors for two slots, and a queue with two contexts on the port.
OneQueue == {q1}
MonitorIds == {i1, i2, i3}
MonitorContexts == [q \in OneQueue |-> {c1, c2}]
MonitorQueues == [m \in MonitorIds |-> q1]

Monitor == INSTANCE SubmitMonitor WITH
            Queues <- OneQueue, QueueContexts <- MonitorContexts, Monitors <- MonitorIds,
            MonitorQueue <- MonitorQueues, Notifiers <- Two, Visits <- 1,
            SubmitCallbackMax <- 2, lock <- mutex, pc <- monitorPc

\* The lifetime model is checked twice, with different calls.
LifeQueues == {q1, q2}
LifeHandles == {h1, h2}

CallsA ==
    [t \in Two |-> IF t = a THEN {"Create", "CreateComposite", "Close", "Submit", "Terminate"}
                   ELSE {}]

CallsB ==
    [t \in Two |-> IF t = a THEN {"Create", "Set", "Get", "Close", "Duplicate"}
                   ELSE {"Get", "Close"}]

LifeA == INSTANCE QueueLifetime WITH
            Queues <- LifeQueues, Handles <- LifeHandles, Clients <- Two, Calls <- CallsA,
            PoolThreads <- PoolThread, MaxItems <- 1, MaxEnded <- 1, ExclusiveSet <- TRUE,
            attached <- portContexts, ended <- endedQueues, pc <- lifePc

LifeB == INSTANCE QueueLifetime WITH
            Queues <- LifeQueues, Handles <- LifeHandles, Clients <- Two, Calls <- CallsB,
            PoolThreads <- PoolThread, MaxItems <- 1, MaxEnded <- 1, ExclusiveSet <- TRUE,
            attached <- portContexts, ended <- endedQueues, pc <- lifePc

ASSUME PartsAssumption ==
    /\ QueueA!QueueConstants /\ QueueB!QueueConstants /\ Timer!TimerConstants
    /\ Waits!WaitConstants /\ Ends!WaitConstants
    /\ Monitor!MonitorConstants /\ LifeA!LifetimeConstants /\ LifeB!LifetimeConstants

-----------------------------------------------------------------------------
(* One part moves *)

queueVars ==
    <<head, tail, next, data, blockCount, linked, queuePc, job, list, first, last, value,
      rHead, rTail, rNext, calls>>

timerVars ==
    <<now, timerDue, timerArmed, pending, promoted, timerStatus, dueAt, timerPc, item, due,
      instant, nextItem>>

waitVars ==
    <<life, refs, deleted, appended, armed, waits, events, registry, queue, signaled, signals,
      status, waitPc, reg, snap, heard>>

monitorVars ==
    <<contexts, current, visitors, attached, slots, index, callers, held, refused, mutex,
      monitorPc, left, slot, called, visits>>

lifeVars ==
    <<queueRefs, queueLife, portRefs, portLife, ports, sources, portContexts, handles, entries,
      ending, endedQueues, submitted, poolRefs, items, process, default, lifePc, todo, own>>

partsVars == <<part, queueVars, timerVars, waitVars, monitorVars, lifeVars, vars>>

PartsInit ==
    /\ part \in Parts
    /\ QueueA!Init /\ Timer!Init /\ Waits!Init /\ Monitor!Init /\ LifeA!Init
    /\ Init /\ (part # "runtime" => exports = {})

\* No pusher is so late that it links to a node which has left its queue: it may stop
\* before that compare-exchange, for ever, but not go on to it.
QueueNext ==
    /\ \/ /\ part = "queueA" /\ QueueA!Next
          /\ \A t \in Two : QueueA!LateLink(t) => UNCHANGED queuePc[t]
       \/ part = "queueB" /\ QueueB!Next
    /\ UNCHANGED <<part, timerVars, waitVars, monitorVars, lifeVars, vars>>

TimerNext ==
    /\ part = "timer" /\ Timer!Next
    /\ UNCHANGED <<part, queueVars, waitVars, monitorVars, lifeVars, vars>>

\* Wait registrations are checked twice: with a thread in Wait and no termination, and
\* with a termination and no thread in Wait.
WaitsNext ==
    /\ \/ part = "waits" /\ Waits!Next /\ UNCHANGED status
       \/ part = "ends" /\ Ends!Next /\ waitPc'[e] = "idle"
    /\ UNCHANGED <<part, queueVars, timerVars, monitorVars, lifeVars, vars>>

MonitorNext ==
    /\ part = "monitor" /\ Monitor!Next
    /\ UNCHANGED <<part, queueVars, timerVars, waitVars, lifeVars, vars>>

LifeNext ==
    /\ \/ part = "lifeA" /\ LifeA!Next
       \/ part = "lifeB" /\ LifeB!Next
    /\ UNCHANGED <<part, queueVars, timerVars, waitVars, monitorVars, vars>>

RuntimeNext ==
    /\ part = "runtime" /\ Next
    /\ UNCHANGED <<part, queueVars, timerVars, waitVars, monitorVars, lifeVars>>

PartsNext ==
    QueueNext \/ TimerNext \/ WaitsNext \/ MonitorNext \/ LifeNext \/ RuntimeNext

\* A step that the threads of the timer's model or of the lifetime model have begun, or
\* that the pool owes.
GoOn ==
    \/ /\ part = "timer" /\ UNCHANGED lifeVars
       /\ Timer!Fire(c) \/ \E t \in Four : Timer!Step(t)
    \/ /\ part \in {"lifeA", "lifeB"} /\ UNCHANGED timerVars
       /\ \/ \E t \in {a, b, c} : LifeA!Step(t)
          \/ \E p \in LifeA!Ports : LifeA!CallPort(c, p)

\* The clock moves on to its bound, and somebody goes on while somebody can: weaker than
\* the fairness of the modules, for each thread, and enough where every thread makes few
\* calls.
PartsFairness ==
    /\ []<>(part = "timer" => now = TimerEnd)
    /\ WF_<<timerVars, lifeVars>>(GoOn)

PartsSpec == PartsInit /\ [][PartsNext]_partsVars /\ PartsFairness

-----------------------------------------------------------------------------
(* Properties; OneFirstCall and QueriesFindRuntime are RuntimeInit's *)

QueueMoves == part \in {"queueA", "queueB"}

\* The variables of every part have their types.
PartsTypeOK ==
    CASE QueueMoves -> QueueA!TypeOK
      [] part = "timer" -> Timer!TypeOK
      [] part \in {"waits", "ends"} -> Waits!TypeOK
      [] part = "monitor" -> Monitor!TypeOK
      [] part \in {"lifeA", "lifeB"} -> LifeA!TypeOK
      [] part = "runtime" -> TypeOK

\* Every node of a heap is in one list or one thread's hands (LocklessQueue.h), while no
\* pusher links late.
NodeInOnePlace == QueueMoves => QueueA!NodeInOnePlace

\* The late link is the only way in which the queues of a heap are not concurrent FIFO
\* queues (LocklessQueue.h): without it they implement them.  This is
\* ImplementsFifo, not computed for the steps of other parts.
FifoUnlessLate ==
    /\ QueueA!Fifo!Init
    /\ [][QueueMoves => QueueA!FifoStep]_queueVars

\* While no thread is at work, the timer is set for what is pending.
TimerCoversPending == part = "timer" => Timer!TimerCoversPending

\* A delayed callback whose time has come is queued.
DueIsMet == Timer!DueIsMet

\* No registration is deleted while someone follows a pointer to it.
LiveRegistrations == part \in {"waits", "ends"} => Waits!LiveRegistrations

\* A registration has one entry at a time.
OneEntryPerRegistration == part \in {"waits", "ends"} => Waits!OneEntryPerRegistration

\* A registration never goes deaf.
RegistrationHears == part \in {"waits", "ends"} => Waits!RegistrationHears

\* The buffer of monitors that is read is of those registered.
MonitorsAreActive == part = "monitor" => Monitor!MonitorsAreActive

\* A submission calls all monitors registered, and no other.
MonitorsAreCalled == part = "monitor" => Monitor!MonitorsAreCalled

\* A context is told of an item only while it is attached.
VisitedAreAttached == part = "monitor" => Monitor!VisitedAreAttached

\* What leads to a queue or a port finds it alive.
NothingDangles == part \in {"lifeA", "lifeB"} => LifeA!NothingDangles

\* What nobody can reach is deleted in the end.
QueuesAreDeleted == LifeA!QueuesAreDeleted
=============================================================================
