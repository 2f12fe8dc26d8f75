----------------------------- MODULE QueueLifetime -----------------------------
(***************************************************************************)
(* Who keeps a task queue and its ports alive: handles, entries, calls,    *)
(* terminations, composites and the process queue hold references to a     *)
(* queue (a port context counts on its queue), queues and submissions to   *)
(* the thread pool hold references to a port.  The thread that gives up    *)
(* the last one runs the queue down and deletes it.                        *)
(*                                                                         *)
(* A client uses and closes the handles it was given, and makes a          *)
(* composite of the ports of a queue it has a handle of.  What a call does *)
(* before anybody else can reach its new queue is one step, and a queue    *)
(* that fails to initialize is gone again.  What the levels of a           *)
(* termination wait for is module TaskQueue's.                             *)
(***************************************************************************)
EXTENDS Integers, Sequences, FiniteSets, SequencesExt

CONSTANTS
    Queues,       \* the TaskQueueImpl objects that calls may make
    Handles,      \* the XTaskQueueObjects that calls may make
    Clients,      \* threads of the application
    Calls,        \* the calls each of them makes
    PoolThreads,
    MaxItems,     \* how many callbacks are submitted
    MaxEnded,     \* how many queues are terminated
    ExclusiveSet, \* whether Set waits until no thread is in Get
    None

Types == {"Work", "Completion"}
Ports == Queues \X Types
Threads == Clients \cup PoolThreads

\* What the constants have to be.
LifetimeConstants ==
    /\ MaxItems \in Nat /\ MaxEnded \in Nat /\ ExclusiveSet \in BOOLEAN
    /\ Calls \in [Clients -> SUBSET {"Create", "CreateComposite", "Duplicate", "Close", "Submit",
                                     "Terminate", "Get", "Set"}]
    /\ Clients \cap PoolThreads = {} /\ Queues \cap Handles = {}
    /\ IsFiniteSet(Queues) /\ IsFiniteSet(Handles) /\ IsFiniteSet(Threads)
    /\ {None, "default", "invalid"} \cap (Queues \cup Handles \cup Threads) = {}
    /\ None \notin {"default", "invalid"}

VARIABLES
    queueRefs, queueLife,  \* m_refs of each queue; "none", "live" or "deleted"
    portRefs, portLife,
    ports,     \* the ports of each queue's contexts
    sources,   \* the queues they were taken from, for a composite
    attached,  \* m_attachedContexts of each port
    handles,   \* each handle: its queue and who uses it
    entries,   \* m_queueList of each port: the contexts of its entries
    ending,    \* m_terminationList of the ports: queues and levels
    ended,     \* the queues that had a termination
    submitted, \* the calls that the pool still owes each port
    poolRefs,  \* m_refs of the ThreadPoolImpl of each port
    items,     \* the callbacks submitted so far
    process,   \* g_processQueue: a handle, "invalid" or None
    default,   \* g_defaultProcessQueue: its queue, or None
    pc, todo,  \* where each thread is, what it goes on with when that is done
    own        \* the queue it is working with

queueVars == <<queueRefs, queueLife, ports, sources, attached>>
portVars == <<portRefs, portLife, entries, submitted, poolRefs, items>>
vars == <<queueVars, portVars, handles, ending, ended, process, default, pc, todo, own>>

NoHandle == [queue |-> None, user |-> None]

Init ==
    /\ queueRefs = [q \in Queues |-> 0] /\ queueLife = [q \in Queues |-> "none"]
    /\ portRefs = [p \in Ports |-> 0] /\ portLife = [p \in Ports |-> "none"]
    /\ ports = [q \in Queues |-> [y \in Types |-> None]]
    /\ sources = [q \in Queues |-> [y \in Types |-> None]]
    /\ attached = [p \in Ports |-> {}]
    /\ handles = [h \in Handles |-> NoHandle]
    /\ entries = [p \in Ports |-> <<>>]
    /\ ending = {} /\ ended = {}
    /\ submitted = [p \in Ports |-> 0] /\ poolRefs = [p \in Ports |-> 0] /\ items = 0
    /\ process = "invalid" /\ default = None
    /\ pc = [t \in Threads |-> "idle"] /\ todo = [t \in Threads |-> <<>>]
    /\ own = [t \in Threads |-> None]

Idle(t) == pc[t] = "idle" /\ todo[t] = <<>>

\* A client begins one of its calls.
May(t, call) == t \in Clients /\ Idle(t) /\ call \in Calls[t]

Goto(t, to) == pc' = [pc EXCEPT ![t] = to]

Own(t, q) == own' = [own EXCEPT ![t] = q]

GoOn(t, steps) == todo' = [todo EXCEPT ![t] = steps \o @]

Do(what, of) == <<[kind |-> what, of |-> of]>>

\* The next thing that a thread does.
Doing(t, what) == pc[t] = "idle" /\ todo[t] # <<>> /\ Head(todo[t]).kind = what

Free(h) == handles[h] = NoHandle

Usable(t, h) == handles[h].user = t /\ handles[h].queue # None

-----------------------------------------------------------------------------
(* XTaskQueueCreate, CreateComposite, DuplicateHandle, CloseHandle *)

\* A queue with its own ports and the references refs to it.
MakeQueue(q, refs) ==
    /\ queueLife[q] = "none"
    /\ queueLife' = [queueLife EXCEPT ![q] = "live"]
    /\ queueRefs' = [queueRefs EXCEPT ![q] = refs]
    /\ ports' = [ports EXCEPT ![q] = [y \in Types |-> <<q, y>>]]
    /\ portLife' = [p \in Ports |-> IF p[1] = q THEN "live" ELSE portLife[p]]
    /\ portRefs' = [p \in Ports |-> IF p[1] = q THEN 1 ELSE portRefs[p]]
    /\ poolRefs' = [p \in Ports |-> IF p[1] = q THEN 1 ELSE poolRefs[p]]
    /\ attached' = [p \in Ports |-> IF p[1] = q THEN {p} ELSE attached[p]]
    /\ UNCHANGED sources

\* CreateTaskQueueHandle: a handle has a reference to its queue.
NewHandle(h, q, t) ==
    /\ Free(h)
    /\ handles' = [handles EXCEPT ![h] = [queue |-> q, user |-> t]]

Create(t, q, h) ==
    /\ May(t, "Create")
    /\ MakeQueue(q, 1)
    /\ NewHandle(h, q, t)
    /\ UNCHANGED <<entries, submitted, items, ending, ended, process, default, pc, todo, own>>

\* Mutant of Compose: no reference to the queues the ports are of.
ComposeWithoutSource(q, p, r) ==
    LET taken == [y \in Types |-> IF y = "Work" THEN p ELSE r] IN
    /\ queueLife[q] = "none"
    /\ queueLife' = [queueLife EXCEPT ![q] = "live"]
    /\ ports' = [ports EXCEPT ![q] = taken]
    /\ sources' = sources
    /\ portRefs' = [o \in Ports |-> portRefs[o] + Cardinality({y \in Types : taken[y] = o})]
    /\ queueRefs' = [s \in Queues |-> queueRefs[s] + (IF s = q THEN 1 ELSE 0)]
    /\ attached' = [o \in Ports |-> attached[o] \cup {<<q, y>> : y \in {z \in Types : taken[z] = o}}]
    /\ UNCHANGED <<portLife, poolRefs>>

\* The composite takes its ports over, and a reference to the queue that made each.
Compose(q, p, r) ==
    LET taken == [y \in Types |-> IF y = "Work" THEN p ELSE r] IN
    /\ queueLife[q] = "none"
    /\ queueLife' = [queueLife EXCEPT ![q] = "live"]
    /\ ports' = [ports EXCEPT ![q] = taken]
    /\ sources' = [sources EXCEPT ![q] = [y \in Types |-> taken[y][1]]]
    /\ portRefs' = [o \in Ports |-> portRefs[o] + Cardinality({y \in Types : taken[y] = o})]
    /\ queueRefs' = [s \in Queues |-> queueRefs[s] + Cardinality({y \in Types : taken[y][1] = s})
                                        + (IF s = q THEN 1 ELSE 0)]
    /\ attached' = [o \in Ports |-> attached[o] \cup {<<q, y>> : y \in {z \in Types : taken[z] = o}}]
    /\ UNCHANGED <<portLife, poolRefs>>

CreateComposite(t, q, h) ==
    /\ May(t, "CreateComposite")
    /\ \E g, k \in Handles, y, z \in Types :
          /\ Usable(t, g) /\ Usable(t, k)
          /\ Compose(q, ports[handles[g].queue][y], ports[handles[k].queue][z])
    /\ NewHandle(h, q, t)
    /\ UNCHANGED <<entries, submitted, items, ending, ended, process, default, pc, todo, own>>

\* One more handle to the queue, for the thread or for the process (user None).
DuplicateTo(q, h, user) ==
    /\ NewHandle(h, q, user)
    /\ queueRefs' = [queueRefs EXCEPT ![q] = @ + 1]

Duplicate(t, g, h) ==
    /\ May(t, "Duplicate") /\ Usable(t, g)
    /\ DuplicateTo(handles[g].queue, h, t)
    /\ UNCHANGED <<queueLife, ports, sources, attached, portVars, ending, ended, process,
                   default, pc, todo, own>>

\* The handle is deleted, then its reference given up.
Close(t, h) ==
    /\ May(t, "Close") /\ Usable(t, h)
    /\ handles' = [handles EXCEPT ![h] = NoHandle]
    /\ GoOn(t, Do("queue", handles[h].queue))
    /\ UNCHANGED <<queueVars, portVars, ending, ended, process, default, pc, own>>

-----------------------------------------------------------------------------
(* Release, RundownObject and the destructors *)

\* The thread that gives up the last reference runs the queue down.
ReleaseQueue(t) ==
    LET q == Head(todo[t]).of IN
    /\ Doing(t, "queue")
    /\ queueRefs' = [queueRefs EXCEPT ![q] = @ - 1]
    /\ todo' = [todo EXCEPT ![t] = (IF queueRefs[q] = 1 THEN Do("delete", q) ELSE <<>>) \o Tail(@)]
    /\ UNCHANGED <<queueLife, ports, sources, attached, portVars, handles, ending, ended,
                   process, default, pc, own>>

\* What the destructors of a queue's contexts give up: their sources and ports, the
\* context made last first.
Parts(q) ==
    LET Context(y) ==
            (IF sources[q][y] = None THEN <<>> ELSE Do("queue", sources[q][y]))
              \o Do("port", ports[q][y])
    IN  Context("Completion") \o Context("Work")

\* RundownObject detaches the contexts from their ports, and the queue is deleted.
DeleteQueue(t) ==
    LET q == Head(todo[t]).of IN
    /\ Doing(t, "delete")
    /\ attached' = [p \in Ports |-> attached[p] \ ({q} \X Types)]
    /\ queueLife' = [queueLife EXCEPT ![q] = "deleted"]
    /\ todo' = [todo EXCEPT ![t] = Parts(q) \o Tail(@)]
    /\ UNCHANGED <<queueRefs, ports, sources, portVars, handles, ending, ended,
                   process, default, pc, own>>

ReleasePort(t) ==
    LET p == Head(todo[t]).of IN
    /\ Doing(t, "port")
    /\ portRefs' = [portRefs EXCEPT ![p] = @ - 1]
    /\ todo' = [todo EXCEPT ![t] = (IF portRefs[p] = 1 THEN Do("erase", p) ELSE <<>>) \o Tail(@)]
    /\ UNCHANGED <<queueVars, portLife, entries, submitted, poolRefs, items, handles, ending,
                   ended, process, default, pc, own>>

\* ThreadPool::Terminate waits for the pool's calls that are not complete and gives up
\* the port's reference to the pool object; then the port is gone.
DeletePort(t) ==
    LET p == Head(todo[t]).of IN
    /\ Doing(t, "erase")
    /\ \A u \in Threads : Do("complete", p)[1] \notin Range(todo[u])
    /\ portLife' = [portLife EXCEPT ![p] = "deleted"]
    /\ poolRefs' = [poolRefs EXCEPT ![p] = @ - 1]
    /\ todo' = [todo EXCEPT ![t] = Tail(@)]
    /\ UNCHANGED <<queueVars, portRefs, entries, submitted, items, handles, ending, ended,
                   process, default, pc, own>>

-----------------------------------------------------------------------------
(* Submit, Terminate *)

\* The call has a reference to the queue and one to its context.
Take(t, h, to) ==
    /\ Usable(t, h)
    /\ queueRefs' = [queueRefs EXCEPT ![handles[h].queue] = @ + 1]
    /\ Own(t, handles[h].queue) /\ Goto(t, to)

Submit(t, h) ==
    /\ May(t, "Submit") /\ items < MaxItems
    /\ items' = items + 1
    /\ Take(t, h, "submit")
    /\ UNCHANGED <<queueLife, ports, sources, attached, portRefs, portLife, entries, submitted,
                   poolRefs, handles, ending, ended, process, default, todo>>

\* NotifyItemQueued: the pool's call has a reference to the port.
NotifyPool(p) ==
    /\ portRefs' = [portRefs EXCEPT ![p] = @ + 1]
    /\ submitted' = [submitted EXCEPT ![p] = @ + 1]

\* The entry has a reference to its context, and the call gives up its own.
QueueItem(t) ==
    LET q == own[t]
        p == ports[q]["Work"]
    IN  /\ pc[t] = "submit"
        /\ queueRefs' = [queueRefs EXCEPT ![q] = @ + 1]
        /\ entries' = [entries EXCEPT ![p] = Append(@, q)]
        /\ NotifyPool(p)
        /\ GoOn(t, Do("queue", q)) /\ Own(t, None) /\ Goto(t, "idle")
        /\ UNCHANGED <<queueLife, ports, sources, attached, portLife, poolRefs, items, handles,
                       ending, ended, process, default>>

\* A queue is terminated once, in this model.
Terminate(t, h) ==
    /\ May(t, "Terminate") /\ handles[h].queue \notin ended /\ Cardinality(ended) < MaxEnded
    /\ ended' = ended \cup {handles[h].queue}
    /\ Take(t, h, "terminate")
    /\ UNCHANGED <<queueLife, ports, sources, attached, portVars, handles, ending, process,
                   default, todo>>

\* ScheduleTermination, at one level.
Schedule(q, level) ==
    /\ ending' = ending \cup {<<q, level>>}
    /\ NotifyPool(ports[q][level])

\* The termination has a reference to its queue until its callback has returned.
ScheduleTermination(t) ==
    LET q == own[t] IN
    /\ pc[t] = "terminate"
    /\ queueRefs' = [queueRefs EXCEPT ![q] = @ + 1]
    /\ Schedule(q, "Work")
    /\ GoOn(t, Do("queue", q)) /\ Own(t, None) /\ Goto(t, "idle")
    /\ UNCHANGED <<queueLife, ports, sources, attached, portLife, entries, poolRefs, items,
                   handles, ended, process, default>>

-----------------------------------------------------------------------------
(* The pool's calls *)

\* Mutant of AfterEntry: the port is given up before the call is complete.
CompleteLate(p) ==
    Do("signal", p) \o Do("port", p) \o Do("complete", p) \o Do("pool", p)

\* What a call does after its entry: SignalTerminations, Complete, and the references of
\* the call to its port and to the pool object.
AfterEntry(p) ==
    Do("signal", p) \o Do("complete", p) \o Do("port", p) \o Do("pool", p)

\* TPCallback, ProcessThreadPoolCallback: the pool object is held, and the first entry,
\* if there is one, is called.
CallPort(t, p) ==
    /\ t \in PoolThreads /\ Idle(t) /\ submitted[p] > 0
    /\ submitted' = [submitted EXCEPT ![p] = @ - 1]
    /\ poolRefs' = [poolRefs EXCEPT ![p] = @ + 1]
    /\ GoOn(t, AfterEntry(p))
    /\ IF entries[p] = <<>>
       THEN UNCHANGED <<entries, own, pc>>
       ELSE /\ entries' = [entries EXCEPT ![p] = Tail(@)]
            /\ Own(t, Head(entries[p])) /\ Goto(t, "call")
    /\ UNCHANGED <<queueVars, portRefs, portLife, items, handles, ending, ended, process, default>>

\* The callback returns, and the reference of its entry is given up.
EndCall(t) ==
    /\ pc[t] = "call"
    /\ GoOn(t, Do("queue", own[t])) /\ Own(t, None) /\ Goto(t, "idle")
    /\ UNCHANGED <<queueVars, portVars, handles, ending, ended, process, default>>

\* SignalTerminations: a port without entries and calls takes its terminations.
TakeTerminations(t) ==
    LET p == Head(todo[t]).of
        calls == {u \in Threads : pc[u] = "call" /\ Do("complete", p)[1] \in Range(todo[u])}
        due == {e \in ending : entries[p] = <<>> /\ calls = {} /\ ports[e[1]][e[2]] = p}
    IN  /\ Doing(t, "signal")
        /\ ending' = ending \ due
        /\ todo' = [todo EXCEPT ![t] =
                      [k \in 1..Cardinality(due) |-> [kind |-> "ended", of |-> SetToSeq(due)[k]]]
                        \o Tail(@)]
        /\ UNCHANGED <<queueVars, portVars, handles, ended, process, default, pc, own>>

\* A context is held around OnTerminationCallback, which schedules the completion level
\* or gives up the reference of the termination.
CallTermination(t) ==
    LET q == Head(todo[t]).of[1] IN
    /\ Doing(t, "ended")
    /\ queueRefs' = [queueRefs EXCEPT ![q] = @ + 1]
    /\ IF Head(todo[t]).of[2] = "Work"
       THEN /\ Schedule(q, "Completion")
            /\ todo' = [todo EXCEPT ![t] = Do("queue", q) \o Tail(@)]
       ELSE /\ todo' = [todo EXCEPT ![t] = Do("queue", q) \o Do("queue", q) \o Tail(@)]
            /\ UNCHANGED <<ending, portRefs, submitted>>
    /\ UNCHANGED <<queueLife, ports, sources, attached, portLife, entries, poolRefs, items,
                   handles, ended, process, default, pc, own>>

\* Complete: the pool does not wait for this call any more.
Complete(t) ==
    /\ Doing(t, "complete")
    /\ todo' = [todo EXCEPT ![t] = Tail(@)]
    /\ UNCHANGED <<queueVars, portVars, handles, ending, ended, process, default, pc, own>>

\* TPCallback gives up its reference to the pool object.
ReleasePool(t) ==
    /\ Doing(t, "pool")
    /\ poolRefs' = [poolRefs EXCEPT ![Head(todo[t]).of] = @ - 1]
    /\ todo' = [todo EXCEPT ![t] = Tail(@)]
    /\ UNCHANGED <<queueVars, portRefs, portLife, entries, submitted, items, handles, ending,
                   ended, process, default, pc, own>>

-----------------------------------------------------------------------------
(* XTaskQueueGetCurrentProcessTaskQueue, XTaskQueueSetCurrentProcessTaskQueue *)

\* g_processQueue is read, or else the default one; null has no handle to give.
\* "default" is the handle inside the default queue, h becomes the duplicate.
Get(t, h) ==
    /\ May(t, "Get") /\ process # None /\ Free(h)
    /\ handles' = [handles EXCEPT ![h] = [queue |-> None, user |-> t]]
    /\ Own(t, IF process = "invalid" THEN "default" ELSE process)
    /\ Goto(t, IF process = "invalid" /\ default = None THEN "default" ELSE "duplicate")
    /\ UNCHANGED <<queueVars, portVars, ending, ended, process, default, todo>>

\* The first thread installs its new queue; the queue of another is gone again.
MakeDefault(t, q) ==
    /\ pc[t] = "default"
    /\ IF default = None
       THEN MakeQueue(q, 1) /\ default' = q
       ELSE UNCHANGED <<default, queueVars, portRefs, portLife, poolRefs>>
    /\ Goto(t, "duplicate")
    /\ UNCHANGED <<entries, submitted, items, handles, ending, ended, process, todo, own>>

\* The handle that was read is followed to its queue.
DuplicateCurrent(t, h) ==
    LET q == IF own[t] = "default" THEN default ELSE handles[own[t]].queue IN
    /\ pc[t] = "duplicate" /\ handles[h] = [queue |-> None, user |-> t]
    /\ handles' = [handles EXCEPT ![h].queue = q]
    /\ queueRefs' = [queueRefs EXCEPT ![q] = @ + 1]
    /\ Own(t, None) /\ Goto(t, "idle")
    /\ UNCHANGED <<queueLife, ports, sources, attached, portVars, ending, ended, process,
                   default, todo>>

\* What replaces g_processQueue; the handle it held is closed.
Exchange(t, new, kept) ==
    /\ ExclusiveSet => \A u \in Clients : pc[u] # "duplicate"
    /\ process' = new
    /\ IF process \in Handles
       THEN /\ handles' = [kept EXCEPT ![process] = NoHandle]
            /\ GoOn(t, Do("queue", handles[process].queue))
       ELSE handles' = kept /\ UNCHANGED todo

Set(t, g, h) ==
    /\ May(t, "Set") /\ Usable(t, g) /\ Free(h)
    /\ queueRefs' = [queueRefs EXCEPT ![handles[g].queue] = @ + 1]
    /\ Exchange(t, h, [handles EXCEPT ![h] = [queue |-> handles[g].queue, user |-> None]])
    /\ UNCHANGED <<queueLife, ports, sources, attached, portVars, ending, ended, default, pc, own>>

SetNothing(t) ==
    /\ May(t, "Set")
    /\ Exchange(t, None, handles)
    /\ UNCHANGED <<queueVars, portVars, ending, ended, default, pc, own>>

-----------------------------------------------------------------------------

\* The steps a thread goes on with once it has begun.
Step(t) ==
    \/ ReleaseQueue(t) \/ DeleteQueue(t) \/ ReleasePort(t) \/ DeletePort(t)
    \/ QueueItem(t) \/ ScheduleTermination(t)
    \/ EndCall(t) \/ TakeTerminations(t) \/ CallTermination(t) \/ Complete(t) \/ ReleasePool(t)
    \/ \E q \in Queues : MakeDefault(t, q)
    \/ \E h \in Handles : DuplicateCurrent(t, h)

Next ==
    \E t \in Threads :
        \/ Step(t)
        \/ \E p \in Ports : CallPort(t, p)
        \/ \E q \in Queues, h \in Handles : Create(t, q, h) \/ CreateComposite(t, q, h)
        \/ \E g, h \in Handles : Duplicate(t, g, h) \/ Set(t, g, h)
        \/ \E h \in Handles : Close(t, h) \/ Submit(t, h) \/ Terminate(t, h) \/ Get(t, h)
        \/ SetNothing(t)

\* A thread that has begun goes on, and the pool makes the calls it owes.
Fairness ==
    /\ \A t \in Threads : WF_vars(Step(t))
    /\ \A t \in PoolThreads : WF_vars(\E p \in Ports : CallPort(t, p))

Spec == Init /\ [][Next]_vars

FairSpec == Spec /\ Fairness

-----------------------------------------------------------------------------
(* Properties *)

TypeOK ==
    /\ queueRefs \in [Queues -> Nat] /\ queueLife \in [Queues -> {"none", "live", "deleted"}]
    /\ portRefs \in [Ports -> Nat] /\ portLife \in [Ports -> {"none", "live", "deleted"}]
    /\ ports \in [Queues -> [Types -> Ports \cup {None}]]
    /\ sources \in [Queues -> [Types -> Queues \cup {None}]]
    /\ attached \in [Ports -> SUBSET Ports]
    /\ handles \in [Handles -> [queue : Queues \cup {None}, user : Clients \cup {None}]]
    /\ entries \in [Ports -> Seq(Queues)] /\ ending \subseteq Ports /\ ended \subseteq Queues
    /\ {submitted, poolRefs} \subseteq [Ports -> Nat] /\ items \in 0 .. MaxItems
    /\ process \in Handles \cup {"invalid", None} /\ default \in Queues \cup {None}
    /\ own \in [Threads -> Queues \cup Handles \cup {"default", None}]

\* Everything that leads to a queue or a port finds it alive: handles, entries,
\* terminations, calls, the process queue, the contexts a port visits, the ports of a
\* queue and the queue that the header of each of them names (a composite is made with a
\* reference to it); what a thread gives up was still there.
NothingDangles ==
    LET live == {q \in Queues : queueLife[q] = "live"}
        livePorts == {p \in Ports : portLife[p] = "live"}
    IN  /\ {handles[h].queue : h \in Handles} \cup (UNION {Range(entries[p]) : p \in Ports})
             \cup {e[1] : e \in ending} \cup {default} \subseteq live \cup {None}
        /\ {own[t] : t \in Threads} \cap Queues \subseteq live
        /\ {own[t] : t \in Threads} \cap Handles \subseteq {h \in Handles : ~Free(h)}
        /\ \A p \in livePorts : attached[p] \subseteq live \X Types
        /\ \A p \in Ports : submitted[p] > 0 => p \in livePorts
        /\ \A q \in live : \A y \in Types :
              ports[q][y] \in livePorts /\ ports[q][y][1] \in live
        /\ \A t \in Threads : \A k \in DOMAIN todo[t] :
              LET of == todo[t][k].of IN
              CASE todo[t][k].kind \in {"queue", "delete"} -> of \in live
                [] todo[t][k].kind = "ended" -> of[1] \in live
                [] todo[t][k].kind = "pool" -> poolRefs[of] > 0
                [] OTHER -> of \in livePorts

\* A queue that nobody can reach any more is deleted, with its ports, in the end:
\* no reference is left over.
QueuesAreDeleted ==
    (\A h \in Handles : Free(h)) ~>
        \/ \E h \in Handles : ~Free(h)
        \/ \A q \in Queues \ {default} :
              queueLife[q] # "live" /\ \A y \in Types : portLife[<<q, y>>] # "live" /\ poolRefs[<<q, y>>] = 0
=============================================================================
