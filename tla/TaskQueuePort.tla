---------------------------- MODULE TaskQueuePort ----------------------------
(***************************************************************************)
(* One TaskQueuePortImpl (src/src/System/Threading/XTaskQueue.cpp) and the *)
(* port contexts of the task queues that share it.                         *)
(*                                                                         *)
(* Every step is one access to shared memory: an operation of a lock-free  *)
(* list, an atomic load, store or CAS, or one section under a mutex.  Each *)
(* thread runs one of the port's handlers and keeps the handler's locals;  *)
(* pc[t] is the place it has reached.  The lists are the FIFO queues that  *)
(* LocklessQueue.h promises; time is abstracted to the set ripe of delayed *)
(* items whose due time has passed; registered wait handles, the monitor   *)
(* callbacks and reference counts belong to other modules.  A callback's   *)
(* own calls to the port are those of the other threads.  The Immediate    *)
(* mode, which drains inside the submitter, is not covered here.           *)
(***************************************************************************)
EXTENDS Integers, Sequences, FiniteSets

CONSTANTS
    Contexts,            \* the port contexts attached to the port
    Items,               \* the callbacks that may be submitted, once each
    Delayed,             \* the items submitted with waitMs # 0
    ItemContext,         \* the context each item is submitted through
    Terminations,        \* the TerminationEntry tokens, one per Terminate call
    TerminationContext,  \* the context each of them terminates
    Submitters,          \* threads that call QueueItem
    Terminators,         \* threads that call PrepareTerminate and Terminate
    Suspenders,          \* threads that call SuspendTermination, ResumeTermination
    Dispatchers,         \* threads that call Dispatch in a loop
    Patient,             \* the dispatchers whose timeout is INFINITE
    DispatcherContext,   \* the context each of them dispatches
    Workers,             \* the threads of the port's thread pool
    Timers,              \* the threads the timer callback runs on
    Observers,           \* threads that call IsEmpty
    Modes,               \* the dispatch modes the port may be initialized with
    None                 \* no context, item or termination

Threads == Submitters \cup Terminators \cup Suspenders \cup Dispatchers
             \cup Workers \cup Timers \cup Observers

ASSUME PortAssumption ==
    /\ Delayed \subseteq Items
    /\ ItemContext \in [Items -> Contexts]
    /\ TerminationContext \in [Terminations -> Contexts]
    /\ Patient \subseteq Dispatchers
    /\ DispatcherContext \in [Dispatchers -> Contexts]
    /\ Modes \subseteq {"Manual", "ThreadPool", "SerializedThreadPool"}
    /\ None \notin Contexts \cup Items \cup Terminations \cup Threads
    /\ IsFiniteSet(Threads)

\* A thread plays one role: the roles stand for the calls, not for who makes them.
ASSUME RolesAreDisjoint ==
    /\ Submitters \cap (Terminators \cup Suspenders \cup Dispatchers
                          \cup Workers \cup Timers \cup Observers) = {}
    /\ Terminators \cap (Suspenders \cup Dispatchers \cup Workers
                           \cup Timers \cup Observers) = {}
    /\ Suspenders \cap (Dispatchers \cup Workers \cup Timers \cup Observers) = {}
    /\ Dispatchers \cap (Workers \cup Timers \cup Observers) = {}
    /\ Workers \cap (Timers \cup Observers) = {}
    /\ Timers \cap Observers = {}

VARIABLES
    mode,                    \* m_dispatchMode
    status,                  \* m_status of each context
    suspendCount,            \* m_suspendCount of each context
    queueList,               \* m_queueList
    pendingList,             \* m_pendingList
    pendingLock,             \* the thread in m_pendingList's remove_if, or None
    ripe,                    \* the delayed items whose due time has passed
    terminationList,         \* m_terminationList
    pendingTerminationList,  \* m_pendingTerminationList
    processingCallback,      \* m_processingCallback
    processingSerialized,    \* m_processingSerializedTbCallback
    submissions,             \* work submitted to the pool and not yet picked up
    event,                   \* the auto-reset event m_events[0] is signaled
    blocked,                 \* the threads waiting for that event
    pc,                      \* where each thread is
    after,                   \* where it goes when a nested call returns
    ctx,                     \* its portContext
    item,                    \* its QueueEntry in hand
    term,                    \* its TerminationEntry in hand
    taken,                   \* entriesToAppend, readyEntries
    retained,                \* the retain list of remove_if
    terms,                   \* entries_to_schedule, entries_to_process
    found,                   \* DrainOneItem's popped
    holds,                   \* the contexts whose termination it has suspended
    outcome,                 \* what QueueItem answered for each item
    called,                  \* how often each item's callback was called
    request,                 \* how far each termination token has come
    delivered,               \* how often each termination callback was called
    watched                  \* items outstanding when its call began

listVars == <<queueList, pendingList, pendingLock, ripe>>
statusVars == <<status, suspendCount, holds>>
terminationVars == <<terminationList, pendingTerminationList, term, terms>>
poolVars == <<mode, processingCallback, processingSerialized, submissions>>
eventVars == <<event, blocked>>
localVars == <<ctx, item, taken, retained, found>>
historyVars == <<outcome, called, request, delivered, watched>>

vars == <<listVars, statusVars, terminationVars, poolVars, eventVars, localVars,
          historyVars, pc, after>>

Statuses == {"Active", "Canceled", "Terminating", "Terminated"}

\* status >= Terminating, the test of VerifyNotTerminated and SignalTerminations
IsTerminated(c) == status[c] \in {"Terminating", "Terminated"}

Goto(t, from, to) == pc[t] = from /\ pc' = [pc EXCEPT ![t] = to]

Set(f, t, v) == [f EXCEPT ![t] = v]

\* SetEvent on an auto-reset event: one waiter is released, or it stays signaled.
SignalQueue ==
    IF blocked = {}
    THEN event' = TRUE /\ UNCHANGED blocked
    ELSE /\ \E w \in blocked : blocked' = blocked \ {w}
         /\ UNCHANGED event

\* Mutant of NotifyItemQueued: a submission still waiting is taken to serve the new entry too.
NotifyWhenIdle ==
    submissions' = IF mode = "Manual" \/ submissions > 0 THEN submissions ELSE submissions + 1

\* The pool runs one callback per submission; a manual port submits nothing.
NotifyItemQueued ==
    submissions' = IF mode = "Manual" THEN submissions ELSE submissions + 1

\* The accepted items whose callback has not been called yet
Outstanding == {i \in Items : outcome[i] = "accepted" /\ called[i] = 0}

Init ==
    /\ mode \in Modes
    /\ status = [c \in Contexts |-> "Active"]
    /\ suspendCount = [c \in Contexts |-> 0]
    /\ queueList = <<>> /\ pendingList = <<>>
    /\ pendingLock = None
    /\ ripe = {}
    /\ terminationList = {} /\ pendingTerminationList = {}
    /\ processingCallback = 0 /\ processingSerialized = 0
    /\ submissions = 0
    /\ event = FALSE /\ blocked = {}
    /\ pc = [t \in Threads |-> "idle"]
    /\ after = [t \in Threads |-> "idle"]
    /\ ctx = [t \in Threads |-> None]
    /\ item = [t \in Threads |-> None]
    /\ term = [t \in Threads |-> None]
    /\ taken = [t \in Threads |-> <<>>]
    /\ retained = [t \in Threads |-> <<>>]
    /\ terms = [t \in Threads |-> {}]
    /\ found = [t \in Threads |-> FALSE]
    /\ holds = [t \in Threads |-> {}]
    /\ outcome = [i \in Items |-> "none"]
    /\ called = [i \in Items |-> 0]
    /\ request = [k \in Terminations |-> "none"]
    /\ delivered = [k \in Terminations |-> 0]
    /\ watched = [t \in Threads |-> {}]

-----------------------------------------------------------------------------
(* QueueItem *)

\* VerifyNotTerminated answers E_ABORT, or the entry is built.
QueueItem(t, i) ==
    LET c == ItemContext[i] IN
    /\ outcome[i] = "none"
    /\ \/ /\ IsTerminated(c)
          /\ pc[t] = "idle"
          /\ outcome' = [outcome EXCEPT ![i] = "refused"]
          /\ UNCHANGED <<pc, after, localVars>>
       \/ /\ ~IsTerminated(c)
          /\ Goto(t, "idle", IF i \in Delayed THEN "pend" ELSE "append")
          /\ outcome' = [outcome EXCEPT ![i] = "queueing"]
          /\ after' = Set(after, t, "check")
          /\ ctx' = Set(ctx, t, c)
          /\ item' = Set(item, t, i)
          /\ taken' = Set(taken, t, IF i \in Delayed THEN <<>> ELSE <<i>>)
          /\ UNCHANGED <<retained, found>>
    /\ UNCHANGED <<listVars, statusVars, terminationVars, poolVars, eventVars,
                   called, request, delivered, watched>>

\* No node can be allocated: E_OUTOFMEMORY, and nothing has been queued.
OutOfMemory(t) ==
    /\ t \in Submitters
    /\ pc[t] \in {"pend", "append"}
    /\ item[t] # None /\ outcome[item[t]] = "queueing"
    /\ pc' = Set(pc, t, "idle")
    /\ taken' = Set(taken, t, <<>>)
    /\ outcome' = [outcome EXCEPT ![item[t]] = "refused"]
    /\ UNCHANGED <<listVars, statusVars, terminationVars, poolVars, eventVars,
                   after, ctx, item, retained, found,
                   called, request, delivered, watched>>

\* m_pendingList->push_back; arming the timer is module DelayTimer's subject.
PushPending(t) ==
    /\ Goto(t, "pend", "check")
    /\ pendingList' = Append(pendingList, item[t])
    /\ outcome' = [outcome EXCEPT ![item[t]] = "accepted"]
    /\ UNCHANGED <<queueList, pendingLock, ripe, statusVars, terminationVars,
                   poolVars, eventVars, localVars, after,
                   called, request, delivered, watched>>

\* The status is read again once the entry is in a list.
CheckStatus(t) ==
    /\ Goto(t, "check", IF status[ctx[t]] = "Active" THEN "idle" ELSE "cancel")
    /\ after' = Set(after, t, "idle")
    /\ item' = Set(item, t, None)
    /\ UNCHANGED <<listVars, statusVars, terminationVars, poolVars, eventVars,
                   ctx, taken, retained, found, historyVars>>

-----------------------------------------------------------------------------
(* AppendEntry, once for each entry in hand *)

AppendEntry(t) ==
    /\ Goto(t, "append", "notify")
    /\ queueList' = Append(queueList, Head(taken[t]))
    /\ taken' = Set(taken, t, Tail(taken[t]))
    /\ outcome' = [outcome EXCEPT ![Head(taken[t])] = "accepted"]
    /\ UNCHANGED <<pendingList, pendingLock, ripe, statusVars, terminationVars,
                   poolVars, eventVars, after, ctx, item, retained, found,
                   called, request, delivered, watched>>

\* Mutant of NotifyEntry: one submission for a whole batch of entries.
NotifyBatch(t) ==
    /\ Goto(t, "notify", IF taken[t] = <<>> THEN after[t] ELSE "append")
    /\ SignalQueue
    /\ IF taken[t] = <<>> THEN NotifyItemQueued ELSE UNCHANGED submissions
    /\ UNCHANGED <<listVars, statusVars, terminationVars, mode,
                   processingCallback, processingSerialized, localVars, historyVars, after>>

\* SignalQueue and NotifyItemQueued of the entry just pushed
NotifyEntry(t) ==
    /\ Goto(t, "notify", IF taken[t] = <<>> THEN after[t] ELSE "append")
    /\ SignalQueue
    /\ NotifyItemQueued
    /\ UNCHANGED <<listVars, statusVars, terminationVars, mode,
                   processingCallback, processingSerialized, localVars, historyVars, after>>

-----------------------------------------------------------------------------
(* m_pendingList->remove_if, called by CancelPendingEntries and by the     *)
(* promotion of ready entries: it takes the entries out one at a time      *)
(* under the list's spin lock and puts the others back at the end.         *)

LockPending(t) ==
    /\ pendingLock = None /\ pendingLock' = t
    /\ \/ Goto(t, "cancel", "cancelling")
       \/ Goto(t, "promote", "promoting")
    /\ UNCHANGED <<queueList, pendingList, ripe, statusVars, terminationVars,
                   poolVars, eventVars, localVars, historyVars, after>>

\* One entry: out of the list and into entriesToAppend, or kept.
CancelEntry(t) ==
    LET i == Head(pendingList) IN
    /\ pc[t] = "cancelling" /\ pendingList # <<>>
    /\ pendingList' = Tail(pendingList)
    /\ IF ItemContext[i] = ctx[t]
       THEN /\ taken' = Set(taken, t, Append(taken[t], i))
            /\ UNCHANGED retained
       ELSE /\ retained' = Set(retained, t, Append(retained[t], i))
            /\ UNCHANGED taken
    /\ UNCHANGED <<queueList, pendingLock, ripe, statusVars, terminationVars,
                   poolVars, eventVars, ctx, item, found, historyVars, pc, after>>

\* Mutant of PromoteEntry: a ready entry is appended but stays in the list.
PromoteCopy(t) ==
    LET i == Head(pendingList) IN
    /\ pc[t] = "promoting" /\ pendingList # <<>>
    /\ pendingList' = Tail(pendingList)
    /\ \/ /\ i \in ripe
          /\ taken' = Set(taken, t, Append(taken[t], i))
          /\ retained' = Set(retained, t, Append(retained[t], i))
          /\ UNCHANGED ctx
       \/ /\ i \notin ripe
          /\ retained' = Set(retained, t, Append(retained[t], i))
          /\ \/ ctx' = Set(ctx, t, ItemContext[i])
             \/ ctx[t] # None /\ UNCHANGED ctx
          /\ UNCHANGED taken
    /\ UNCHANGED <<queueList, pendingLock, ripe, statusVars, terminationVars,
                   poolVars, eventVars, item, found, historyVars, pc, after>>

\* One entry: ready, or kept and perhaps the earliest of those (nextItem).
PromoteEntry(t) ==
    LET i == Head(pendingList) IN
    /\ pc[t] = "promoting" /\ pendingList # <<>>
    /\ pendingList' = Tail(pendingList)
    /\ \/ /\ i \in ripe
          /\ taken' = Set(taken, t, Append(taken[t], i))
          /\ UNCHANGED <<retained, ctx>>
       \/ /\ i \notin ripe
          /\ retained' = Set(retained, t, Append(retained[t], i))
          /\ \/ ctx' = Set(ctx, t, ItemContext[i])
             \/ ctx[t] # None /\ UNCHANGED ctx
          /\ UNCHANGED taken
    /\ UNCHANGED <<queueList, pendingLock, ripe, statusVars, terminationVars,
                   poolVars, eventVars, item, found, historyVars, pc, after>>

EndOfPending(t) ==
    /\ pendingList = <<>>
    /\ \/ Goto(t, "cancelling", "restore")
       \/ Goto(t, "promoting", "restore")
    /\ UNCHANGED <<listVars, statusVars, terminationVars, poolVars, eventVars,
                   localVars, historyVars, after>>

RestoreEntry(t) ==
    /\ pc[t] = "restore" /\ retained[t] # <<>>
    /\ pendingList' = Append(pendingList, Head(retained[t]))
    /\ retained' = Set(retained, t, Tail(retained[t]))
    /\ UNCHANGED <<queueList, pendingLock, ripe, statusVars, terminationVars,
                   poolVars, eventVars, ctx, item, taken, found, historyVars,
                   pc, after>>

UnlockPending(t) ==
    /\ retained[t] = <<>>
    /\ Goto(t, "restore", IF taken[t] = <<>> THEN after[t] ELSE "append")
    /\ pendingLock' = None
    /\ UNCHANGED <<queueList, pendingList, ripe, statusVars, terminationVars,
                   poolVars, eventVars, localVars, historyVars, after>>

-----------------------------------------------------------------------------
(* The timer callback *)

\* Time passes the due time of a delayed item.
Ripen(i) ==
    /\ i \in Delayed \ ripe /\ outcome[i] = "accepted"
    /\ ripe' = ripe \cup {i}
    /\ UNCHANGED <<queueList, pendingList, pendingLock, statusVars,
                   terminationVars, poolVars, eventVars, localVars, historyVars,
                   pc, after>>

\* SubmitPendingCallbacks finds that the due time has passed.
SubmitPendingCallbacks(t) ==
    /\ Goto(t, "idle", "promote")
    /\ \E n \in DOMAIN pendingList : pendingList[n] \in ripe
    /\ after' = Set(after, t, "next")
    /\ ctx' = Set(ctx, t, None)
    /\ UNCHANGED <<listVars, statusVars, terminationVars, poolVars, eventVars,
                   item, taken, retained, found, historyVars>>

\* The timer is armed for nextItem, or its context's entries are canceled.
ScheduleNextItem(t) ==
    /\ Goto(t, "next", IF ctx[t] = None \/ status[ctx[t]] = "Active"
                       THEN "idle" ELSE "cancel")
    /\ after' = Set(after, t, "idle")
    /\ UNCHANGED <<listVars, statusVars, terminationVars, poolVars, eventVars,
                   localVars, historyVars>>

-----------------------------------------------------------------------------
(* PrepareTerminate, CancelTermination, Terminate *)

PrepareTerminate(t, k) ==
    LET c == TerminationContext[k] IN
    /\ request[k] = "none"
    /\ Goto(t, "idle", "prepared")
    /\ request' = [request EXCEPT ![k] = "prepared"]
    /\ term' = Set(term, t, k)
    /\ ctx' = Set(ctx, t, c)
    /\ watched' = Set(watched, t, {i \in Outstanding : ItemContext[i] = c})
    /\ IF status[c] = "Active"
       THEN status' = [status EXCEPT ![c] = "Canceled"]
       ELSE UNCHANGED status
    /\ UNCHANGED <<listVars, suspendCount, holds, terminationList,
                   pendingTerminationList, terms, poolVars, eventVars, item, taken,
                   retained, found, outcome, called, delivered, after>>

\* Mutant of CancelTermination: a store instead of the compare-and-swap.
CancelTerminationAlways(t) ==
    /\ Goto(t, "prepared", "idle")
    /\ request' = [request EXCEPT ![term[t]] = "canceled"]
    /\ status' = [status EXCEPT ![ctx[t]] = "Active"]
    /\ UNCHANGED <<listVars, suspendCount, holds, terminationVars, poolVars,
                   eventVars, localVars, outcome, called, delivered, watched, after>>

\* The other port of the task queue could not prepare.
CancelTermination(t) ==
    /\ Goto(t, "prepared", "idle")
    /\ request' = [request EXCEPT ![term[t]] = "canceled"]
    /\ IF status[ctx[t]] = "Canceled"
       THEN status' = [status EXCEPT ![ctx[t]] = "Active"]
       ELSE UNCHANGED status
    /\ UNCHANGED <<listVars, suspendCount, holds, terminationVars, poolVars,
                   eventVars, localVars, outcome, called, delivered, watched, after>>

\* The status is set whatever it was, and the pending entries are canceled.
Terminate(t) ==
    /\ Goto(t, "prepared", "cancel")
    /\ request' = [request EXCEPT ![term[t]] = "requested"]
    /\ status' = [status EXCEPT ![ctx[t]] = "Terminating"]
    /\ after' = Set(after, t, "suspend")
    /\ UNCHANGED <<listVars, suspendCount, holds, terminationVars, poolVars,
                   eventVars, localVars, outcome, called, delivered, watched>>

\* Mutant of AddSuspend: a termination that parks does not count itself.
PeekSuspend(t) ==
    LET free == suspendCount[ctx[t]] = 0 IN
    /\ Goto(t, "suspend", IF free THEN "schedule" ELSE "park")
    /\ suspendCount' = [suspendCount EXCEPT ![ctx[t]] = IF free THEN 1 ELSE @]
    /\ terms' = IF free THEN Set(terms, t, {term[t]}) ELSE terms
    /\ after' = IF free THEN Set(after, t, "resume") ELSE after
    /\ UNCHANGED <<listVars, status, holds, terminationList,
                   pendingTerminationList, term, poolVars, eventVars, localVars,
                   historyVars>>

\* Terminate's own AddSuspend: the first suspend schedules, another one parks.
AddSuspend(t) ==
    LET free == suspendCount[ctx[t]] = 0 IN
    /\ Goto(t, "suspend", IF free THEN "schedule" ELSE "park")
    /\ suspendCount' = [suspendCount EXCEPT ![ctx[t]] = @ + 1]
    /\ terms' = IF free THEN Set(terms, t, {term[t]}) ELSE terms
    /\ after' = IF free THEN Set(after, t, "resume") ELSE after
    /\ UNCHANGED <<listVars, status, holds, terminationList,
                   pendingTerminationList, term, poolVars, eventVars, localVars,
                   historyVars>>

ParkTermination(t) ==
    /\ Goto(t, "park", "resume")
    /\ pendingTerminationList' = pendingTerminationList \cup {term[t]}
    /\ UNCHANGED <<listVars, statusVars, terminationList, term, terms, poolVars,
                   eventVars, localVars, historyVars, after>>

\* ScheduleTermination of one entry in hand
ScheduleTermination(t) ==
    /\ Goto(t, "schedule", "announce")
    /\ \E k \in terms[t] :
          /\ terminationList' = terminationList \cup {k}
          /\ terms' = Set(terms, t, terms[t] \ {k})
    /\ UNCHANGED <<listVars, statusVars, pendingTerminationList, term, poolVars,
                   eventVars, localVars, historyVars, after>>

\* Mutant of AnnounceTermination: the pool is not told of a scheduled termination.
AnnounceQuietly(t) ==
    /\ Goto(t, "announce", IF terms[t] = {} THEN after[t] ELSE "schedule")
    /\ SignalQueue
    /\ UNCHANGED <<listVars, statusVars, terminationVars, poolVars, localVars, historyVars, after>>

AnnounceTermination(t) ==
    /\ Goto(t, "announce", IF terms[t] = {} THEN after[t] ELSE "schedule")
    /\ SignalQueue
    /\ NotifyItemQueued
    /\ UNCHANGED <<listVars, statusVars, terminationVars, mode,
                   processingCallback, processingSerialized, localVars, historyVars, after>>

-----------------------------------------------------------------------------
(* SuspendTermination, ResumeTermination *)

SuspendTermination(t, c) ==
    /\ Goto(t, "idle", "verify")
    /\ c \notin holds[t]
    /\ suspendCount' = [suspendCount EXCEPT ![c] = @ + 1]
    /\ ctx' = Set(ctx, t, c)
    /\ UNCHANGED <<listVars, status, holds, terminationVars, poolVars, eventVars,
                   item, taken, retained, found, historyVars, after>>

\* Mutant of VerifySuspend: a refused suspend is given back here and by the caller.
VerifySuspendTwice(t) ==
    /\ Goto(t, "verify", IF IsTerminated(ctx[t]) THEN "resume" ELSE "idle")
    /\ holds' = Set(holds, t, holds[t] \cup {ctx[t]})
    /\ UNCHANGED <<listVars, status, suspendCount, terminationVars, poolVars,
                   eventVars, localVars, historyVars, after>>

\* The suspend stands unless the context turns out to be terminated already.
VerifySuspend(t) ==
    /\ Goto(t, "verify", IF IsTerminated(ctx[t]) THEN "resume" ELSE "idle")
    /\ holds' = IF IsTerminated(ctx[t]) THEN holds
                ELSE Set(holds, t, holds[t] \cup {ctx[t]})
    /\ UNCHANGED <<listVars, status, suspendCount, terminationVars, poolVars,
                   eventVars, localVars, historyVars, after>>

\* A caller gives back a suspend it was granted.
CallResumeTermination(t) ==
    /\ Goto(t, "idle", "resume")
    /\ \E c \in holds[t] :
          /\ holds' = Set(holds, t, holds[t] \ {c})
          /\ ctx' = Set(ctx, t, c)
    /\ UNCHANGED <<listVars, status, suspendCount, terminationVars, poolVars,
                   eventVars, item, taken, retained, found, historyVars, after>>

\* RemoveSuspend: the last one out collects the parked terminations.
RemoveSuspend(t) ==
    /\ Goto(t, "resume", IF suspendCount[ctx[t]] = 1 THEN "collect" ELSE "idle")
    /\ suspendCount' = [suspendCount EXCEPT ![ctx[t]] = @ - 1]
    /\ UNCHANGED <<listVars, status, holds, terminationVars, poolVars, eventVars,
                   localVars, historyVars, after>>

\* Mutant of CollectTerminations: the parked entries are scheduled but stay parked.
CollectCopies(t) ==
    LET parked == {k \in pendingTerminationList : TerminationContext[k] = ctx[t]}
    IN
    /\ Goto(t, "collect", IF parked = {} THEN "idle" ELSE "schedule")
    /\ UNCHANGED pendingTerminationList
    /\ terms' = Set(terms, t, parked)
    /\ after' = Set(after, t, "idle")
    /\ UNCHANGED <<listVars, statusVars, terminationList, term, poolVars,
                   eventVars, localVars, historyVars>>

CollectTerminations(t) ==
    LET parked == {k \in pendingTerminationList : TerminationContext[k] = ctx[t]}
    IN
    /\ Goto(t, "collect", IF parked = {} THEN "idle" ELSE "schedule")
    /\ pendingTerminationList' = pendingTerminationList \ parked
    /\ terms' = Set(terms, t, parked)
    /\ after' = Set(after, t, "idle")
    /\ UNCHANGED <<listVars, statusVars, terminationList, term, poolVars,
                   eventVars, localVars, historyVars>>

-----------------------------------------------------------------------------
(* DrainOneItem, for a dispatcher or for a worker of the pool *)

\* DrainOneItem returns popped: a dispatcher waits after an empty drain, a
\* worker of a serialized port drains until there is nothing left.
Return(t, from) ==
    /\ Goto(t, from,
            CASE t \in Dispatchers -> IF found[t] THEN "idle" ELSE "wait"
              [] mode = "SerializedThreadPool" -> IF found[t] THEN "drain" ELSE "leave"
              [] OTHER -> "idle")
    /\ found' = Set(found, t, FALSE)

DrainOneItem(t) ==
    /\ Goto(t, "drain", "pop")
    /\ processingCallback' = processingCallback + 1
    /\ UNCHANGED <<listVars, statusVars, terminationVars, mode,
                   processingSerialized, submissions, eventVars, localVars, historyVars, after>>

PopFront(t) ==
    /\ Goto(t, "pop", IF queueList = <<>> THEN "uncount" ELSE "call")
    /\ found' = Set(found, t, queueList # <<>>)
    /\ IF queueList = <<>>
       THEN UNCHANGED <<queueList, item>>
       ELSE /\ queueList' = Tail(queueList)
            /\ item' = Set(item, t, Head(queueList))
    /\ UNCHANGED <<pendingList, pendingLock, ripe, statusVars, terminationVars,
                   poolVars, eventVars, ctx, taken, retained, historyVars, after>>

InvokeCallback(t) ==
    /\ Goto(t, "call", "uncount")
    /\ called' = [called EXCEPT ![item[t]] = @ + 1]
    /\ item' = Set(item, t, None)
    /\ UNCHANGED <<listVars, statusVars, terminationVars, poolVars, eventVars,
                   ctx, taken, retained, found, outcome, request, delivered, watched, after>>

Uncount(t) ==
    /\ Goto(t, "uncount", "empty")
    /\ processingCallback' = processingCallback - 1
    /\ UNCHANGED <<listVars, statusVars, terminationVars, mode,
                   processingSerialized, submissions, eventVars, localVars, historyVars, after>>

\* m_queueList->empty() && m_processingCallback.load() == 0, read in turn
CheckEmpty(t) ==
    /\ \/ /\ queueList = <<>>
          /\ Goto(t, "empty", "quiet")
          /\ UNCHANGED found
       \/ /\ queueList # <<>>
          /\ Return(t, "empty")
    /\ UNCHANGED <<listVars, statusVars, terminationVars, poolVars, eventVars,
                   ctx, item, taken, retained, historyVars, after>>

CheckQuiet(t) ==
    /\ \/ /\ processingCallback = 0
          /\ Goto(t, "quiet", "signal")
          /\ UNCHANGED found
       \/ /\ processingCallback # 0
          /\ Return(t, "quiet")
    /\ UNCHANGED <<listVars, statusVars, terminationVars, poolVars, eventVars,
                   ctx, item, taken, retained, historyVars, after>>

\* The section of SignalTerminations under m_terminationLock
SignalTerminations(t) ==
    LET ended == {k \in terminationList : IsTerminated(TerminationContext[k])} IN
    /\ Goto(t, "signal", "deliver")
    /\ terminationList' = terminationList \ ended
    /\ terms' = Set(terms, t, ended)
    /\ status' = [c \in Contexts |-> IF \E k \in ended : TerminationContext[k] = c
                                     THEN "Terminated" ELSE status[c]]
    /\ UNCHANGED <<listVars, suspendCount, holds, pendingTerminationList, term,
                   poolVars, eventVars, localVars, historyVars, after>>

\* Its callbacks, one by one and outside the lock
DeliverTermination(t) ==
    /\ pc[t] = "deliver"
    /\ \E k \in terms[t] :
          /\ delivered' = [delivered EXCEPT ![k] = @ + 1]
          /\ terms' = Set(terms, t, terms[t] \ {k})
    /\ UNCHANGED <<listVars, statusVars, terminationList, pendingTerminationList,
                   term, poolVars, eventVars, localVars, outcome, called, request,
                   watched, pc, after>>

\* Mutant of EndSignal: no SignalQueue after the terminations.
EndSignalQuietly(t) ==
    /\ terms[t] = {}
    /\ Return(t, "deliver")
    /\ UNCHANGED <<listVars, statusVars, terminationVars, poolVars, eventVars, ctx, item,
                   taken, retained, historyVars, after>>

EndSignal(t) ==
    /\ terms[t] = {}
    /\ Return(t, "deliver")
    /\ SignalQueue
    /\ UNCHANGED <<listVars, statusVars, terminationVars, poolVars, ctx, item,
                   taken, retained, historyVars, after>>

-----------------------------------------------------------------------------
(* ProcessThreadPoolCallback *)

\* Mutant of ProcessThreadPoolCallback: the pool calls back more often than it was asked to.
ProcessUnasked(t) ==
    /\ submissions' = submissions - 1
    /\ Goto(t, "idle", IF mode = "SerializedThreadPool" THEN "enter" ELSE "drain")
    /\ UNCHANGED <<listVars, statusVars, terminationVars, mode,
                   processingCallback, processingSerialized, eventVars, localVars, historyVars, after>>

\* The pool runs one submission; a serialized port looks whether it is alone.
ProcessThreadPoolCallback(t) ==
    /\ submissions > 0 /\ submissions' = submissions - 1
    /\ Goto(t, "idle", IF mode = "SerializedThreadPool" THEN "enter" ELSE "drain")
    /\ UNCHANGED <<listVars, statusVars, terminationVars, mode,
                   processingCallback, processingSerialized, eventVars, localVars, historyVars, after>>

\* Mutant of EnterSerialized: the old count is compared with one.
EnterOffByOne(t) ==
    /\ Goto(t, "enter", IF processingSerialized <= 1 THEN "drain" ELSE "leave")
    /\ processingSerialized' = processingSerialized + 1
    /\ UNCHANGED <<listVars, statusVars, terminationVars, mode,
                   processingCallback, submissions, eventVars, localVars, historyVars, after>>

EnterSerialized(t) ==
    /\ Goto(t, "enter", IF processingSerialized = 0 THEN "drain" ELSE "leave")
    /\ processingSerialized' = processingSerialized + 1
    /\ UNCHANGED <<listVars, statusVars, terminationVars, mode,
                   processingCallback, submissions, eventVars, localVars, historyVars, after>>

LeaveSerialized(t) ==
    /\ Goto(t, "leave", "idle")
    /\ processingSerialized' = processingSerialized - 1
    /\ UNCHANGED <<listVars, statusVars, terminationVars, mode,
                   processingCallback, submissions, eventVars, localVars, historyVars, after>>

-----------------------------------------------------------------------------
(* Dispatch and Wait *)

Dispatch(t) ==
    /\ Goto(t, "idle", "drain")
    /\ UNCHANGED <<listVars, statusVars, terminationVars, poolVars, eventVars,
                   localVars, historyVars, after>>

\* m_queueList->empty() && TerminationListEmpty(), read in turn
WaitCheckQueue(t) ==
    /\ Goto(t, "wait", IF queueList = <<>> THEN "wait2" ELSE "drain")
    /\ UNCHANGED <<listVars, statusVars, terminationVars, poolVars, eventVars,
                   localVars, historyVars, after>>

WaitCheckTerminations(t) ==
    /\ Goto(t, "wait2", IF terminationList = {} THEN "wait3" ELSE "drain")
    /\ UNCHANGED <<listVars, statusVars, terminationVars, poolVars, eventVars,
                   localVars, historyVars, after>>

\* A terminated context ends the dispatch: Dispatch returns false.
WaitCheckStatus(t) ==
    /\ Goto(t, "wait3", IF status[DispatcherContext[t]] = "Terminated"
                        THEN IF t \in Patient THEN "returned" ELSE "idle"
                        ELSE "block")
    /\ UNCHANGED <<listVars, statusVars, terminationVars, poolVars, eventVars,
                   localVars, historyVars, after>>

\* WaitForMultipleObjects consumes the signal or joins the waiters.
WaitForEvent(t) ==
    /\ Goto(t, "block", IF event THEN "wait" ELSE "blocked")
    /\ event' = FALSE
    /\ blocked' = IF event THEN blocked ELSE blocked \cup {t}
    /\ UNCHANGED <<listVars, statusVars, terminationVars, poolVars, localVars,
                   historyVars, after>>

Wake(t) ==
    /\ t \notin blocked
    /\ Goto(t, "blocked", "wait")
    /\ UNCHANGED <<listVars, statusVars, terminationVars, poolVars, eventVars,
                   localVars, historyVars, after>>

TimeOut(t) ==
    /\ t \in blocked \ Patient
    /\ Goto(t, "blocked", "idle")
    /\ blocked' = blocked \ {t}
    /\ UNCHANGED <<listVars, statusVars, terminationVars, poolVars, event,
                   localVars, historyVars, after>>

-----------------------------------------------------------------------------
(* IsEmpty: three reads, in the order of the code *)

IsEmpty(t) ==
    /\ Goto(t, "idle", "ready?")
    /\ watched' = Set(watched, t, Outstanding)
    /\ UNCHANGED <<listVars, statusVars, terminationVars, poolVars, eventVars,
                   localVars, outcome, called, request, delivered, after>>

Answer(t, from, ifEmpty, to) ==
    /\ Goto(t, from, IF ifEmpty THEN to ELSE "idle")
    /\ watched' = IF ifEmpty THEN watched ELSE Set(watched, t, {})

\* Mutant of ReadLists: m_processingCallback is not asked.
ReadListsOnly(t) ==
    /\ \/ Answer(t, "ready?", queueList = <<>>, "pending?")
       \/ Answer(t, "pending?", pendingList = <<>>, "running?")
       \/ Answer(t, "running?", TRUE, "true")
       \/ Answer(t, "true", FALSE, "idle")
    /\ UNCHANGED <<listVars, statusVars, terminationVars, poolVars, eventVars,
                   localVars, outcome, called, request, delivered, after>>

ReadLists(t) ==
    /\ \/ Answer(t, "ready?", queueList = <<>>, "pending?")
       \/ Answer(t, "pending?", pendingList = <<>>, "running?")
       \/ Answer(t, "running?", processingCallback = 0, "true")
       \/ Answer(t, "true", FALSE, "idle")
    /\ UNCHANGED <<listVars, statusVars, terminationVars, poolVars, eventVars,
                   localVars, outcome, called, request, delivered, after>>

-----------------------------------------------------------------------------
(* The steps of a call, by the role of its thread.  Once a call has begun its *)
(* thread has nothing left to choose.                                         *)

CancelPendingEntries(t) ==
    \/ LockPending(t) \/ CancelEntry(t) \/ EndOfPending(t) \/ RestoreEntry(t)
    \/ UnlockPending(t) \/ AppendEntry(t) \/ NotifyEntry(t)

ResumeTermination(t) ==
    \/ RemoveSuspend(t) \/ CollectTerminations(t)
    \/ ScheduleTermination(t) \/ AnnounceTermination(t)

Drain(t) ==
    \/ DrainOneItem(t) \/ PopFront(t) \/ InvokeCallback(t) \/ Uncount(t)
    \/ CheckEmpty(t) \/ CheckQuiet(t)
    \/ SignalTerminations(t) \/ DeliverTermination(t) \/ EndSignal(t)

SubmitterStep(t) == PushPending(t) \/ CheckStatus(t) \/ CancelPendingEntries(t)

TerminatorStep(t) ==
    \/ Terminate(t) \/ CancelPendingEntries(t)
    \/ AddSuspend(t) \/ ParkTermination(t) \/ ResumeTermination(t)

SuspenderStep(t) == VerifySuspend(t) \/ ResumeTermination(t)

WaitStep(t) ==
    \/ WaitCheckQueue(t) \/ WaitCheckTerminations(t) \/ WaitCheckStatus(t)
    \/ WaitForEvent(t) \/ Wake(t)

WorkerStep(t) == Drain(t) \/ EnterSerialized(t) \/ LeaveSerialized(t)

TimerStep(t) == PromoteEntry(t) \/ CancelPendingEntries(t) \/ ScheduleNextItem(t)

Next ==
    \/ \E t \in Submitters :
          \/ \E i \in Items : QueueItem(t, i)
          \/ OutOfMemory(t) \/ SubmitterStep(t)
    \/ \E t \in Terminators :
          \/ \E k \in Terminations : PrepareTerminate(t, k)
          \/ CancelTermination(t) \/ TerminatorStep(t)
    \/ \E t \in Suspenders :
          \/ \E c \in Contexts : SuspendTermination(t, c)
          \/ CallResumeTermination(t) \/ SuspenderStep(t)
    \/ \E t \in Dispatchers : Dispatch(t) \/ TimeOut(t) \/ Drain(t) \/ WaitStep(t)
    \/ \E t \in Workers : ProcessThreadPoolCallback(t) \/ WorkerStep(t)
    \/ \E t \in Timers : SubmitPendingCallbacks(t) \/ TimerStep(t)
    \/ \E t \in Observers : IsEmpty(t) \/ ReadLists(t)
    \/ \E i \in Delayed : Ripen(i)

Spec == Init /\ [][Next]_vars

\* The operating system runs every thread, the pool runs what was submitted, the
\* timer fires when it is due, granted suspends are given back, and a thread
\* that dispatches calls Dispatch again.  Nobody has to submit or terminate.
Fairness ==
    /\ \A t \in Submitters : WF_vars(SubmitterStep(t))
    /\ \A t \in Terminators : WF_vars(TerminatorStep(t))
    /\ \A t \in Suspenders : WF_vars(CallResumeTermination(t) \/ SuspenderStep(t))
    /\ \A t \in Dispatchers : WF_vars(Dispatch(t) \/ Drain(t) \/ WaitStep(t))
    /\ \A t \in Workers : WF_vars(ProcessThreadPoolCallback(t) \/ WorkerStep(t))
    /\ \A t \in Timers : WF_vars(SubmitPendingCallbacks(t) \/ TimerStep(t))
    /\ \A i \in Delayed : WF_vars(Ripen(i))

FairSpec == Spec /\ Fairness

-----------------------------------------------------------------------------
(* Properties *)

Labels == {"idle", "pend", "check", "append", "notify", "cancel", "cancelling",
           "promote", "promoting", "restore", "next", "prepared", "suspend",
           "park", "schedule", "announce", "verify", "resume", "collect",
           "drain", "pop", "call", "uncount", "empty", "quiet", "signal",
           "deliver", "enter", "leave", "wait", "wait2", "wait3", "block",
           "blocked", "returned", "ready?", "pending?", "running?", "true"}

\* The types of the port's state and of the handlers' locals.
TypeOK ==
    /\ mode \in Modes
    /\ status \in [Contexts -> Statuses]
    /\ suspendCount \in [Contexts -> Int]
    /\ queueList \in Seq(Items) /\ pendingList \in Seq(Items)
    /\ pendingLock \in Threads \cup {None}
    /\ ripe \subseteq Delayed
    /\ terminationList \subseteq Terminations
    /\ pendingTerminationList \subseteq Terminations
    /\ processingCallback \in Int /\ processingSerialized \in Int
    /\ submissions \in Nat
    /\ event \in BOOLEAN /\ blocked \subseteq Threads
    /\ pc \in [Threads -> Labels] /\ after \in [Threads -> Labels]
    /\ ctx \in [Threads -> Contexts \cup {None}]
    /\ item \in [Threads -> Items \cup {None}]
    /\ term \in [Threads -> Terminations \cup {None}]
    /\ taken \in [Threads -> Seq(Items)] /\ retained \in [Threads -> Seq(Items)]
    /\ terms \in [Threads -> SUBSET Terminations]
    /\ found \in [Threads -> BOOLEAN]
    /\ holds \in [Threads -> SUBSET Contexts]
    /\ outcome \in [Items -> {"none", "queueing", "refused", "accepted"}]
    /\ called \in [Items -> Nat]
    /\ request \in [Terminations -> {"none", "prepared", "canceled", "requested"}]
    /\ delivered \in [Terminations -> Nat]
    /\ watched \in [Threads -> SUBSET Items]

\* A parked termination is never forgotten: somebody still suspends its context,
\* or the thread that gave back the last suspend is about to collect it.
ParkedTerminationHasWaker ==
    \A k \in pendingTerminationList :
        LET c == TerminationContext[k] IN
        \/ suspendCount[c] > 0
        \/ \E t \in Threads : pc[t] = "collect" /\ ctx[t] = c

\* RemoveSuspend never finds the count at zero (its assertion).
ResumeIsPaired ==
    \A t \in Threads : pc[t] = "resume" => suspendCount[ctx[t]] > 0

\* The places of an item in a list, and in the lists of all threads.
Spots(i, s) == {n \in DOMAIN s : s[n] = i}

Hands(i, lists) == UNION {{t} \X Spots(i, lists[t]) : t \in Threads}

Occurrences(i, s) == Cardinality(Spots(i, s))

InHand(i, lists) == Cardinality(Hands(i, lists))

\* The threads that are about to call an item's callback.
Calling(i) == {t \in Threads : pc[t] = "call" /\ item[t] = i}

\* An accepted callback is in exactly one place until it is called, whichever of
\* the lists, remove_if loops and threads it travels through, and is called once.
ItemInOnePlace ==
    \A i \in Items :
        Occurrences(i, queueList) + Occurrences(i, pendingList)
          + InHand(i, taken) + InHand(i, retained)
          + Cardinality(Calling(i)) + called[i]
        = IF \/ outcome[i] = "accepted"
             \/ outcome[i] = "queueing" /\ i \notin Delayed
          THEN 1 ELSE 0

\* The terminators that carry a requested termination to its AddSuspend and to
\* the list of the parked ones, and the threads that have it in entries_to_schedule
\* or entries_to_process.
Carried(k) ==
    {t \in Terminators :
        /\ term[t] = k
        /\ \/ pc[t] \in {"suspend", "park"}
           \/ /\ after[t] = "suspend"
              /\ pc[t] \in {"cancel", "cancelling", "restore", "append", "notify"}}

InTerms(k) == {t \in Threads : k \in terms[t]}

Count(k, S) == IF k \in S THEN 1 ELSE 0

\* A requested termination is in exactly one place until its callback is called,
\* and the callback is called once.
TerminationInOnePlace ==
    \A k \in Terminations :
        Cardinality(Carried(k)) + Cardinality(InTerms(k))
          + Count(k, terminationList) + Count(k, pendingTerminationList)
          + delivered[k]
        = IF request[k] = "requested" THEN 1 ELSE 0

\* In ThreadPool mode every queued entry is backed by a drain that will pop it:
\* one submitted, one picked up, or one its pusher is about to submit.
QueuedItemHasDrain ==
    mode = "ThreadPool" =>
        Len(queueList) <= submissions
            + Cardinality({t \in Workers : pc[t] \in {"drain", "pop"}})
            + Cardinality({t \in Threads : pc[t] = "notify"})

\* Being terminated is final: no later Terminate, no CancelTermination and no
\* drain makes a context accept items again.
TerminationIsFinal ==
    [][\A c \in Contexts : IsTerminated(c) => IsTerminated(c)']_vars

DrainRegion == {"drain", "pop", "call", "uncount", "empty", "quiet", "signal",
                "deliver"}

\* A serialized port never drains on two workers at once, so its callbacks do not
\* overlap (ProcessThreadPoolCallback's counter).
OneDrainer ==
    mode = "SerializedThreadPool" =>
        \A t, u \in Workers :
            pc[t] \in DrainRegion /\ pc[u] \in DrainRegion => t = u

\* IsEmpty answers true only if everything accepted before the call has been
\* called by then, but for delayed callbacks: one that is on its way from the
\* pending list to the queue is in neither.
EmptyMeansDone ==
    \A t \in Observers : pc[t] = "true" => watched[t] \cap Outstanding \subseteq Delayed

\* Everything queued on a context before its termination was asked for has been
\* called when the termination callback is called.
DrainedBeforeTerminated ==
    \A t \in Terminators :
        (term[t] # None /\ delivered[term[t]] > 0) =>
            watched[t] \cap Outstanding = {}

\* Every accepted callback is called eventually, canceled or not.
AcceptedItemsAreCalled ==
    \A i \in Items : (outcome[i] = "accepted") ~> (called[i] > 0)

\* Every requested termination of a port with a thread pool is delivered once nobody
\* suspends it any more.  Threads that dispatch a manual port may find each other in
\* m_processingCallback again and again.
TerminationsAreDelivered ==
    \A k \in Terminations :
        (mode # "Manual" /\ request[k] = "requested") ~> (delivered[k] > 0)

\* Once a context has terminated for good, each thread that dispatches it with an
\* INFINITE timeout comes back.
DispatchersReturn ==
    \A t \in Patient :
        <>[](status[DispatcherContext[t]] = "Terminated")
            => <>[](pc[t] \in {"idle", "returned"})
=============================================================================
