------------------------------ MODULE DelayTimer ------------------------------
(***************************************************************************)
(* The timer of delayed callbacks: TaskQueuePortImpl's m_timerDue and      *)
(* m_timer (WaitTimer.cpp), as QueueItem arms them and as the timer's      *)
(* callback promotes what is due and arms them again.  Module              *)
(* TaskQueuePort takes for granted that a due entry meets a timer          *)
(* callback; this module is about why.                                     *)
(*                                                                         *)
(* Time is a counter.  A compare-exchange loop that only retries is one    *)
(* step, its success; remove_if runs under the list's lock and is one step *)
(* too, for what else changes the list meanwhile only appends to it.       *)
(***************************************************************************)
EXTENDS Integers, FiniteSets, FiniteSetsExt

CONSTANTS
    Items,        \* the delayed callbacks, submitted once each
    Contexts,     \* the port contexts they are submitted through
    ItemContext,  \* the context of each
    Delay,        \* waitMs of each, at least 1
    Submitters,   \* threads that call QueueItem
    Timers,       \* pool threads the timer's callback runs on
    Cancelers,    \* threads that terminate the contexts Terminated
    Ended,        \* the contexts that are terminated
    Early,        \* how early the pool's timer may be by the clock the callback reads
    MaxTime,      \* the last instant of the clock
    None

Never == MaxTime + 1  \* UINT64_MAX

Threads == Submitters \cup Timers \cup Cancelers

\* What the constants have to be.
TimerConstants ==
    /\ {MaxTime, Early} \subseteq Nat /\ None \notin Contexts \cup Items
    /\ ItemContext \in [Items -> Contexts] /\ Ended \subseteq Contexts
    /\ Delay \in [Items -> 1 .. MaxTime]

VARIABLES
    now,       \* the clock
    timerDue,  \* m_timerDue
    armed,     \* when the pool's timer fires, or Never
    pending,   \* m_pendingList
    ready,     \* the entries moved to m_queueList
    status,    \* m_status of each context
    dueAt,     \* enqueueTime of each item
    pc, item,
    due,       \* dueTime, as each thread has read or set it last
    instant,   \* its local now
    nextItem   \* its nextItem

timeVars == <<now, timerDue, armed>>
entryVars == <<pending, ready, dueAt>>
localVars == <<item, due, instant, nextItem>>
vars == <<timeVars, entryVars, status, pc, localVars>>

Set(f, t, v) == [f EXCEPT ![t] = v]

Goto(t, from, to) == pc[t] = from /\ pc' = [pc EXCEPT ![t] = to]

Init ==
    /\ now = 0 /\ timerDue = Never /\ armed = Never
    /\ pending = {} /\ ready = {}
    /\ status = [c \in Contexts |-> "Active"]
    /\ dueAt = [i \in Items |-> Never]
    /\ pc = [t \in Threads |-> "idle"]
    /\ item = [t \in Threads |-> None]
    /\ due = [t \in Threads |-> Never]
    /\ instant = [t \in Threads |-> 0]
    /\ nextItem = [t \in Threads |-> None]

Tick ==
    /\ now < MaxTime /\ now' = now + 1
    /\ UNCHANGED <<timerDue, armed, entryVars, status, pc, localVars>>

\* SetThreadpoolTimer: the one shot of the timer is moved; a time in the past is now.
Start(time) == armed' = time

\* A call or the callback returns; its locals are gone.
Return(t) ==
    /\ pc' = Set(pc, t, "idle")
    /\ item' = Set(item, t, None) /\ nextItem' = Set(nextItem, t, None)
    /\ due' = Set(due, t, Never) /\ instant' = Set(instant, t, 0)

-----------------------------------------------------------------------------
(* QueueItem *)

\* The entry and its due time; a terminated context takes none.
QueueItem(t, i) ==
    /\ dueAt[i] = Never /\ now + Delay[i] <= MaxTime
    /\ status[ItemContext[i]] # "Terminating"
    /\ t \in Submitters /\ Goto(t, "idle", "arm")
    /\ item' = Set(item, t, i)
    /\ dueAt' = [dueAt EXCEPT ![i] = now + Delay[i]]
    /\ pending' = pending \cup {i}
    /\ UNCHANGED <<timeVars, ready, status, due, instant, nextItem>>

\* m_timerDue becomes the entry's due time if that is earlier.
LowerDue(t) ==
    LET time == dueAt[item[t]] IN
    /\ Goto(t, "arm", IF time < timerDue THEN "start" ELSE "check")
    /\ timerDue' = IF time < timerDue THEN time ELSE timerDue
    /\ due' = Set(due, t, time)
    /\ UNCHANGED <<now, armed, entryVars, status, item, instant, nextItem>>

StartTimer(t) ==
    /\ Goto(t, "start", "check")
    /\ Start(due[t])
    /\ UNCHANGED <<now, timerDue, entryVars, status, localVars>>

\* A context that is no longer active is swept again for the entry just pushed.
CheckStatus(t) ==
    /\ pc[t] = "check"
    /\ IF status[ItemContext[item[t]]] = "Active"
       THEN Return(t)
       ELSE /\ pc' = Set(pc, t, "sweep")
            /\ nextItem' = Set(nextItem, t, item[t])
            /\ UNCHANGED <<item, due, instant>>
    /\ UNCHANGED <<timeVars, entryVars, status>>

\* CancelPendingEntries: the context's entries go to the queue, to be called as canceled.
Sweep(t) ==
    LET swept == {i \in pending : ItemContext[i] = ItemContext[nextItem[t]]} IN
    /\ pc[t] = "sweep"
    /\ pending' = pending \ swept /\ ready' = ready \cup swept
    /\ Return(t)
    /\ UNCHANGED <<timeVars, dueAt, status>>

-----------------------------------------------------------------------------
(* The timer's callback, SubmitPendingCallbacks *)

\* The shot is spent when the callback begins; callbacks may overlap.
Fire(t) ==
    /\ t \in Timers /\ armed <= now + Early /\ armed # Never /\ Goto(t, "idle", "load")
    /\ armed' = Never
    /\ UNCHANGED <<now, timerDue, entryVars, status, localVars>>

LoadDue(t) ==
    /\ pc[t] = "load"
    /\ IF timerDue = Never
       THEN Return(t)
       ELSE /\ pc' = Set(pc, t, "clock")
            /\ due' = Set(due, t, timerDue)
            /\ UNCHANGED <<item, instant, nextItem>>
    /\ UNCHANGED <<timeVars, entryVars, status>>

ReadClock(t) ==
    /\ Goto(t, "clock", IF now < due[t] THEN "confirm" ELSE "promote")
    /\ instant' = Set(instant, t, now)
    /\ UNCHANGED <<timeVars, entryVars, status, item, due, nextItem>>

\* Too early: the due time read is still the one, and the timer is set again for it.
Confirm(t) ==
    /\ Goto(t, "confirm", IF timerDue = due[t] THEN "restart" ELSE "load")
    /\ UNCHANGED <<timeVars, entryVars, status, localVars>>

Restart(t) ==
    /\ Goto(t, "restart", "verify")
    /\ Start(due[t])
    /\ UNCHANGED <<now, timerDue, entryVars, status, localVars>>

Verify(t) ==
    /\ pc[t] = "verify"
    /\ IF timerDue = due[t]
       THEN Return(t)
       ELSE pc' = Set(pc, t, "load") /\ UNCHANGED localVars
    /\ UNCHANGED <<timeVars, entryVars, status>>

-----------------------------------------------------------------------------
(* PromoteReadyPendingCallbacks *)

\* What was due at the instant is queued; the earliest of the rest comes next.
Promote(t) ==
    LET late == {i \in pending : dueAt[i] <= instant[t]}
        rest == pending \ late
    IN  /\ pending' = rest /\ ready' = ready \cup late
        /\ IF rest = {}
           THEN /\ Goto(t, "promote", "rest")
                /\ UNCHANGED nextItem
           ELSE /\ Goto(t, "promote", "next")
                /\ \E i \in rest :
                      /\ \A j \in rest : dueAt[i] <= dueAt[j]
                      /\ nextItem' = Set(nextItem, t, i)
        /\ UNCHANGED <<timeVars, dueAt, status, item, due, instant>>

\* The next item's context is not active: its entries are swept, and that is all.
NextCanceled(t) ==
    /\ Goto(t, "next", "sweep")
    /\ status[ItemContext[nextItem[t]]] # "Active"
    /\ UNCHANGED <<timeVars, entryVars, status, localVars>>

\* Mutant of NextActive: the due time that has passed counts as an earlier one.
NextActiveIfEarlier(t) ==
    LET time == dueAt[nextItem[t]] IN
    /\ pc[t] = "next" /\ status[ItemContext[nextItem[t]]] = "Active"
    /\ IF time < timerDue
       THEN /\ timerDue' = time
            /\ pc' = Set(pc, t, "startNext") /\ UNCHANGED localVars
       ELSE Return(t) /\ UNCHANGED timerDue
    /\ UNCHANGED <<now, armed, entryVars, status>>

\* The due time is the next item's, unless another thread has set an earlier one.
NextActive(t) ==
    LET time == dueAt[nextItem[t]] IN
    /\ pc[t] = "next" /\ status[ItemContext[nextItem[t]]] = "Active"
    /\ IF timerDue = due[t] \/ time < timerDue
       THEN /\ timerDue' = time
            /\ pc' = Set(pc, t, "startNext") /\ UNCHANGED localVars
       ELSE Return(t) /\ UNCHANGED timerDue
    /\ UNCHANGED <<now, armed, entryVars, status>>

StartNext(t) ==
    /\ pc[t] = "startNext"
    /\ Start(dueAt[nextItem[t]])
    /\ Return(t)
    /\ UNCHANGED <<now, timerDue, entryVars, status>>

\* Nothing is left: the due time is cleared, and the list looked at once more for
\* what was pushed before that.
NoneLeft(t) ==
    /\ pc[t] = "rest"
    /\ IF timerDue = due[t] /\ due[t] # Never
       THEN /\ timerDue' = Never
            /\ due' = Set(due, t, Never) /\ instant' = Set(instant, t, now)
            /\ pc' = Set(pc, t, "promote")
            /\ UNCHANGED <<item, nextItem>>
       ELSE Return(t) /\ UNCHANGED timerDue
    /\ UNCHANGED <<now, armed, entryVars, status>>

-----------------------------------------------------------------------------
(* Termination of a context: PrepareTerminate, then Terminate *)

Cancel(t, c) ==
    /\ t \in Cancelers /\ c \in Ended /\ status[c] = "Active"
    /\ \E i \in Items : ItemContext[i] = c /\ nextItem' = Set(nextItem, t, i)
    /\ Goto(t, "idle", "end")
    /\ status' = Set(status, c, "Canceled")
    /\ UNCHANGED <<timeVars, entryVars, item, due, instant>>

Terminate(t) ==
    /\ Goto(t, "end", "sweep")
    /\ status' = [status EXCEPT ![ItemContext[nextItem[t]]] = "Terminating"]
    /\ UNCHANGED <<timeVars, entryVars, localVars>>

-----------------------------------------------------------------------------

Step(t) ==
    \/ LowerDue(t) \/ StartTimer(t) \/ CheckStatus(t) \/ Sweep(t)
    \/ LoadDue(t) \/ ReadClock(t) \/ Confirm(t) \/ Restart(t) \/ Verify(t)
    \/ Promote(t) \/ NextCanceled(t) \/ NextActive(t) \/ StartNext(t) \/ NoneLeft(t)
    \/ Terminate(t)

Next ==
    \/ Tick
    \/ \E t \in Threads :
        \/ \E i \in Items : QueueItem(t, i)
        \/ \E c \in Contexts : Cancel(t, c)
        \/ Fire(t) \/ Step(t)

\* The clock moves, threads go on, and the pool runs the callback of a timer.
Fairness ==
    /\ WF_vars(Tick)
    /\ \A t \in Threads : WF_vars(Step(t))
    /\ WF_vars(\E t \in Timers : Fire(t))

Spec == Init /\ [][Next]_vars

FairSpec == Spec /\ Fairness

-----------------------------------------------------------------------------
(* Properties *)

TypeOK ==
    /\ now \in 0 .. MaxTime /\ {timerDue, armed} \subseteq 1 .. Never
    /\ pending \subseteq Items /\ ready \subseteq Items /\ dueAt \in [Items -> 1 .. Never]
    /\ status \in [Contexts -> {"Active", "Canceled", "Terminating"}]
    /\ {item, nextItem} \subseteq [Threads -> Items \cup {None}]
    /\ due \in [Threads -> 1 .. Never] /\ instant \in [Threads -> 0 .. MaxTime]

AtRest == \A t \in Threads : pc[t] = "idle"

\* While no thread is at work, an entry that waits has the timer set, and for no later
\* than the last of the due times waited for: the exchange of m_timerDue, the sweep and
\* the start of the timer, which no lock joins, lose no entry between them.
TimerCoversPending ==
    AtRest /\ pending # {} => \E i \in pending : armed <= dueAt[i]

\* The entries whose time has come.
Overdue == {i \in pending : dueAt[i] <= now}

\* An entry whose time has come goes to the queue, or is swept there by a termination.
DueIsMet == Overdue # {} ~> Overdue = {}

\* What a test of two queues on one port says: the delayed callbacks of a queue are
\* called though the other queue is terminated, so the timer is set for them.
OtherQueueKeepsTimer ==
    AtRest => \A i \in pending : status[ItemContext[i]] = "Active" => armed # Never
=============================================================================
