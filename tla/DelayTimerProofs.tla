--------------------------- MODULE DelayTimerProofs ---------------------------
(***************************************************************************)
(* Proofs about DelayTimer, for any number of delayed callbacks, contexts, *)
(* submitters and overlapping timer callbacks: the timer is set for what   *)
(* waits, and nothing waits whose context has ended.  The first needs that *)
(* contexts which end are alone on the port (EndedAlone), for an ended     *)
(* context's entry takes the timer away from the others'.                  *)
(***************************************************************************)
EXTENDS DelayTimer, TLAPS

-----------------------------------------------------------------------------
(* The invariant *)

Labels == {"idle", "arm", "start", "check", "sweep", "load", "clock", "confirm", "restart",
           "verify", "promote", "next", "startNext", "rest", "end"}

Submitted == pending \cup ready

ShapeOK ==
    /\ TypeOK /\ pc \in [Threads -> Labels]
    /\ \A i \in Submitted : dueAt[i] < Never
    /\ \A i \in Items \ Submitted : dueAt[i] = Never
    /\ pending \cap ready = {}

\* A thread at work has its item, and the due time it read is an entry's.
ThreadsOK ==
    \A t \in Threads :
        /\ pc[t] \in {"arm", "start", "check"} => item[t] \in Submitted
        /\ pc[t] = "start" => due[t] = dueAt[item[t]]
        /\ pc[t] \in {"sweep", "end"} =>
              nextItem[t] \in Items /\ status[ItemContext[nextItem[t]]] # "Active"
        /\ pc[t] \in {"next", "startNext"} => nextItem[t] \in Submitted
        /\ pc[t] \in {"clock", "confirm", "restart", "verify"} =>
              \E i \in Submitted : due[t] = dueAt[i]
        /\ instant[t] <= now

\* m_timerDue and the pool's timer have the due time of an entry, or none.
TimesOK ==
    /\ timerDue # Never => \E i \in Submitted : timerDue = dueAt[i]
    /\ armed # Never => \E i \in Submitted : armed = dueAt[i]

AllActive == \A c \in Contexts : status[c] = "Active"

\* What was promoted came due, and before all that still waits.
OrderOK ==
    \A j \in ready : dueAt[j] <= now /\ \A i \in pending : dueAt[j] < dueAt[i]

\* The thread is on its way to set m_timerDue, if it is still Never.
SetsDue(t) == pc[t] = "arm" \/ (pc[t] \in {"promote", "next"} /\ due[t] = Never)

\* The thread is on its way to start the timer, unless m_timerDue changes before.
Starts(t) ==
    \/ pc[t] \in {"start", "startNext", "restart", "load", "confirm"}
    \/ pc[t] \in {"clock", "promote", "next", "rest"} /\ due[t] = timerDue

\* No link of the chain is missing: an entry, m_timerDue, the timer.
ChainOK ==
    /\ pending # {} /\ timerDue = Never => \E t \in Threads : SetsDue(t)
    /\ timerDue # Never /\ armed = Never => \E t \in Threads : Starts(t)

\* A context that ends has a thread that will sweep its entries, or none is left.
EndsOK ==
    \A c \in Contexts :
        /\ status[c] = "Canceled" =>
              \E t \in Threads : pc[t] = "end" /\ ItemContext[nextItem[t]] = c
        /\ status[c] = "Terminating" =>
              \/ \A i \in pending : ItemContext[i] # c
              \/ \E t \in Threads : pc[t] = "sweep" /\ ItemContext[nextItem[t]] = c

EndedOK == \A c \in Contexts : status[c] # "Active" => c \in Ended

TimerInv == ShapeOK /\ ThreadsOK /\ TimesOK /\ EndsOK /\ EndedOK

ActiveInv == AllActive => OrderOK /\ ChainOK

-----------------------------------------------------------------------------
(* Every step keeps it *)

USE DEF TimerConstants, Threads, timeVars, entryVars, localVars, Goto, Set, Never

LEMMA ShapeKept ==
  ASSUME TimerConstants, ShapeOK, ThreadsOK, TimesOK, Next
  PROVE  ShapeOK'
  <1> USE DEF ShapeOK, TypeOK, Labels, Submitted, ThreadsOK, TimesOK, Return, Start
  <1>1. CASE Tick
    BY <1>1 DEF Tick
  <1>2. ASSUME NEW t \in Threads, NEW i \in Items, QueueItem(t, i)
        PROVE  ShapeOK'
    BY <1>2 DEF QueueItem
  <1>3. ASSUME NEW t \in Threads, NEW c \in Contexts, Cancel(t, c)
        PROVE  ShapeOK'
    BY <1>3 DEF Cancel
  <1>4. ASSUME NEW t \in Threads, Fire(t)
        PROVE  ShapeOK'
    BY <1>4 DEF Fire
  <1>5. ASSUME NEW t \in Threads, LowerDue(t) \/ StartTimer(t) \/ CheckStatus(t)
        PROVE  ShapeOK'
    BY <1>5 DEF LowerDue, StartTimer, CheckStatus
  <1>6. ASSUME NEW t \in Threads, Sweep(t)
        PROVE  ShapeOK'
    BY <1>6 DEF Sweep
  <1>7. ASSUME NEW t \in Threads,
               \/ LoadDue(t) \/ ReadClock(t) \/ Confirm(t)
               \/ Restart(t) \/ Verify(t)
        PROVE  ShapeOK'
    BY <1>7 DEF LoadDue, ReadClock, Confirm, Restart, Verify
  <1>8. ASSUME NEW t \in Threads, Promote(t)
        PROVE  ShapeOK'
    BY <1>8 DEF Promote
  <1>9. ASSUME NEW t \in Threads, NextCanceled(t) \/ NextActive(t) \/ StartNext(t) \/ NoneLeft(t)
        PROVE  ShapeOK'
    BY <1>9 DEF NextCanceled, NextActive, StartNext, NoneLeft
  <1>10. ASSUME NEW t \in Threads, Terminate(t)
        PROVE  ShapeOK'
    BY <1>10 DEF Terminate
  <1> QED BY <1>1, <1>2, <1>3, <1>4, <1>5, <1>6, <1>7, <1>8, <1>9, <1>10 DEF Next, Step

LEMMA ThreadsKept ==
  ASSUME TimerConstants, ShapeOK, ThreadsOK, TimesOK, Next
  PROVE  ThreadsOK' /\ TimesOK'
  <1> USE DEF ShapeOK, TypeOK, Submitted, ThreadsOK, TimesOK, Return, Start
  <1>1. CASE Tick
    BY <1>1 DEF Tick
  <1>2. ASSUME NEW t \in Threads, NEW i \in Items, QueueItem(t, i)
        PROVE  ThreadsOK' /\ TimesOK'
    BY <1>2 DEF QueueItem
  <1>3. ASSUME NEW t \in Threads, NEW c \in Contexts, Cancel(t, c)
        PROVE  ThreadsOK' /\ TimesOK'
    BY <1>3 DEF Cancel
  <1>4. ASSUME NEW t \in Threads, Fire(t)
        PROVE  ThreadsOK' /\ TimesOK'
    BY <1>4 DEF Fire
  <1>5. ASSUME NEW t \in Threads, LowerDue(t) \/ StartTimer(t) \/ CheckStatus(t)
        PROVE  ThreadsOK' /\ TimesOK'
    BY <1>5 DEF LowerDue, StartTimer, CheckStatus
  <1>6. ASSUME NEW t \in Threads, Sweep(t)
        PROVE  ThreadsOK' /\ TimesOK'
    BY <1>6 DEF Sweep
  <1>7. ASSUME NEW t \in Threads,
               \/ LoadDue(t) \/ ReadClock(t) \/ Confirm(t)
               \/ Restart(t) \/ Verify(t)
        PROVE  ThreadsOK' /\ TimesOK'
    BY <1>7 DEF LoadDue, ReadClock, Confirm, Restart, Verify
  <1>8. ASSUME NEW t \in Threads, Promote(t)
        PROVE  ThreadsOK' /\ TimesOK'
    BY <1>8 DEF Promote
  <1>9. ASSUME NEW t \in Threads, NextCanceled(t) \/ NextActive(t) \/ StartNext(t) \/ NoneLeft(t)
        PROVE  ThreadsOK' /\ TimesOK'
    BY <1>9 DEF NextCanceled, NextActive, StartNext, NoneLeft
  <1>10. ASSUME NEW t \in Threads, Terminate(t)
        PROVE  ThreadsOK' /\ TimesOK'
    BY <1>10 DEF Terminate
  <1> QED BY <1>1, <1>2, <1>3, <1>4, <1>5, <1>6, <1>7, <1>8, <1>9, <1>10 DEF Next, Step

LEMMA OrderKept ==
  ASSUME TimerConstants, ShapeOK, ThreadsOK, OrderOK, AllActive, AllActive', Next
  PROVE  OrderOK'
  <1> USE DEF ShapeOK, TypeOK, Submitted, ThreadsOK, OrderOK, AllActive, Return, Start
  <1>1. CASE Tick
    BY <1>1 DEF Tick
  <1>2. ASSUME NEW t \in Threads, NEW i \in Items, QueueItem(t, i)
        PROVE  OrderOK'
    BY <1>2 DEF QueueItem
  <1>3. ASSUME NEW t \in Threads, NEW c \in Contexts, Cancel(t, c)
        PROVE  OrderOK'
    BY <1>3 DEF Cancel
  <1>4. ASSUME NEW t \in Threads, Fire(t)
        PROVE  OrderOK'
    BY <1>4 DEF Fire
  <1>5. ASSUME NEW t \in Threads, LowerDue(t)
        PROVE  OrderOK'
    BY <1>5 DEF LowerDue
  <1>6. ASSUME NEW t \in Threads, StartTimer(t) \/ CheckStatus(t)
        PROVE  OrderOK'
    BY <1>6 DEF StartTimer, CheckStatus
  <1>7. ASSUME NEW t \in Threads, Sweep(t)
        PROVE  OrderOK'
    BY <1>7 DEF Sweep
  <1>8. ASSUME NEW t \in Threads,
               \/ LoadDue(t) \/ ReadClock(t) \/ Confirm(t)
               \/ Restart(t) \/ Verify(t)
        PROVE  OrderOK'
    BY <1>8 DEF LoadDue, ReadClock, Confirm, Restart, Verify
  <1>9. ASSUME NEW t \in Threads, Promote(t)
        PROVE  OrderOK'
    BY <1>9 DEF Promote
  <1>10. ASSUME NEW t \in Threads, NextCanceled(t) \/ NextActive(t)
        PROVE  OrderOK'
    BY <1>10 DEF NextCanceled, NextActive
  <1>11. ASSUME NEW t \in Threads, StartNext(t) \/ NoneLeft(t)
        PROVE  OrderOK'
    BY <1>11 DEF StartNext, NoneLeft
  <1>12. ASSUME NEW t \in Threads, Terminate(t)
        PROVE  OrderOK'
    BY <1>12 DEF Terminate
  <1> QED BY <1>1, <1>2, <1>3, <1>4, <1>5, <1>6, <1>7, <1>8, <1>9, <1>10, <1>11, <1>12
           DEF Next, Step

LEMMA ChainKept ==
  ASSUME TimerConstants, ShapeOK, ThreadsOK, TimesOK, ChainOK, AllActive, AllActive', Next
  PROVE  ChainOK'
  <1> USE DEF ShapeOK, TypeOK, Submitted, ThreadsOK, TimesOK, ChainOK, SetsDue, Starts,
             AllActive, Return, Start
  <1>1. CASE Tick
    BY <1>1 DEF Tick
  <1>2. ASSUME NEW t \in Threads, NEW i \in Items, QueueItem(t, i)
        PROVE  ChainOK'
    BY <1>2 DEF QueueItem
  <1>3. ASSUME NEW t \in Threads, NEW c \in Contexts, Cancel(t, c)
        PROVE  ChainOK'
    BY <1>3 DEF Cancel
  <1>4. ASSUME NEW t \in Threads, Fire(t)
        PROVE  ChainOK'
    BY <1>4 DEF Fire
  <1>5. ASSUME NEW t \in Threads, LowerDue(t)
        PROVE  ChainOK'
    BY <1>5 DEF LowerDue
  <1>6. ASSUME NEW t \in Threads, StartTimer(t) \/ CheckStatus(t)
        PROVE  ChainOK'
    BY <1>6 DEF StartTimer, CheckStatus
  <1>7. ASSUME NEW t \in Threads, Sweep(t)
        PROVE  ChainOK'
    BY <1>7 DEF Sweep
  <1>8. ASSUME NEW t \in Threads,
               \/ LoadDue(t) \/ ReadClock(t) \/ Confirm(t)
               \/ Restart(t) \/ Verify(t)
        PROVE  ChainOK'
    BY <1>8 DEF LoadDue, ReadClock, Confirm, Restart, Verify
  <1>9. ASSUME NEW t \in Threads, Promote(t)
        PROVE  ChainOK'
    BY <1>9 DEF Promote
  <1>10. ASSUME NEW t \in Threads, NextCanceled(t) \/ NextActive(t)
        PROVE  ChainOK'
    BY <1>10 DEF NextCanceled, NextActive
  <1>11. ASSUME NEW t \in Threads, StartNext(t) \/ NoneLeft(t)
        PROVE  ChainOK'
    BY <1>11 DEF StartNext, NoneLeft
  <1>12. ASSUME NEW t \in Threads, Terminate(t)
        PROVE  ChainOK'
    BY <1>12 DEF Terminate
  <1> QED BY <1>1, <1>2, <1>3, <1>4, <1>5, <1>6, <1>7, <1>8, <1>9, <1>10, <1>11, <1>12
           DEF Next, Step

LEMMA EndsKept ==
  ASSUME TimerConstants, ShapeOK, ThreadsOK, EndsOK, Next
  PROVE  EndsOK'
  <1> USE DEF ShapeOK, TypeOK, Submitted, ThreadsOK, EndsOK, Return, Start
  <1>1. CASE Tick
    BY <1>1 DEF Tick
  <1>2. ASSUME NEW t \in Threads, NEW i \in Items, QueueItem(t, i)
        PROVE  EndsOK'
    BY <1>2 DEF QueueItem
  <1>3. ASSUME NEW t \in Threads, NEW c \in Contexts, Cancel(t, c)
        PROVE  EndsOK'
    BY <1>3 DEF Cancel
  <1>4. ASSUME NEW t \in Threads, Fire(t)
        PROVE  EndsOK'
    BY <1>4 DEF Fire
  <1>5. ASSUME NEW t \in Threads, LowerDue(t)
        PROVE  EndsOK'
    BY <1>5 DEF LowerDue
  <1>6. ASSUME NEW t \in Threads, StartTimer(t) \/ CheckStatus(t)
        PROVE  EndsOK'
    BY <1>6 DEF StartTimer, CheckStatus
  <1>7. ASSUME NEW t \in Threads, Sweep(t)
        PROVE  EndsOK'
    BY <1>7 DEF Sweep
  <1>8. ASSUME NEW t \in Threads,
               \/ LoadDue(t) \/ ReadClock(t) \/ Confirm(t)
               \/ Restart(t) \/ Verify(t)
        PROVE  EndsOK'
    BY <1>8 DEF LoadDue, ReadClock, Confirm, Restart, Verify
  <1>9. ASSUME NEW t \in Threads, Promote(t)
        PROVE  EndsOK'
    BY <1>9 DEF Promote
  <1>10. ASSUME NEW t \in Threads, NextCanceled(t) \/ NextActive(t)
        PROVE  EndsOK'
    BY <1>10 DEF NextCanceled, NextActive
  <1>11. ASSUME NEW t \in Threads, StartNext(t) \/ NoneLeft(t)
        PROVE  EndsOK'
    BY <1>11 DEF StartNext, NoneLeft
  <1>12. ASSUME NEW t \in Threads, Terminate(t)
        PROVE  EndsOK'
    BY <1>12 DEF Terminate
  <1> QED BY <1>1, <1>2, <1>3, <1>4, <1>5, <1>6, <1>7, <1>8, <1>9, <1>10, <1>11, <1>12
           DEF Next, Step

\* A context ends once, and only those of Ended do.
LEMMA StatusKept ==
  ASSUME TimerConstants, ShapeOK, ThreadsOK, EndedOK, Next
  PROVE  EndedOK' /\ (AllActive' => AllActive)
  <1> USE DEF ShapeOK, TypeOK, ThreadsOK, EndedOK, AllActive
  <1>1. CASE Tick
    BY <1>1 DEF Tick
  <1>2. ASSUME NEW t \in Threads, NEW i \in Items, QueueItem(t, i)
        PROVE  EndedOK' /\ (AllActive' => AllActive)
    BY <1>2 DEF QueueItem
  <1>3. ASSUME NEW t \in Threads, NEW c \in Contexts, Cancel(t, c)
        PROVE  EndedOK' /\ (AllActive' => AllActive)
    BY <1>3 DEF Cancel
  <1>4. ASSUME NEW t \in Threads, Fire(t)
        PROVE  EndedOK' /\ (AllActive' => AllActive)
    BY <1>4 DEF Fire
  <1>5. ASSUME NEW t \in Threads, LowerDue(t) \/ StartTimer(t) \/ CheckStatus(t) \/ Sweep(t)
        PROVE  EndedOK' /\ (AllActive' => AllActive)
    BY <1>5 DEF LowerDue, StartTimer, CheckStatus, Sweep
  <1>6. ASSUME NEW t \in Threads,
               \/ LoadDue(t) \/ ReadClock(t) \/ Confirm(t)
               \/ Restart(t) \/ Verify(t)
        PROVE  EndedOK' /\ (AllActive' => AllActive)
    BY <1>6 DEF LoadDue, ReadClock, Confirm, Restart, Verify
  <1>7. ASSUME NEW t \in Threads,
               \/ Promote(t) \/ NextCanceled(t) \/ NextActive(t)
               \/ StartNext(t) \/ NoneLeft(t)
        PROVE  EndedOK' /\ (AllActive' => AllActive)
    BY <1>7 DEF Promote, NextCanceled, NextActive, StartNext, NoneLeft
  <1>8. ASSUME NEW t \in Threads, Terminate(t)
        PROVE  EndedOK' /\ (AllActive' => AllActive)
    BY <1>8 DEF Terminate
  <1> QED BY <1>1, <1>2, <1>3, <1>4, <1>5, <1>6, <1>7, <1>8 DEF Next, Step

LEMMA InitTimer ==
  ASSUME TimerConstants, Init
  PROVE  TimerInv /\ ActiveInv
  <1>1. ShapeOK
    BY DEF Init, ShapeOK, TypeOK, Submitted, Labels
  <1>2. ThreadsOK /\ TimesOK
    BY DEF Init, ThreadsOK, TimesOK
  <1>3. EndsOK /\ EndedOK
    BY DEF Init, EndsOK, EndedOK
  <1>4. OrderOK /\ ChainOK
    BY DEF Init, OrderOK, ChainOK
  <1> QED BY <1>1, <1>2, <1>3, <1>4 DEF TimerInv, ActiveInv

LEMMA StutterTimer ==
  ASSUME TimerInv, ActiveInv, UNCHANGED vars
  PROVE  TimerInv' /\ ActiveInv'
  <1>1. TimerInv'
    BY DEF vars, TimerInv, ShapeOK, TypeOK, Submitted, ThreadsOK, TimesOK, EndsOK, EndedOK
  <1>2. ActiveInv'
    BY DEF vars, ActiveInv, AllActive, OrderOK, ChainOK, SetsDue, Starts
  <1> QED BY <1>1, <1>2

LEMMA TimerInvariant ==
  ASSUME TimerConstants
  PROVE  Spec => [](TimerInv /\ ActiveInv)
  <1>1. Init => TimerInv /\ ActiveInv
    BY InitTimer
  <1>2. TimerInv /\ ActiveInv /\ [Next]_vars => TimerInv' /\ ActiveInv'
    <2>1. ASSUME TimerInv, ActiveInv, Next
          PROVE  TimerInv' /\ ActiveInv'
      <3>1. TimerInv' /\ (AllActive' => AllActive)
        BY <2>1, ShapeKept, ThreadsKept, EndsKept, StatusKept DEF TimerInv
      <3>2. ASSUME AllActive'
            PROVE  OrderOK' /\ ChainOK'
        BY <2>1, <3>1, <3>2, OrderKept, ChainKept DEF TimerInv, ActiveInv
      <3> QED BY <3>1, <3>2 DEF ActiveInv
    <2> QED BY <2>1, StutterTimer
  <1> QED BY <1>1, <1>2, PTL DEF Spec

-----------------------------------------------------------------------------
(* The theorems *)

\* The state of the timer keeps its types, for any constants: what is loaded from a list
\* that is changed meanwhile, or from m_timerDue, is an entry's or a due time.
THEOREM TypeCorrect ==
  ASSUME TimerConstants
  PROVE  Spec => []TypeOK
  <1>1. TimerInv => TypeOK
    BY DEF TimerInv, ShapeOK
  <1> QED BY <1>1, TimerInvariant, PTL

\* While no thread is at work, no entry waits whose context has ended.
EndedAreSwept == AtRest => \A i \in pending : status[ItemContext[i]] = "Active"

\* XTaskQueueTerminate, which sweeps after the context takes no more entries, or a QueueItem
\* that looked at the status after its push, has swept the entries of an ended context,
\* for any number of contexts that end while entries are pushed and promoted.
THEOREM NoEndedEntryWaits ==
  ASSUME TimerConstants
  PROVE  Spec => []EndedAreSwept
  <1>1. TimerInv => EndedAreSwept
    <2> SUFFICES ASSUME TimerInv, AtRest, NEW i \in pending
                 PROVE  status[ItemContext[i]] = "Active"
      BY DEF EndedAreSwept
    <2>1. ItemContext[i] \in Contexts
      BY DEF TimerInv, ShapeOK, TypeOK
    <2> QED BY <2>1 DEF TimerInv, ShapeOK, TypeOK, EndsOK, AtRest
  <1> QED BY <1>1, TimerInvariant, PTL

\* No context ends, or it is the port's only one.
EndedAlone == Ended = {} \/ \A c, d \in Contexts : c = d

\* While no thread is at work, the timer is set for what waits (QueueItem,
\* SubmitPendingCallbacks and PromoteReadyPendingCallbacks, which exchange m_timerDue and
\* start the timer with no lock between), for any number of entries, submitters and
\* overlapping callbacks.
THEOREM TimerIsSet ==
  ASSUME TimerConstants, EndedAlone
  PROVE  Spec => []TimerCoversPending
  <1>1. TimerInv /\ ActiveInv /\ EndedAreSwept => TimerCoversPending
    <2> SUFFICES ASSUME TimerInv, ActiveInv, EndedAreSwept, AtRest, NEW i \in pending
                 PROVE  \E j \in pending : armed <= dueAt[j]
      BY DEF TimerCoversPending
    <2>1. AllActive
      <3>1. ItemContext[i] \in Contexts /\ status[ItemContext[i]] = "Active"
        BY DEF TimerInv, ShapeOK, TypeOK, EndedAreSwept
      <3> QED BY <3>1 DEF EndedAlone, AllActive, TimerInv, EndedOK
    <2>2. OrderOK /\ timerDue # Never /\ armed # Never
      BY <2>1 DEF ActiveInv, ChainOK, SetsDue, Starts, AtRest
    <2>3. PICK j \in Submitted : armed = dueAt[j]
      BY <2>2 DEF TimerInv, TimesOK
    <2>4. /\ i \in Items /\ j \in Items
          /\ dueAt[i] \in Int /\ dueAt[j] \in Int
      BY DEF TimerInv, ShapeOK, TypeOK, Submitted
    <2>5. CASE j \in pending
      BY <2>3, <2>4, <2>5
    <2>6. CASE j \in ready
      BY <2>2, <2>3, <2>4, <2>6 DEF OrderOK
    <2> QED BY <2>5, <2>6 DEF Submitted
  <1> QED BY <1>1, NoEndedEntryWaits, TimerInvariant, PTL
=============================================================================
