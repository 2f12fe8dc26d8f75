------------------------- MODULE TaskQueuePortProofs -------------------------
(***************************************************************************)
(* Theorems about TaskQueuePort for any number of threads, contexts, items *)
(* and terminations: its types, its suspends, its serialized drains, the   *)
(* finality of termination, and where a termination is; that a callback is *)
(* never lost, never duplicated and called at most once; and that IsEmpty  *)
(* does not answer true while a callback that was queued without a delay   *)
(* is left.                                                                *)
(***************************************************************************)
EXTENDS TaskQueuePort, FiniteSetTheorems, FunctionTheorems, TLAPS

-----------------------------------------------------------------------------
(* Type correctness.  TypeOK is cut into the shared state, the event, the  *)
(* handlers' locals and the history.  A step is well typed because of      *)
(* where its thread is: a thread that appends has an entry in hand, a      *)
(* terminator that has begun a termination, a suspender a context; that is *)
(* ControlOK.                                                              *)

SharedOK ==
    /\ mode \in Modes
    /\ status \in [Contexts -> Statuses]
    /\ suspendCount \in [Contexts -> Int]
    /\ queueList \in Seq(Items) /\ pendingList \in Seq(Items)
    /\ pendingLock \in Threads \cup {None}
    /\ ripe \subseteq Delayed
    /\ terminationList \subseteq Terminations
    /\ pendingTerminationList \subseteq Terminations
    /\ processingCallback \in Int /\ processingSerialized \in Int
    /\ submissions \in Nat

EventOK == event \in BOOLEAN /\ blocked \subseteq Threads

LocalOK ==
    /\ pc \in [Threads -> Labels]
    /\ ctx \in [Threads -> Contexts \cup {None}]
    /\ item \in [Threads -> Items \cup {None}]
    /\ term \in [Threads -> Terminations \cup {None}]
    /\ taken \in [Threads -> Seq(Items)] /\ retained \in [Threads -> Seq(Items)]
    /\ terms \in [Threads -> SUBSET Terminations]
    /\ holds \in [Threads -> SUBSET Contexts]

FoundOK == found \in [Threads -> BOOLEAN]

HistoryOK ==
    /\ outcome \in [Items -> {"none", "queueing", "refused", "accepted"}]
    /\ called \in [Items -> Nat]
    /\ request \in [Terminations -> {"none", "prepared", "canceled", "requested"}]
    /\ delivered \in [Terminations -> Nat]
    /\ watched \in [Threads -> SUBSET Items]

ControlOK ==
    /\ after \in [Threads -> {"idle", "check", "next", "suspend", "resume"}]
    /\ \A t \in Threads : pc[t] = "append" => taken[t] # <<>>
    /\ \A t \in Threads : pc[t] \in {"pend", "call"} => item[t] \in Items
    /\ \A t \in Terminators : pc[t] # "idle" =>
           /\ term[t] \in Terminations
           /\ ctx[t] = TerminationContext[term[t]]
    /\ \A t \in Suspenders : pc[t] # "idle" => ctx[t] \in Contexts

TypeInv == SharedOK /\ EventOK /\ LocalOK /\ FoundOK /\ HistoryOK /\ ControlOK

\* The parts of TypeInv cover TypeOK.
LEMMA TypeInvImpliesTypeOK == TypeInv => TypeOK
  <1> SUFFICES ASSUME TypeInv PROVE TypeOK
    OBVIOUS
  <1>1. after \in [Threads -> Labels]
    BY DEF TypeInv, ControlOK, Labels
  <1> QED BY <1>1 DEF TypeInv, SharedOK, EventOK, LocalOK, FoundOK, HistoryOK, TypeOK

\* The port is well typed when it is created.
LEMMA TypeInit == Init => TypeInv
  <1> SUFFICES ASSUME Init PROVE TypeInv
    OBVIOUS
  <1>1. SharedOK
    BY PortAssumption DEF Init, SharedOK, Statuses
  <1>2. EventOK
    <2>1. event = FALSE /\ blocked = {}
      BY DEF Init
    <2> QED BY <2>1, Zenon DEF EventOK
  <1>3. LocalOK
    BY DEF Init, LocalOK, Labels
  <1>4. FoundOK /\ HistoryOK
    BY DEF Init, FoundOK, HistoryOK
  <1>5. ControlOK
    BY DEF Init, ControlOK, Threads
  <1> QED BY <1>1, <1>2, <1>3, <1>4, <1>5 DEF TypeInv

\* What is left of a list when its first entry is taken.
LEMMA HeadTail ==
  ASSUME NEW S, NEW s \in Seq(S), s # <<>>
  PROVE  Head(s) \in S /\ Tail(s) \in Seq(S)
  OBVIOUS

\* How the size of a set of threads changes
LEMMA CardinalityStep ==
  ASSUME NEW S, S \subseteq Threads
  PROVE  /\ Cardinality(S) \in Nat
         /\ S = {} => Cardinality(S) = 0
         /\ \A t \in Threads : t \notin S => Cardinality(S \cup {t}) = Cardinality(S) + 1
         /\ \A t \in S : Cardinality(S \ {t}) = Cardinality(S) - 1 /\ Cardinality(S) > 0
         /\ \A T \in SUBSET S : Cardinality(T) \in Nat /\ Cardinality(T) <= Cardinality(S)
  <1>1. IsFiniteSet(S)
    BY PortAssumption, FS_Subset
  <1>2. Cardinality(S) \in Nat /\ (Cardinality(S) = 0 <=> S = {})
    BY <1>1, FS_CardinalityType, FS_EmptySet
  <1>3. ASSUME NEW t \in Threads, t \notin S
        PROVE  Cardinality(S \cup {t}) = Cardinality(S) + 1
    BY <1>1, <1>3, FS_AddElement
  <1>4. ASSUME NEW t \in S
        PROVE  Cardinality(S \ {t}) = Cardinality(S) - 1 /\ Cardinality(S) > 0
    <2>1. Cardinality(S \ {t}) = Cardinality(S) - 1
      BY <1>1, <1>4, FS_RemoveElement
    <2> QED BY <1>2, <1>4, <2>1
  <1>5. ASSUME NEW T \in SUBSET S
        PROVE  Cardinality(T) \in Nat /\ Cardinality(T) <= Cardinality(S)
    BY <1>1, <1>2, FS_Subset, FS_CardinalityType
  <1> QED BY <1>2, <1>3, <1>4, <1>5

USE DEF TypeInv, Goto, Set, listVars, statusVars, terminationVars, poolVars,
        eventVars, localVars, historyVars

\* The remove_if loop and AppendEntry preserve the types.
LEMMA TypeCancelPendingEntries ==
  ASSUME TypeInv, NEW t \in Threads, CancelPendingEntries(t)
  PROVE  TypeInv'
  <1>1. CASE LockPending(t)
    <2>1. EventOK' /\ FoundOK' /\ HistoryOK'
      BY <1>1 DEF EventOK, FoundOK, HistoryOK, LockPending
    <2>2. SharedOK'
      BY <1>1 DEF SharedOK, LockPending
    <2>3. LocalOK'
      BY <1>1 DEF LocalOK, Labels, LockPending
    <2>4. ControlOK'
      BY <1>1, RolesAreDisjoint DEF ControlOK, LocalOK, Threads, LockPending
    <2> QED BY <2>1, <2>2, <2>3, <2>4 DEF TypeInv
  <1>2. CASE CancelEntry(t)
    <2>1. EventOK' /\ FoundOK' /\ HistoryOK'
      BY <1>2 DEF EventOK, FoundOK, HistoryOK, CancelEntry
    <2>2. SharedOK'
      BY <1>2 DEF SharedOK, CancelEntry
    <2>3. LocalOK'
      <3>1. /\ Head(pendingList) \in Items
            /\ UNCHANGED <<pc, ctx, item, term, terms, holds>>
        BY <1>2, HeadTail DEF SharedOK, CancelEntry
      <3>2. /\ Append(taken[t], Head(pendingList)) \in Seq(Items)
            /\ Append(retained[t], Head(pendingList)) \in Seq(Items)
        BY <3>1 DEF LocalOK
      <3>3. taken' \in [Threads -> Seq(Items)] /\ retained' \in [Threads -> Seq(Items)]
        BY <1>2, <3>2 DEF LocalOK, CancelEntry
      <3> QED BY <3>1, <3>3 DEF LocalOK
    <2>4. ControlOK'
      BY <1>2, RolesAreDisjoint DEF ControlOK, LocalOK, Threads, CancelEntry
    <2> QED BY <2>1, <2>2, <2>3, <2>4 DEF TypeInv
  <1>3. CASE EndOfPending(t)
    <2>1. SharedOK' /\ EventOK' /\ FoundOK' /\ HistoryOK'
      BY <1>3 DEF SharedOK, EventOK, FoundOK, HistoryOK, EndOfPending
    <2>2. LocalOK'
      BY <1>3 DEF LocalOK, Labels, EndOfPending
    <2>3. ControlOK'
      BY <1>3, RolesAreDisjoint DEF ControlOK, LocalOK, Threads, EndOfPending
    <2> QED BY <2>1, <2>2, <2>3 DEF TypeInv
  <1>4. CASE RestoreEntry(t)
    <2>1. EventOK' /\ FoundOK' /\ HistoryOK' /\ ControlOK'
      BY <1>4 DEF EventOK, FoundOK, HistoryOK, ControlOK, RestoreEntry
    <2>2. SharedOK'
      BY <1>4 DEF SharedOK, LocalOK, ControlOK, RestoreEntry
    <2>3. LocalOK'
      BY <1>4 DEF LocalOK, Labels, RestoreEntry
    <2> QED BY <2>1, <2>2, <2>3 DEF TypeInv
  <1>5. CASE UnlockPending(t)
    <2>1. EventOK' /\ FoundOK' /\ HistoryOK'
      BY <1>5 DEF EventOK, FoundOK, HistoryOK, UnlockPending
    <2>2. SharedOK'
      BY <1>5 DEF SharedOK, UnlockPending
    <2>3. LocalOK'
      BY <1>5 DEF LocalOK, SharedOK, ControlOK, Labels, UnlockPending
    <2>4. ControlOK'
      BY <1>5, RolesAreDisjoint DEF ControlOK, LocalOK, Threads, UnlockPending
    <2> QED BY <2>1, <2>2, <2>3, <2>4 DEF TypeInv
  <1>6. CASE AppendEntry(t)
    <2>1. EventOK' /\ FoundOK'
      BY <1>6 DEF EventOK, FoundOK, AppendEntry
    <2>2. SharedOK'
      BY <1>6 DEF SharedOK, LocalOK, ControlOK, AppendEntry
    <2>3. LocalOK'
      <3>1. Tail(taken[t]) \in Seq(Items)
        BY <1>6, HeadTail DEF LocalOK, ControlOK, AppendEntry
      <3> QED BY <1>6, <3>1 DEF LocalOK, Labels, AppendEntry
    <2>4. HistoryOK'
      BY <1>6 DEF HistoryOK, AppendEntry
    <2>5. ControlOK'
      BY <1>6, RolesAreDisjoint DEF ControlOK, LocalOK, Threads, AppendEntry
    <2> QED BY <2>1, <2>2, <2>3, <2>4, <2>5 DEF TypeInv
  <1>7. CASE NotifyEntry(t)
    <2>1. FoundOK' /\ HistoryOK'
      BY <1>7 DEF FoundOK, HistoryOK, NotifyEntry, SignalQueue, NotifyItemQueued
    <2>2. SharedOK'
      BY <1>7 DEF SharedOK, NotifyEntry, SignalQueue, NotifyItemQueued
    <2>3. EventOK'
      BY <1>7 DEF EventOK, NotifyEntry, SignalQueue, NotifyItemQueued
    <2>4. LocalOK'
      BY <1>7
        DEF LocalOK, SharedOK, ControlOK, Labels, NotifyEntry, SignalQueue,
            NotifyItemQueued
    <2>5. ControlOK'
      BY <1>7, RolesAreDisjoint
        DEF ControlOK, LocalOK, Threads, NotifyEntry, SignalQueue,
            NotifyItemQueued
    <2> QED BY <2>1, <2>2, <2>3, <2>4, <2>5 DEF TypeInv
  <1> QED BY <1>1, <1>2, <1>3, <1>4, <1>5, <1>6, <1>7 DEF CancelPendingEntries

\* So do the steps of ResumeTermination,
LEMMA TypeResumeTermination ==
  ASSUME TypeInv, NEW t \in Terminators \cup Suspenders, ResumeTermination(t)
  PROVE  TypeInv'
  <1>1. t \in Threads
    BY DEF Threads
  <1>2. CASE RemoveSuspend(t)
    <2>1. EventOK' /\ FoundOK' /\ HistoryOK'
      BY <1>2, <1>1 DEF EventOK, FoundOK, HistoryOK, RemoveSuspend
    <2>2. SharedOK'
      <3>1. ctx[t] \in Contexts
        BY <1>2, PortAssumption DEF ControlOK, RemoveSuspend
      <3> QED BY <1>2, <3>1 DEF SharedOK, RemoveSuspend
    <2>3. LocalOK'
      BY <1>2, <1>1 DEF LocalOK, Labels, RemoveSuspend
    <2>4. ControlOK'
      BY <1>2, <1>1, RolesAreDisjoint DEF ControlOK, LocalOK, Threads, RemoveSuspend
    <2> QED BY <2>1, <2>2, <2>3, <2>4 DEF TypeInv
  <1>3. CASE CollectTerminations(t)
    <2>1. EventOK' /\ FoundOK' /\ HistoryOK'
      BY <1>3, <1>1 DEF EventOK, FoundOK, HistoryOK, CollectTerminations
    <2>2. SharedOK'
      BY <1>3, <1>1 DEF SharedOK, CollectTerminations
    <2>3. LocalOK'
      BY <1>3, <1>1 DEF LocalOK, SharedOK, ControlOK, Labels, CollectTerminations
    <2>4. ControlOK'
      BY <1>3, <1>1, RolesAreDisjoint
        DEF ControlOK, LocalOK, Threads, CollectTerminations
    <2> QED BY <2>1, <2>2, <2>3, <2>4 DEF TypeInv
  <1>4. CASE ScheduleTermination(t)
    <2>1. EventOK' /\ FoundOK' /\ HistoryOK'
      BY <1>4, <1>1 DEF EventOK, FoundOK, HistoryOK, ScheduleTermination
    <2>2. SharedOK'
      BY <1>4, <1>1 DEF SharedOK, LocalOK, ControlOK, ScheduleTermination
    <2>3. LocalOK'
      BY <1>4, <1>1 DEF LocalOK, Labels, ScheduleTermination
    <2>4. ControlOK'
      BY <1>4, <1>1, RolesAreDisjoint
        DEF ControlOK, LocalOK, Threads, ScheduleTermination
    <2> QED BY <2>1, <2>2, <2>3, <2>4 DEF TypeInv
  <1>5. CASE AnnounceTermination(t)
    <2>1. FoundOK' /\ HistoryOK'
      BY <1>5, <1>1
        DEF FoundOK, HistoryOK, AnnounceTermination, SignalQueue, NotifyItemQueued
    <2>2. SharedOK'
      BY <1>5, <1>1 DEF SharedOK, AnnounceTermination, SignalQueue, NotifyItemQueued
    <2>3. EventOK'
      BY <1>5, <1>1 DEF EventOK, AnnounceTermination, SignalQueue, NotifyItemQueued
    <2>4. LocalOK'
      BY <1>5, <1>1
        DEF LocalOK, SharedOK, ControlOK, Labels, AnnounceTermination, SignalQueue,
            NotifyItemQueued
    <2>5. ControlOK'
      BY <1>5, <1>1, RolesAreDisjoint
        DEF ControlOK, LocalOK, Threads, AnnounceTermination, SignalQueue,
            NotifyItemQueued
    <2> QED BY <2>1, <2>2, <2>3, <2>4, <2>5 DEF TypeInv
  <1> QED BY <1>2, <1>3, <1>4, <1>5 DEF ResumeTermination

\* and of DrainOneItem.
LEMMA TypeDrain ==
  ASSUME TypeInv, NEW t \in Dispatchers \cup Workers, Drain(t)
  PROVE  TypeInv'
  <1>1. t \in Threads
    BY DEF Threads
  <1>2. CASE DrainOneItem(t)
    <2>1. EventOK' /\ FoundOK' /\ HistoryOK'
      BY <1>2, <1>1 DEF EventOK, FoundOK, HistoryOK, DrainOneItem
    <2>2. SharedOK'
      BY <1>2, <1>1 DEF SharedOK, DrainOneItem
    <2>3. LocalOK'
      BY <1>2, <1>1 DEF LocalOK, Labels, DrainOneItem
    <2>4. ControlOK'
      BY <1>2, <1>1, RolesAreDisjoint DEF ControlOK, LocalOK, Threads, DrainOneItem
    <2> QED BY <2>1, <2>2, <2>3, <2>4 DEF TypeInv
  <1>3. CASE PopFront(t)
    <2>1. EventOK' /\ HistoryOK'
      BY <1>3, <1>1 DEF EventOK, HistoryOK, PopFront
    <2>2. SharedOK'
      <3>1. queueList # <<>> => Tail(queueList) \in Seq(Items)
        BY HeadTail DEF SharedOK
      <3> QED BY <1>3, <3>1 DEF SharedOK, PopFront
    <2>3. LocalOK'
      <3>1. queueList # <<>> => Head(queueList) \in Items
        BY HeadTail DEF SharedOK
      <3> QED BY <1>3, <1>1, <3>1 DEF LocalOK, Labels, PopFront
    <2>4. FoundOK'
      BY <1>3, <1>1 DEF FoundOK, PopFront
    <2>5. ControlOK'
      <3>1. queueList # <<>> => Head(queueList) \in Items
        BY HeadTail DEF SharedOK
      <3> QED BY <1>3, <1>1, <3>1, RolesAreDisjoint
        DEF ControlOK, LocalOK, Threads, PopFront
    <2> QED BY <2>1, <2>2, <2>3, <2>4, <2>5 DEF TypeInv
  <1>4. CASE InvokeCallback(t)
    <2>1. SharedOK' /\ EventOK' /\ FoundOK'
      BY <1>4, <1>1 DEF SharedOK, EventOK, FoundOK, InvokeCallback
    <2>2. LocalOK'
      BY <1>4, <1>1 DEF LocalOK, Labels, InvokeCallback
    <2>3. HistoryOK'
      <3>1. item[t] \in Items
        BY <1>4, <1>1 DEF ControlOK, InvokeCallback
      <3> QED BY <1>4, <3>1 DEF HistoryOK, InvokeCallback
    <2>4. ControlOK'
      BY <1>4, <1>1, RolesAreDisjoint
        DEF ControlOK, LocalOK, Threads, InvokeCallback
    <2> QED BY <2>1, <2>2, <2>3, <2>4 DEF TypeInv
  <1>5. CASE Uncount(t)
    <2>1. EventOK' /\ FoundOK' /\ HistoryOK'
      BY <1>5, <1>1 DEF EventOK, FoundOK, HistoryOK, Uncount
    <2>2. SharedOK'
      BY <1>5, <1>1 DEF SharedOK, Uncount
    <2>3. LocalOK'
      BY <1>5, <1>1 DEF LocalOK, Labels, Uncount
    <2>4. ControlOK'
      BY <1>5, <1>1, RolesAreDisjoint DEF ControlOK, LocalOK, Threads, Uncount
    <2> QED BY <2>1, <2>2, <2>3, <2>4 DEF TypeInv
  <1>6. CASE CheckEmpty(t)
    <2>1. SharedOK' /\ EventOK' /\ HistoryOK'
      BY <1>6, <1>1 DEF SharedOK, EventOK, HistoryOK, CheckEmpty, Return
    <2>2. LocalOK'
      BY <1>6, <1>1 DEF LocalOK, Labels, CheckEmpty, Return
    <2>3. FoundOK'
      BY <1>6, <1>1 DEF FoundOK, CheckEmpty, Return
    <2>4. ControlOK'
      BY <1>6, <1>1, RolesAreDisjoint
        DEF ControlOK, LocalOK, Threads, CheckEmpty, Return
    <2> QED BY <2>1, <2>2, <2>3, <2>4 DEF TypeInv
  <1>7. CASE CheckQuiet(t)
    <2>1. SharedOK' /\ EventOK' /\ HistoryOK'
      BY <1>7, <1>1 DEF SharedOK, EventOK, HistoryOK, CheckQuiet, Return
    <2>2. LocalOK'
      BY <1>7, <1>1 DEF LocalOK, Labels, CheckQuiet, Return
    <2>3. FoundOK'
      BY <1>7, <1>1 DEF FoundOK, CheckQuiet, Return
    <2>4. ControlOK'
      BY <1>7, <1>1, RolesAreDisjoint
        DEF ControlOK, LocalOK, Threads, CheckQuiet, Return
    <2> QED BY <2>1, <2>2, <2>3, <2>4 DEF TypeInv
  <1>8. CASE SignalTerminations(t)
    <2>1. EventOK' /\ FoundOK' /\ HistoryOK'
      BY <1>8, <1>1
        DEF EventOK, FoundOK, HistoryOK, SignalTerminations, IsTerminated
    <2>2. SharedOK'
      BY <1>8, <1>1 DEF SharedOK, Statuses, SignalTerminations, IsTerminated
    <2>3. LocalOK'
      BY <1>8, <1>1
        DEF LocalOK, SharedOK, ControlOK, Labels, SignalTerminations, IsTerminated
    <2>4. ControlOK'
      BY <1>8, <1>1, RolesAreDisjoint
        DEF ControlOK, LocalOK, Threads, SignalTerminations, IsTerminated
    <2> QED BY <2>1, <2>2, <2>3, <2>4 DEF TypeInv
  <1>9. CASE DeliverTermination(t)
    <2>1. SharedOK' /\ EventOK' /\ FoundOK' /\ ControlOK'
      BY <1>9, <1>1 DEF SharedOK, EventOK, FoundOK, ControlOK, DeliverTermination
    <2>2. LocalOK'
      BY <1>9, <1>1 DEF LocalOK, Labels, DeliverTermination
    <2>3. HistoryOK'
      <3>1. PICK k \in Terminations : delivered' = [delivered EXCEPT ![k] = @ + 1]
        BY <1>9, <1>1 DEF LocalOK, DeliverTermination
      <3> QED BY <1>9, <3>1 DEF HistoryOK, DeliverTermination
    <2> QED BY <2>1, <2>2, <2>3 DEF TypeInv
  <1>10. CASE EndSignal(t)
    <2>1. SharedOK' /\ HistoryOK'
      BY <1>10, <1>1 DEF SharedOK, HistoryOK, EndSignal, SignalQueue, Return
    <2>2. EventOK'
      BY <1>10, <1>1 DEF EventOK, EndSignal, SignalQueue, Return
    <2>3. LocalOK'
      BY <1>10, <1>1 DEF LocalOK, Labels, EndSignal, SignalQueue, Return
    <2>4. FoundOK'
      BY <1>10, <1>1 DEF FoundOK, EndSignal, SignalQueue, Return
    <2>5. ControlOK'
      BY <1>10, <1>1, RolesAreDisjoint
        DEF ControlOK, LocalOK, Threads, EndSignal, SignalQueue, Return
    <2> QED BY <2>1, <2>2, <2>3, <2>4, <2>5 DEF TypeInv
  <1> QED BY <1>2, <1>3, <1>4, <1>5, <1>6, <1>7, <1>8, <1>9, <1>10 DEF Drain

\* A submitter's steps preserve the types,
LEMMA TypeSubmitter ==
  ASSUME TypeInv, NEW t \in Submitters,
         OutOfMemory(t) \/ SubmitterStep(t)
  PROVE  TypeInv'
  <1>1. t \in Threads
    BY DEF Threads
  <1>2. CASE OutOfMemory(t)
    <2>1. SharedOK' /\ EventOK' /\ FoundOK'
      BY <1>2, <1>1 DEF SharedOK, EventOK, FoundOK, OutOfMemory
    <2>2. LocalOK'
      BY <1>2, <1>1 DEF LocalOK, Labels, OutOfMemory
    <2>3. HistoryOK'
      BY <1>2, <1>1 DEF HistoryOK, OutOfMemory
    <2>4. ControlOK'
      BY <1>2, <1>1, RolesAreDisjoint DEF ControlOK, LocalOK, Threads, OutOfMemory
    <2> QED BY <2>1, <2>2, <2>3, <2>4 DEF TypeInv
  <1>3. CASE PushPending(t)
    <2>1. EventOK' /\ FoundOK'
      BY <1>3, <1>1 DEF EventOK, FoundOK, PushPending
    <2>2. SharedOK'
      BY <1>3, <1>1 DEF SharedOK, LocalOK, ControlOK, PushPending
    <2>3. LocalOK'
      BY <1>3, <1>1 DEF LocalOK, Labels, PushPending
    <2>4. HistoryOK'
      BY <1>3, <1>1 DEF HistoryOK, PushPending
    <2>5. ControlOK'
      BY <1>3, <1>1, RolesAreDisjoint DEF ControlOK, LocalOK, Threads, PushPending
    <2> QED BY <2>1, <2>2, <2>3, <2>4, <2>5 DEF TypeInv
  <1>4. CASE CheckStatus(t)
    <2>1. SharedOK' /\ EventOK' /\ FoundOK' /\ HistoryOK'
      BY <1>4, <1>1 DEF SharedOK, EventOK, FoundOK, HistoryOK, CheckStatus
    <2>2. LocalOK'
      BY <1>4, <1>1 DEF LocalOK, Labels, CheckStatus
    <2>3. ControlOK'
      BY <1>4, <1>1, RolesAreDisjoint DEF ControlOK, LocalOK, Threads, CheckStatus
    <2> QED BY <2>1, <2>2, <2>3 DEF TypeInv
  <1>5. CASE CancelPendingEntries(t)
    BY <1>5, <1>1, TypeCancelPendingEntries
  <1> QED BY <1>2, <1>3, <1>4, <1>5 DEF SubmitterStep

\* A terminator's steps: it has a termination in hand.
LEMMA TypeTerminator ==
  ASSUME TypeInv, NEW t \in Terminators, CancelTermination(t) \/ TerminatorStep(t)
  PROVE  TypeInv'
  <1>1. t \in Threads
    BY DEF Threads
  <1>2. CASE CancelTermination(t)
    <2>1. EventOK' /\ FoundOK'
      BY <1>2, <1>1 DEF EventOK, FoundOK, CancelTermination
    <2>2. SharedOK'
      BY <1>2, <1>1 DEF SharedOK, Statuses, CancelTermination
    <2>3. LocalOK'
      BY <1>2, <1>1 DEF LocalOK, Labels, CancelTermination
    <2>4. HistoryOK'
      BY <1>2, <1>1 DEF HistoryOK, CancelTermination
    <2>5. ControlOK'
      BY <1>2, <1>1, RolesAreDisjoint
        DEF ControlOK, LocalOK, Threads, CancelTermination
    <2> QED BY <2>1, <2>2, <2>3, <2>4, <2>5 DEF TypeInv
  <1>3. CASE Terminate(t)
    <2>1. EventOK' /\ FoundOK'
      BY <1>3, <1>1 DEF EventOK, FoundOK, Terminate
    <2>2. SharedOK'
      BY <1>3, <1>1 DEF SharedOK, Statuses, Terminate
    <2>3. LocalOK'
      BY <1>3, <1>1 DEF LocalOK, Labels, Terminate
    <2>4. HistoryOK'
      BY <1>3, <1>1 DEF HistoryOK, Terminate
    <2>5. ControlOK'
      BY <1>3, <1>1, RolesAreDisjoint DEF ControlOK, LocalOK, Threads, Terminate
    <2> QED BY <2>1, <2>2, <2>3, <2>4, <2>5 DEF TypeInv
  <1>4. CASE AddSuspend(t)
    <2>1. EventOK' /\ FoundOK' /\ HistoryOK'
      BY <1>4, <1>1 DEF EventOK, FoundOK, HistoryOK, AddSuspend
    <2>2. SharedOK'
      <3>1. ctx[t] \in Contexts
        BY <1>4, PortAssumption DEF ControlOK, AddSuspend
      <3> QED BY <1>4, <3>1 DEF SharedOK, AddSuspend
    <2>3. LocalOK'
      BY <1>4, <1>1 DEF LocalOK, SharedOK, ControlOK, Labels, AddSuspend
    <2>4. ControlOK'
      BY <1>4, <1>1, RolesAreDisjoint DEF ControlOK, LocalOK, Threads, AddSuspend
    <2> QED BY <2>1, <2>2, <2>3, <2>4 DEF TypeInv
  <1>5. CASE ParkTermination(t)
    <2>1. EventOK' /\ FoundOK' /\ HistoryOK'
      BY <1>5, <1>1 DEF EventOK, FoundOK, HistoryOK, ParkTermination
    <2>2. SharedOK'
      BY <1>5, <1>1 DEF SharedOK, LocalOK, ControlOK, ParkTermination
    <2>3. LocalOK'
      BY <1>5, <1>1 DEF LocalOK, Labels, ParkTermination
    <2>4. ControlOK'
      BY <1>5, <1>1, RolesAreDisjoint
        DEF ControlOK, LocalOK, Threads, ParkTermination
    <2> QED BY <2>1, <2>2, <2>3, <2>4 DEF TypeInv
  <1>6. CASE CancelPendingEntries(t)
    BY <1>6, <1>1, TypeCancelPendingEntries
  <1>7. CASE ResumeTermination(t)
    BY <1>7, <1>1, TypeResumeTermination
  <1> QED BY <1>2, <1>3, <1>4, <1>5, <1>6, <1>7 DEF TerminatorStep

\* A suspender's steps: it has a context in hand.
LEMMA TypeSuspender ==
  ASSUME TypeInv, NEW t \in Suspenders, CallResumeTermination(t) \/ SuspenderStep(t)
  PROVE  TypeInv'
  <1>1. t \in Threads
    BY DEF Threads
  <1>2. CASE CallResumeTermination(t)
    <2>1. SharedOK' /\ EventOK' /\ FoundOK' /\ HistoryOK'
      BY <1>2, <1>1 DEF SharedOK, EventOK, FoundOK, HistoryOK, CallResumeTermination
    <2>2. LocalOK'
      BY <1>2, <1>1 DEF LocalOK, Labels, CallResumeTermination
    <2>3. ControlOK'
      BY <1>2, <1>1, RolesAreDisjoint
        DEF ControlOK, LocalOK, Threads, CallResumeTermination
    <2> QED BY <2>1, <2>2, <2>3 DEF TypeInv
  <1>3. CASE VerifySuspend(t)
    <2>1. SharedOK' /\ EventOK' /\ FoundOK' /\ HistoryOK'
      BY <1>3, <1>1
        DEF SharedOK, EventOK, FoundOK, HistoryOK, VerifySuspend, IsTerminated
    <2>2. LocalOK'
      BY <1>3, <1>1
        DEF LocalOK, SharedOK, ControlOK, Labels, VerifySuspend, IsTerminated
    <2>3. ControlOK'
      BY <1>3, <1>1, RolesAreDisjoint
        DEF ControlOK, LocalOK, Threads, VerifySuspend, IsTerminated
    <2> QED BY <2>1, <2>2, <2>3 DEF TypeInv
  <1>4. CASE ResumeTermination(t)
    BY <1>4, <1>1, TypeResumeTermination
  <1> QED BY <1>2, <1>3, <1>4 DEF SuspenderStep

\* A dispatcher's steps: Dispatch and Wait.
LEMMA TypeDispatcher ==
  ASSUME TypeInv, NEW t \in Dispatchers, Dispatch(t) \/ TimeOut(t) \/ Drain(t) \/ WaitStep(t)
  PROVE  TypeInv'
  <1>1. t \in Threads
    BY DEF Threads
  <1>2. CASE Dispatch(t)
    <2>1. SharedOK' /\ EventOK' /\ FoundOK' /\ HistoryOK'
      BY <1>2, <1>1 DEF SharedOK, EventOK, FoundOK, HistoryOK, Dispatch
    <2>2. LocalOK'
      BY <1>2, <1>1 DEF LocalOK, Labels, Dispatch
    <2>3. ControlOK'
      BY <1>2, <1>1, RolesAreDisjoint DEF ControlOK, LocalOK, Threads, Dispatch
    <2> QED BY <2>1, <2>2, <2>3 DEF TypeInv
  <1>3. CASE TimeOut(t)
    <2>1. SharedOK' /\ FoundOK' /\ HistoryOK'
      BY <1>3, <1>1 DEF SharedOK, FoundOK, HistoryOK, TimeOut
    <2>2. EventOK'
      BY <1>3, <1>1 DEF EventOK, TimeOut
    <2>3. LocalOK'
      BY <1>3, <1>1 DEF LocalOK, Labels, TimeOut
    <2>4. ControlOK'
      BY <1>3, <1>1, RolesAreDisjoint DEF ControlOK, LocalOK, Threads, TimeOut
    <2> QED BY <2>1, <2>2, <2>3, <2>4 DEF TypeInv
  <1>4. CASE Drain(t)
    BY <1>4, <1>1, TypeDrain
  <1>5. CASE WaitCheckQueue(t)
    <2>1. SharedOK' /\ EventOK' /\ FoundOK' /\ HistoryOK'
      BY <1>5, <1>1 DEF SharedOK, EventOK, FoundOK, HistoryOK, WaitCheckQueue
    <2>2. LocalOK'
      BY <1>5, <1>1 DEF LocalOK, Labels, WaitCheckQueue
    <2>3. ControlOK'
      BY <1>5, <1>1, RolesAreDisjoint
        DEF ControlOK, LocalOK, Threads, WaitCheckQueue
    <2> QED BY <2>1, <2>2, <2>3 DEF TypeInv
  <1>6. CASE WaitCheckTerminations(t)
    <2>1. SharedOK' /\ EventOK' /\ FoundOK' /\ HistoryOK'
      BY <1>6, <1>1 DEF SharedOK, EventOK, FoundOK, HistoryOK, WaitCheckTerminations
    <2>2. LocalOK'
      BY <1>6, <1>1 DEF LocalOK, Labels, WaitCheckTerminations
    <2>3. ControlOK'
      BY <1>6, <1>1, RolesAreDisjoint
        DEF ControlOK, LocalOK, Threads, WaitCheckTerminations
    <2> QED BY <2>1, <2>2, <2>3 DEF TypeInv
  <1>7. CASE WaitCheckStatus(t)
    <2>1. SharedOK' /\ EventOK' /\ FoundOK' /\ HistoryOK'
      BY <1>7, <1>1 DEF SharedOK, EventOK, FoundOK, HistoryOK, WaitCheckStatus
    <2>2. LocalOK'
      BY <1>7, <1>1 DEF LocalOK, Labels, WaitCheckStatus
    <2>3. ControlOK'
      BY <1>7, <1>1, RolesAreDisjoint
        DEF ControlOK, LocalOK, Threads, WaitCheckStatus
    <2> QED BY <2>1, <2>2, <2>3 DEF TypeInv
  <1>8. CASE WaitForEvent(t)
    <2>1. SharedOK' /\ FoundOK' /\ HistoryOK'
      BY <1>8, <1>1 DEF SharedOK, FoundOK, HistoryOK, WaitForEvent
    <2>2. EventOK'
      BY <1>8, <1>1 DEF EventOK, WaitForEvent
    <2>3. LocalOK'
      BY <1>8, <1>1 DEF LocalOK, Labels, WaitForEvent
    <2>4. ControlOK'
      BY <1>8, <1>1, RolesAreDisjoint DEF ControlOK, LocalOK, Threads, WaitForEvent
    <2> QED BY <2>1, <2>2, <2>3, <2>4 DEF TypeInv
  <1>9. CASE Wake(t)
    <2>1. SharedOK' /\ EventOK' /\ FoundOK' /\ HistoryOK'
      BY <1>9, <1>1 DEF SharedOK, EventOK, FoundOK, HistoryOK, Wake
    <2>2. LocalOK'
      BY <1>9, <1>1 DEF LocalOK, Labels, Wake
    <2>3. ControlOK'
      BY <1>9, <1>1, RolesAreDisjoint DEF ControlOK, LocalOK, Threads, Wake
    <2> QED BY <2>1, <2>2, <2>3 DEF TypeInv
  <1> QED BY <1>2, <1>3, <1>4, <1>5, <1>6, <1>7, <1>8, <1>9 DEF WaitStep

\* A pool thread's steps.
LEMMA TypeWorker ==
  ASSUME TypeInv, NEW t \in Workers, ProcessThreadPoolCallback(t) \/ WorkerStep(t)
  PROVE  TypeInv'
  <1>1. t \in Threads
    BY DEF Threads
  <1>2. CASE ProcessThreadPoolCallback(t)
    <2>1. EventOK' /\ FoundOK' /\ HistoryOK'
      BY <1>2, <1>1 DEF EventOK, FoundOK, HistoryOK, ProcessThreadPoolCallback
    <2>2. SharedOK'
      BY <1>2, <1>1 DEF SharedOK, ProcessThreadPoolCallback
    <2>3. LocalOK'
      BY <1>2, <1>1 DEF LocalOK, Labels, ProcessThreadPoolCallback
    <2>4. ControlOK'
      BY <1>2, <1>1, RolesAreDisjoint
        DEF ControlOK, LocalOK, Threads, ProcessThreadPoolCallback
    <2> QED BY <2>1, <2>2, <2>3, <2>4 DEF TypeInv
  <1>3. CASE Drain(t)
    BY <1>3, <1>1, TypeDrain
  <1>4. CASE EnterSerialized(t)
    <2>1. EventOK' /\ FoundOK' /\ HistoryOK'
      BY <1>4, <1>1 DEF EventOK, FoundOK, HistoryOK, EnterSerialized
    <2>2. SharedOK'
      BY <1>4, <1>1 DEF SharedOK, EnterSerialized
    <2>3. LocalOK'
      BY <1>4, <1>1 DEF LocalOK, Labels, EnterSerialized
    <2>4. ControlOK'
      BY <1>4, <1>1, RolesAreDisjoint
        DEF ControlOK, LocalOK, Threads, EnterSerialized
    <2> QED BY <2>1, <2>2, <2>3, <2>4 DEF TypeInv
  <1>5. CASE LeaveSerialized(t)
    <2>1. EventOK' /\ FoundOK' /\ HistoryOK'
      BY <1>5, <1>1 DEF EventOK, FoundOK, HistoryOK, LeaveSerialized
    <2>2. SharedOK'
      BY <1>5, <1>1 DEF SharedOK, LeaveSerialized
    <2>3. LocalOK'
      BY <1>5, <1>1 DEF LocalOK, Labels, LeaveSerialized
    <2>4. ControlOK'
      BY <1>5, <1>1, RolesAreDisjoint
        DEF ControlOK, LocalOK, Threads, LeaveSerialized
    <2> QED BY <2>1, <2>2, <2>3, <2>4 DEF TypeInv
  <1> QED BY <1>2, <1>3, <1>4, <1>5 DEF WorkerStep

\* The timer callback's steps.
LEMMA TypeTimer ==
  ASSUME TypeInv, NEW t \in Timers, SubmitPendingCallbacks(t) \/ TimerStep(t)
  PROVE  TypeInv'
  <1>1. t \in Threads
    BY DEF Threads
  <1>2. CASE SubmitPendingCallbacks(t)
    <2>1. SharedOK' /\ EventOK' /\ FoundOK' /\ HistoryOK'
      BY <1>2, <1>1
        DEF SharedOK, EventOK, FoundOK, HistoryOK, SubmitPendingCallbacks
    <2>2. LocalOK'
      BY <1>2, <1>1 DEF LocalOK, Labels, SubmitPendingCallbacks
    <2>3. ControlOK'
      BY <1>2, <1>1, RolesAreDisjoint
        DEF ControlOK, LocalOK, Threads, SubmitPendingCallbacks
    <2> QED BY <2>1, <2>2, <2>3 DEF TypeInv
  <1>3. CASE PromoteEntry(t)
    <2>1. EventOK' /\ FoundOK' /\ HistoryOK'
      BY <1>3, <1>1 DEF EventOK, FoundOK, HistoryOK, PromoteEntry
    <2>2. SharedOK'
      BY <1>3, <1>1, PortAssumption DEF SharedOK, PromoteEntry
    <2>3. LocalOK'
      <3>1. Head(pendingList) \in Items
        BY <1>3, HeadTail DEF SharedOK, PromoteEntry
      <3>2. /\ ItemContext[Head(pendingList)] \in Contexts
            /\ UNCHANGED <<pc, item, term, terms, holds>>
        BY <1>3, <3>1, PortAssumption DEF PromoteEntry
      <3>3. ctx' \in [Threads -> Contexts \cup {None}]
        BY <1>3, <1>1, <3>2 DEF LocalOK, PromoteEntry
      <3>4. taken' \in [Threads -> Seq(Items)] /\ retained' \in [Threads -> Seq(Items)]
        <4>1. /\ Append(taken[t], Head(pendingList)) \in Seq(Items)
              /\ Append(retained[t], Head(pendingList)) \in Seq(Items)
          BY <1>1, <3>1 DEF LocalOK
        <4> QED BY <1>3, <4>1 DEF LocalOK, PromoteEntry
      <3> QED BY <3>2, <3>3, <3>4 DEF LocalOK
    <2>4. ControlOK'
      <3>1. /\ UNCHANGED <<pc, after, item, term>>
            /\ pc[t] = "promoting"
            /\ \A u \in Threads \ {t} : taken'[u] = taken[u] /\ ctx'[u] = ctx[u]
        BY <1>3, <1>1 DEF LocalOK, PromoteEntry
      <3> QED BY <3>1, <1>1, RolesAreDisjoint DEF ControlOK, Threads
    <2> QED BY <2>1, <2>2, <2>3, <2>4 DEF TypeInv
  <1>4. CASE CancelPendingEntries(t)
    BY <1>4, <1>1, TypeCancelPendingEntries
  <1>5. CASE ScheduleNextItem(t)
    <2>1. SharedOK' /\ EventOK' /\ FoundOK' /\ HistoryOK'
      BY <1>5, <1>1 DEF SharedOK, EventOK, FoundOK, HistoryOK, ScheduleNextItem
    <2>2. LocalOK'
      BY <1>5, <1>1 DEF LocalOK, Labels, ScheduleNextItem
    <2>3. ControlOK'
      BY <1>5, <1>1, RolesAreDisjoint
        DEF ControlOK, LocalOK, Threads, ScheduleNextItem
    <2> QED BY <2>1, <2>2, <2>3 DEF TypeInv
  <1> QED BY <1>2, <1>3, <1>4, <1>5 DEF TimerStep

\* IsEmpty's steps.
LEMMA TypeObserver ==
  ASSUME TypeInv, NEW t \in Observers, IsEmpty(t) \/ ReadLists(t)
  PROVE  TypeInv'
  <1>1. t \in Threads
    BY DEF Threads
  <1>2. CASE IsEmpty(t)
    <2>1. SharedOK' /\ EventOK' /\ FoundOK'
      BY <1>2, <1>1 DEF SharedOK, EventOK, FoundOK, IsEmpty, Outstanding
    <2>2. LocalOK'
      BY <1>2, <1>1 DEF LocalOK, Labels, IsEmpty, Outstanding
    <2>3. HistoryOK'
      BY <1>2, <1>1 DEF HistoryOK, IsEmpty, Outstanding
    <2>4. ControlOK'
      BY <1>2, <1>1, RolesAreDisjoint
        DEF ControlOK, LocalOK, Threads, IsEmpty, Outstanding
    <2> QED BY <2>1, <2>2, <2>3, <2>4 DEF TypeInv
  <1>3. CASE ReadLists(t)
    <2>1. SharedOK' /\ EventOK' /\ FoundOK'
      BY <1>3, <1>1 DEF SharedOK, EventOK, FoundOK, ReadLists, Answer
    <2>2. LocalOK'
      BY <1>3, <1>1 DEF LocalOK, Labels, ReadLists, Answer
    <2>3. HistoryOK'
      BY <1>3, <1>1 DEF HistoryOK, ReadLists, Answer
    <2>4. ControlOK'
      BY <1>3, <1>1, RolesAreDisjoint
        DEF ControlOK, LocalOK, Threads, ReadLists, Answer
    <2> QED BY <2>1, <2>2, <2>3, <2>4 DEF TypeInv
  <1> QED BY <1>2, <1>3 DEF ReadLists

\* The calls that begin with an argument: QueueItem,
LEMMA TypeQueueItem ==
  ASSUME TypeInv, NEW t \in Submitters, NEW i \in Items, QueueItem(t, i)
  PROVE  TypeInv'
  <1>1. t \in Threads /\ ItemContext[i] \in Contexts
    BY PortAssumption DEF Threads
  <1>2. SharedOK' /\ EventOK' /\ FoundOK'
    BY DEF SharedOK, EventOK, FoundOK, QueueItem
  <1>3. HistoryOK'
    BY DEF HistoryOK, QueueItem
  <1>4. CASE IsTerminated(ItemContext[i])
    <2>1. UNCHANGED <<pc, after, localVars, term, terms, holds>>
      BY <1>4 DEF QueueItem
    <2> QED BY <1>2, <1>3, <2>1 DEF LocalOK, ControlOK
  <1>5. CASE ~IsTerminated(ItemContext[i])
    <2>1. /\ pc' = [pc EXCEPT ![t] = IF i \in Delayed THEN "pend" ELSE "append"]
          /\ after' = [after EXCEPT ![t] = "check"]
          /\ ctx' = [ctx EXCEPT ![t] = ItemContext[i]]
          /\ item' = [item EXCEPT ![t] = i]
          /\ taken' = [taken EXCEPT ![t] = IF i \in Delayed THEN <<>> ELSE <<i>>]
          /\ UNCHANGED <<retained, term, terms, holds>>
      BY <1>5 DEF QueueItem
    <2>2. LocalOK'
      <3>1. pc' \in [Threads -> Labels]
        BY <1>1, <2>1 DEF LocalOK, Labels
      <3>2. taken' \in [Threads -> Seq(Items)]
        BY <1>1, <2>1 DEF LocalOK
      <3> QED BY <1>1, <2>1, <3>1, <3>2 DEF LocalOK
    <2>3. ControlOK'
      BY <1>1, <2>1, RolesAreDisjoint DEF ControlOK, LocalOK, Threads
    <2> QED BY <1>2, <1>3, <2>2, <2>3
  <1> QED BY <1>4, <1>5

\* PrepareTerminate,
LEMMA TypePrepareTerminate ==
  ASSUME TypeInv, NEW t \in Terminators, NEW k \in Terminations, PrepareTerminate(t, k)
  PROVE  TypeInv'
  <1>1. EventOK' /\ FoundOK'
    BY DEF Threads, EventOK, FoundOK, PrepareTerminate, Outstanding
  <1>2. SharedOK'
    BY PortAssumption DEF Threads, SharedOK, Statuses, PrepareTerminate, Outstanding
  <1>3. LocalOK'
    BY PortAssumption DEF Threads, LocalOK, Labels, PrepareTerminate, Outstanding
  <1>4. HistoryOK'
    BY DEF Threads, HistoryOK, PrepareTerminate, Outstanding
  <1>5. ControlOK'
    BY RolesAreDisjoint, PortAssumption
      DEF ControlOK, LocalOK, Threads, PrepareTerminate, Outstanding
  <1> QED BY <1>1, <1>2, <1>3, <1>4, <1>5 DEF Threads, TypeInv

\* SuspendTermination,
LEMMA TypeSuspendTermination ==
  ASSUME TypeInv, NEW t \in Suspenders, NEW c \in Contexts, SuspendTermination(t, c)
  PROVE  TypeInv'
  <1>1. EventOK' /\ FoundOK' /\ HistoryOK'
    BY DEF Threads, EventOK, FoundOK, HistoryOK, SuspendTermination
  <1>2. SharedOK'
    BY DEF Threads, SharedOK, SuspendTermination
  <1>3. LocalOK'
    BY DEF Threads, LocalOK, Labels, SuspendTermination
  <1>4. ControlOK'
    BY RolesAreDisjoint DEF ControlOK, LocalOK, Threads, SuspendTermination
  <1> QED BY <1>1, <1>2, <1>3, <1>4 DEF Threads, TypeInv

\* and the passing of time.
LEMMA TypeRipen ==
  ASSUME TypeInv, NEW i \in Delayed, Ripen(i)
  PROVE  TypeInv'
  <1>1. EventOK' /\ LocalOK' /\ FoundOK' /\ HistoryOK' /\ ControlOK'
    BY DEF EventOK, LocalOK, FoundOK, HistoryOK, ControlOK, Ripen
  <1>2. SharedOK'
    BY DEF SharedOK, Ripen
  <1> QED BY <1>1, <1>2 DEF TypeInv

\* Every step of the port preserves the types.
LEMMA TypeNext == TypeInv /\ [Next]_vars => TypeInv'
  <1> SUFFICES ASSUME TypeInv, [Next]_vars PROVE TypeInv'
    OBVIOUS
  <1>1. ASSUME NEW t \in Submitters,
               (\E i \in Items : QueueItem(t, i)) \/ OutOfMemory(t) \/ SubmitterStep(t)
        PROVE  TypeInv'
    BY <1>1, TypeQueueItem, TypeSubmitter
  <1>2. ASSUME NEW t \in Terminators,
               \/ \E k \in Terminations : PrepareTerminate(t, k)
               \/ CancelTermination(t) \/ TerminatorStep(t)
        PROVE  TypeInv'
    BY <1>2, TypePrepareTerminate, TypeTerminator
  <1>3. ASSUME NEW t \in Suspenders,
               \/ \E c \in Contexts : SuspendTermination(t, c)
               \/ CallResumeTermination(t) \/ SuspenderStep(t)
        PROVE  TypeInv'
    BY <1>3, TypeSuspendTermination, TypeSuspender
  <1>4. CASE UNCHANGED vars
    BY <1>4 DEF vars, SharedOK, EventOK, LocalOK, FoundOK, HistoryOK, ControlOK
  <1> QED BY <1>1, <1>2, <1>3, <1>4, TypeDispatcher, TypeWorker, TypeTimer,
             TypeObserver, TypeRipen DEF Next

LEMMA TypeInvariant == Spec => []TypeInv
  BY TypeInit, TypeNext, PTL DEF Spec

\* The port's state and its handlers' locals keep their types.
THEOREM TypeCorrect == Spec => []TypeOK
  BY TypeInvariant, TypeInvImpliesTypeOK, PTL

-----------------------------------------------------------------------------
(* Safety: a serialized port never drains twice at a time, the suspends of *)
(* a context are given back as often as they were taken, no parked         *)
(* termination is forgotten, and termination is final.                     *)

HIDE DEF TypeInv

-----------------------------------------------------------------------------
(* A step is the step of one thread: what the others have reached, and the *)
(* contexts they work on and hold, stay as they are.                       *)

Own(t) ==
    \A u \in Threads \ {t} :
        /\ pc'[u] = pc[u] /\ after'[u] = after[u]
        /\ ctx'[u] = ctx[u] /\ holds'[u] = holds[u]

\* The places of a thread that has suspended a termination, or must collect
SuspendPlaces == {"verify", "resume", "park", "schedule", "announce", "collect"}

\* The places of a list operation, from which a thread goes on to after[t]
QueuePlaces == {"append", "notify", "cancel", "cancelling", "promote", "promoting",
                "restore"}

\* A thread in a list operation will not go on to resume a termination.
ReturnOK == \A t \in Threads : pc[t] \in QueuePlaces => after[t] # "resume"

\* Steps that have nothing to do with suspends
Neutral(t) ==
    /\ Own(t)
    /\ UNCHANGED <<suspendCount, pendingTerminationList>>
    /\ pc[t] \notin SuspendPlaces
    /\ pc'[t] \notin SuspendPlaces
    /\ holds'[t] = holds[t]
    /\ pc'[t] \in QueuePlaces => after'[t] # "resume"

\* CancelPendingEntries leaves the suspends and the serialization alone.
LEMMA NeutralCancel ==
  ASSUME TypeInv, ReturnOK, NEW t \in Threads, CancelPendingEntries(t)
  PROVE  Neutral(t) /\ UNCHANGED <<mode, processingSerialized>>
  <1> USE DEF TypeInv, LocalOK, ControlOK, Neutral, Own, ReturnOK, SuspendPlaces, QueuePlaces
  <1>1. CASE LockPending(t)
    BY <1>1 DEF LockPending
  <1>2. CASE CancelEntry(t)
    BY <1>2 DEF CancelEntry
  <1>3. CASE EndOfPending(t)
    BY <1>3 DEF EndOfPending
  <1>4. CASE RestoreEntry(t)
    BY <1>4 DEF RestoreEntry
  <1>5. CASE UnlockPending(t)
    BY <1>5 DEF UnlockPending
  <1>6. CASE AppendEntry(t)
    BY <1>6 DEF AppendEntry
  <1>7. CASE NotifyEntry(t)
    BY <1>7 DEF NotifyEntry
  <1> QED BY <1>1, <1>2, <1>3, <1>4, <1>5, <1>6, <1>7 DEF CancelPendingEntries

\* So does DrainOneItem, which takes a worker that drains no further than the
\* end of its drain.
LEMMA NeutralDrain ==
  ASSUME TypeInv, NEW t \in Dispatchers \cup Workers, Drain(t)
  PROVE  /\ Neutral(t) /\ UNCHANGED <<mode, processingSerialized>>
         /\ pc[t] \in DrainRegion
         /\ (t \in Workers /\ mode = "SerializedThreadPool")
               => pc'[t] \in DrainRegion \cup {"leave"}
  <1>1. t \in Threads
    BY DEF Threads
  <1> USE <1>1, RolesAreDisjoint
      DEF TypeInv, LocalOK, Neutral, Own, SuspendPlaces, QueuePlaces, DrainRegion
  <1>2. CASE DrainOneItem(t)
    BY <1>2 DEF DrainOneItem
  <1>3. CASE PopFront(t)
    BY <1>3 DEF PopFront
  <1>4. CASE InvokeCallback(t)
    BY <1>4 DEF InvokeCallback
  <1>5. CASE Uncount(t)
    BY <1>5 DEF Uncount
  <1>6. CASE CheckEmpty(t)
    BY <1>6 DEF CheckEmpty, Return
  <1>7. CASE CheckQuiet(t)
    BY <1>7 DEF CheckQuiet, Return
  <1>8. CASE SignalTerminations(t)
    BY <1>8 DEF SignalTerminations
  <1>9. CASE DeliverTermination(t)
    BY <1>9 DEF DeliverTermination
  <1>10. CASE EndSignal(t)
    BY <1>10 DEF EndSignal, Return
  <1> QED BY <1>2, <1>3, <1>4, <1>5, <1>6, <1>7, <1>8, <1>9, <1>10 DEF Drain

\* The steps of the submitters, the dispatchers, the timer and the observers
\* leave suspends and serialization alone,
LEMMA NeutralRoles ==
  ASSUME TypeInv, ReturnOK, NEW t \in Threads,
         \/ /\ t \in Submitters
            /\ (\E i \in Items : QueueItem(t, i)) \/ OutOfMemory(t) \/ SubmitterStep(t)
         \/ t \in Dispatchers /\ (Dispatch(t) \/ TimeOut(t) \/ Drain(t) \/ WaitStep(t))
         \/ t \in Timers /\ (SubmitPendingCallbacks(t) \/ TimerStep(t))
         \/ t \in Observers /\ (IsEmpty(t) \/ ReadLists(t))
  PROVE  Neutral(t) /\ UNCHANGED <<mode, processingSerialized>>
  <1> USE DEF TypeInv, LocalOK, ControlOK, Neutral, Own, SuspendPlaces, QueuePlaces
  <1>1. ASSUME NEW i \in Items, QueueItem(t, i)
        PROVE  Neutral(t) /\ UNCHANGED <<mode, processingSerialized>>
    BY <1>1 DEF QueueItem
  <1>2. CASE OutOfMemory(t) \/ PushPending(t) \/ CheckStatus(t)
    BY <1>2 DEF OutOfMemory, PushPending, CheckStatus
  <1>3. CASE Dispatch(t) \/ TimeOut(t)
    BY <1>3 DEF Dispatch, TimeOut
  <1>4. CASE WaitStep(t)
    BY <1>4 DEF WaitStep, WaitCheckQueue, WaitCheckTerminations, WaitCheckStatus,
                WaitForEvent, Wake
  <1>5. CASE SubmitPendingCallbacks(t) \/ ScheduleNextItem(t)
    BY <1>5 DEF SubmitPendingCallbacks, ScheduleNextItem
  <1>6. CASE PromoteEntry(t)
    BY <1>6 DEF PromoteEntry, ReturnOK
  <1>7. CASE IsEmpty(t) \/ ReadLists(t)
    BY <1>7 DEF IsEmpty, ReadLists, Answer
  <1> QED BY <1>1, <1>2, <1>3, <1>4, <1>5, <1>6, <1>7, NeutralCancel, NeutralDrain
          DEF SubmitterStep, TimerStep

\* and a terminator's do until it reaches its AddSuspend.
LEMMA NeutralTerminator ==
  ASSUME TypeInv, ReturnOK, NEW t \in Terminators,
         \/ \E k \in Terminations : PrepareTerminate(t, k)
         \/ CancelTermination(t) \/ Terminate(t) \/ CancelPendingEntries(t)
  PROVE  Neutral(t) /\ UNCHANGED <<mode, processingSerialized>>
  <1>1. t \in Threads
    BY DEF Threads
  <1> USE <1>1 DEF TypeInv, LocalOK, ControlOK, Neutral, Own, SuspendPlaces, QueuePlaces
  <1>2. ASSUME NEW k \in Terminations, PrepareTerminate(t, k)
        PROVE  Neutral(t) /\ UNCHANGED <<mode, processingSerialized>>
    BY <1>2 DEF PrepareTerminate
  <1>3. CASE CancelTermination(t) \/ Terminate(t)
    BY <1>3 DEF CancelTermination, Terminate
  <1> QED BY <1>2, <1>3, NeutralCancel

\* A worker's steps leave the suspends alone.
LEMMA NeutralWorker ==
  ASSUME TypeInv, NEW t \in Workers, ProcessThreadPoolCallback(t) \/ WorkerStep(t)
  PROVE  Neutral(t)
  <1>1. t \in Threads
    BY DEF Threads
  <1> USE <1>1 DEF TypeInv, LocalOK, ControlOK, Neutral, Own, SuspendPlaces, QueuePlaces
  <1>2. CASE ProcessThreadPoolCallback(t)
    BY <1>2 DEF ProcessThreadPoolCallback
  <1>3. CASE EnterSerialized(t) \/ LeaveSerialized(t)
    BY <1>3 DEF EnterSerialized, LeaveSerialized
  <1> QED BY <1>2, <1>3, NeutralDrain DEF WorkerStep

-----------------------------------------------------------------------------
(* The suspends.  A context's count is the number of threads that are      *)
(* inside SuspendTermination, ResumeTermination or Terminate with it, and  *)
(* of the grants that have not been given back.                            *)

Suspending(c) ==
    {t \in Threads : /\ ctx[t] = c
                     /\ \/ pc[t] \in {"verify", "resume", "park"}
                        \/ pc[t] \in {"schedule", "announce"} /\ after[t] = "resume"}

Granted(c) == {t \in Suspenders : c \in holds[t]}

SuspendInv ==
    /\ ReturnOK
    /\ \A t \in Threads : pc[t] \in SuspendPlaces => t \in Terminators \cup Suspenders
    /\ \A t \in Threads : pc[t] = "park" => t \in Terminators
    /\ \A t \in Threads : pc[t] = "verify" => t \in Suspenders /\ ctx[t] \notin holds[t]
    /\ \A t \in Threads : pc[t] \in {"schedule", "announce"} => after[t] \in {"resume", "idle"}
    /\ \A c \in Contexts :
           suspendCount[c] = Cardinality(Suspending(c)) + Cardinality(Granted(c))
    /\ ParkedTerminationHasWaker

\* Counting threads is counting finite sets.
LEMMA CountsAreFinite ==
  ASSUME NEW c
  PROVE  /\ IsFiniteSet(Suspending(c)) /\ IsFiniteSet(Granted(c))
         /\ Cardinality(Suspending(c)) \in Nat /\ Cardinality(Granted(c)) \in Nat
  <1>1. IsFiniteSet(Threads)
    BY PortAssumption
  <1>2. Suspending(c) \subseteq Threads /\ Granted(c) \subseteq Threads
    BY DEF Suspending, Granted, Threads
  <1>3. IsFiniteSet(Suspending(c)) /\ IsFiniteSet(Granted(c))
    BY <1>1, <1>2, FS_Subset
  <1> QED BY <1>3, FS_CardinalityType

\* Neutral steps preserve the invariant: they change no one's part in it.
LEMMA SuspendNeutral ==
  ASSUME TypeInv, SuspendInv, NEW t \in Threads, Neutral(t)
  PROVE  SuspendInv'
  <1>1. ASSUME NEW u \in Threads, pc[u] \in SuspendPlaces \/ pc'[u] \in SuspendPlaces
        PROVE  /\ u # t /\ pc'[u] = pc[u] /\ after'[u] = after[u]
               /\ ctx'[u] = ctx[u] /\ holds'[u] = holds[u]
    BY <1>1 DEF Neutral, Own
  <1>2. ASSUME NEW c \in Contexts
        PROVE  Suspending(c)' = Suspending(c) /\ Granted(c)' = Granted(c)
    <2>1. Suspending(c)' = Suspending(c)
      BY <1>1 DEF Suspending, SuspendPlaces
    <2>2. Granted(c)' = Granted(c)
      BY DEF Granted, Neutral, Own, Threads
    <2> QED BY <2>1, <2>2
  <1>3. ReturnOK'
    BY DEF SuspendInv, ReturnOK, Neutral, Own
  <1>4. ParkedTerminationHasWaker'
    BY <1>1 DEF SuspendInv, ParkedTerminationHasWaker, Neutral, SuspendPlaces
  <1>5. \A c \in Contexts : (suspendCount[c] = Cardinality(Suspending(c)) + Cardinality(Granted(c)))'
    BY <1>2 DEF SuspendInv, Neutral
  <1> QED BY <1>1, <1>3, <1>4, <1>5 DEF SuspendInv, SuspendPlaces

\* How a count changes when one thread joins or leaves.
LEMMA CountStep ==
  ASSUME NEW c, NEW t
  PROVE  /\ t \notin Suspending(c) =>
               Cardinality(Suspending(c) \cup {t}) = Cardinality(Suspending(c)) + 1
         /\ t \in Suspending(c) =>
               /\ Cardinality(Suspending(c) \ {t}) = Cardinality(Suspending(c)) - 1
               /\ Cardinality(Suspending(c)) > 0
         /\ t \notin Granted(c) =>
               Cardinality(Granted(c) \cup {t}) = Cardinality(Granted(c)) + 1
         /\ t \in Granted(c) =>
               Cardinality(Granted(c) \ {t}) = Cardinality(Granted(c)) - 1
  <1>1. ASSUME NEW S, IsFiniteSet(S), t \notin S
        PROVE  Cardinality(S \cup {t}) = Cardinality(S) + 1
    BY <1>1, FS_AddElement
  <1>2. ASSUME NEW S, IsFiniteSet(S), t \in S
        PROVE  Cardinality(S \ {t}) = Cardinality(S) - 1 /\ Cardinality(S) > 0
    <2>1. Cardinality(S) # 0 /\ Cardinality(S) \in Nat
      BY <1>2, FS_EmptySet, FS_CardinalityType
    <2> QED BY <1>2, <2>1, FS_RemoveElement
  <1>3. IsFiniteSet(Suspending(c)) /\ IsFiniteSet(Granted(c))
    BY CountsAreFinite
  <1> QED BY <1>1, <1>2, <1>3

\* Parked terminations belong to contexts.
LEMMA ParkedContexts ==
  ASSUME TypeInv, NEW k \in pendingTerminationList
  PROVE  TerminationContext[k] \in Contexts
  BY PortAssumption DEF TypeInv, SharedOK

\* One more suspend, and one more thread that holds it
LEMMA SuspendJoin ==
  ASSUME TypeInv, SuspendInv, NEW t, NEW d \in Contexts,
         t \notin Suspending(d),
         suspendCount' = [suspendCount EXCEPT ![d] = @ + 1],
         \A c \in Contexts :
            /\ Suspending(c)' = IF c = d THEN Suspending(c) \cup {t} ELSE Suspending(c)
            /\ Granted(c)' = Granted(c)
  PROVE  \A c \in Contexts :
            /\ (suspendCount[c] = Cardinality(Suspending(c)) + Cardinality(Granted(c)))'
            /\ suspendCount[c] > 0 => suspendCount'[c] > 0
  <1> SUFFICES ASSUME NEW c \in Contexts
               PROVE  /\ suspendCount'[c] = Cardinality(Suspending(c)') + Cardinality(Granted(c)')
                      /\ suspendCount[c] > 0 => suspendCount'[c] > 0
    OBVIOUS
  <1>1. CASE c = d
    <2>1. Cardinality(Suspending(c)') = Cardinality(Suspending(c)) + 1
      BY <1>1, CountStep
    <2>2. suspendCount'[c] = suspendCount[c] + 1 /\ suspendCount[c] \in Int
      BY <1>1 DEF TypeInv, SharedOK
    <2> QED BY <2>1, <2>2, CountsAreFinite DEF SuspendInv
  <1>2. CASE c # d
    BY <1>2 DEF SuspendInv, TypeInv, SharedOK
  <1> QED BY <1>1, <1>2

\* AddSuspend: the terminator joins those that suspend its context.
LEMMA SuspendAdd ==
  ASSUME TypeInv, SuspendInv, NEW t \in Terminators, AddSuspend(t)
  PROVE  SuspendInv'
  <1>1. t \in Threads /\ t \notin Suspenders /\ ctx[t] \in Contexts
    BY RolesAreDisjoint, PortAssumption DEF Threads, TypeInv, ControlOK, AddSuspend
  <1>2. /\ pc[t] = "suspend" /\ pc'[t] \in {"schedule", "park"}
        /\ pc'[t] = "schedule" => after'[t] = "resume"
        /\ \A u \in Threads \ {t} : pc'[u] = pc[u] /\ after'[u] = after[u]
        /\ suspendCount' = [suspendCount EXCEPT ![ctx[t]] = @ + 1]
        /\ UNCHANGED <<ctx, holds, pendingTerminationList>>
    BY <1>1 DEF AddSuspend, TypeInv, LocalOK, ControlOK
  <1>3. /\ t \notin Suspending(ctx[t])
        /\ \A c \in Contexts :
              /\ Suspending(c)' = IF c = ctx[t] THEN Suspending(c) \cup {t} ELSE Suspending(c)
              /\ Granted(c)' = Granted(c)
    BY <1>1, <1>2 DEF Suspending, Granted
  <1>4. \A c \in Contexts :
            /\ (suspendCount[c] = Cardinality(Suspending(c)) + Cardinality(Granted(c)))'
            /\ suspendCount[c] > 0 => suspendCount'[c] > 0
    BY <1>1, <1>2, <1>3, SuspendJoin
  <1>5. ParkedTerminationHasWaker'
    BY <1>2, <1>4, ParkedContexts DEF SuspendInv, ParkedTerminationHasWaker
  <1>6. ReturnOK'
    BY <1>1, <1>2 DEF SuspendInv, ReturnOK, QueuePlaces
  <1> QED BY <1>1, <1>2, <1>4, <1>5, <1>6 DEF SuspendInv, SuspendPlaces

\* SuspendTermination: so does a suspender that calls it.
LEMMA SuspendCall ==
  ASSUME TypeInv, SuspendInv, NEW t \in Suspenders, NEW d \in Contexts,
         SuspendTermination(t, d)
  PROVE  SuspendInv'
  <1>1. t \in Threads
    BY DEF Threads
  <1>2. /\ pc[t] = "idle" /\ pc'[t] = "verify" /\ ctx'[t] = d /\ d \notin holds[t]
        /\ \A u \in Threads \ {t} : pc'[u] = pc[u] /\ ctx'[u] = ctx[u]
        /\ suspendCount' = [suspendCount EXCEPT ![d] = @ + 1]
        /\ UNCHANGED <<after, holds, pendingTerminationList>>
    BY <1>1 DEF SuspendTermination, TypeInv, LocalOK
  <1>3. /\ t \notin Suspending(d)
        /\ \A c \in Contexts :
              /\ Suspending(c)' = IF c = d THEN Suspending(c) \cup {t} ELSE Suspending(c)
              /\ Granted(c)' = Granted(c)
    BY <1>1, <1>2 DEF Suspending, Granted
  <1>4. \A c \in Contexts :
            /\ (suspendCount[c] = Cardinality(Suspending(c)) + Cardinality(Granted(c)))'
            /\ suspendCount[c] > 0 => suspendCount'[c] > 0
    BY <1>2, <1>3, SuspendJoin
  <1>5. ParkedTerminationHasWaker'
    BY <1>2, <1>4, ParkedContexts DEF SuspendInv, ParkedTerminationHasWaker
  <1>6. ReturnOK'
    BY <1>1, <1>2 DEF SuspendInv, ReturnOK, QueuePlaces
  <1> QED BY <1>1, <1>2, <1>4, <1>5, <1>6 DEF SuspendInv, SuspendPlaces

\* ParkTermination: its own suspend is the waker.
LEMMA SuspendPark ==
  ASSUME TypeInv, SuspendInv, NEW t \in Terminators, ParkTermination(t)
  PROVE  SuspendInv'
  <1>1. /\ t \in Threads /\ term[t] \in Terminations
        /\ ctx[t] = TerminationContext[term[t]] /\ ctx[t] \in Contexts
    BY PortAssumption DEF Threads, TypeInv, ControlOK, ParkTermination
  <1>2. /\ pc[t] = "park" /\ pc'[t] = "resume"
        /\ \A u \in Threads \ {t} : pc'[u] = pc[u]
        /\ pendingTerminationList' = pendingTerminationList \cup {term[t]}
        /\ UNCHANGED <<after, ctx, holds, suspendCount>>
    BY <1>1 DEF ParkTermination, TypeInv, LocalOK
  <1>3. ASSUME NEW c \in Contexts
        PROVE  Suspending(c)' = Suspending(c) /\ Granted(c)' = Granted(c)
    BY <1>1, <1>2 DEF Suspending, Granted
  <1>4. suspendCount[ctx[t]] > 0
    <2>1. t \in Suspending(ctx[t])
      BY <1>1, <1>2 DEF Suspending
    <2>2. Cardinality(Suspending(ctx[t])) > 0
      BY <2>1, CountStep
    <2> QED BY <1>1, <2>2, CountsAreFinite DEF SuspendInv
  <1>5. ParkedTerminationHasWaker'
    BY <1>1, <1>2, <1>4 DEF SuspendInv, ParkedTerminationHasWaker
  <1>6. ReturnOK'
    BY <1>1, <1>2 DEF SuspendInv, ReturnOK, QueuePlaces
  <1> QED BY <1>1, <1>2, <1>3, <1>5, <1>6 DEF SuspendInv, SuspendPlaces

\* VerifySuspend: the suspend is granted, or the suspender goes on to give it back.
LEMMA SuspendVerify ==
  ASSUME TypeInv, SuspendInv, NEW t \in Suspenders, VerifySuspend(t)
  PROVE  SuspendInv'
  <1>1. t \in Threads /\ t \notin Terminators /\ ctx[t] \in Contexts /\ ctx[t] \notin holds[t]
    BY RolesAreDisjoint DEF Threads, TypeInv, ControlOK, VerifySuspend, SuspendInv
  <1>2. /\ pc[t] = "verify" /\ pc'[t] \in {"resume", "idle"}
        /\ holds' = IF pc'[t] = "resume" THEN holds
                    ELSE [holds EXCEPT ![t] = holds[t] \cup {ctx[t]}]
        /\ \A u \in Threads \ {t} : pc'[u] = pc[u]
        /\ UNCHANGED <<after, ctx, suspendCount, pendingTerminationList>>
    BY <1>1 DEF VerifySuspend, TypeInv, LocalOK
  <1>3. ASSUME NEW c \in Contexts
        PROVE  suspendCount[c] = Cardinality(Suspending(c)') + Cardinality(Granted(c)')
    <2>1. CASE pc'[t] = "idle" /\ c = ctx[t]
      <3>1. /\ t \in Suspending(c) /\ Suspending(c)' = Suspending(c) \ {t}
            /\ t \notin Granted(c) /\ Granted(c)' = Granted(c) \cup {t}
        BY <1>1, <1>2, <2>1 DEF Suspending, Granted, TypeInv, LocalOK, Threads
      <3>2. /\ Cardinality(Suspending(c)') = Cardinality(Suspending(c)) - 1
            /\ Cardinality(Granted(c)') = Cardinality(Granted(c)) + 1
        BY <3>1, CountStep
      <3> QED BY <3>2, CountsAreFinite DEF SuspendInv
    <2>2. CASE pc'[t] = "resume" \/ c # ctx[t]
      <3>1. Suspending(c)' = Suspending(c) /\ Granted(c)' = Granted(c)
        BY <1>1, <1>2, <2>2 DEF Suspending, Granted, TypeInv, LocalOK, Threads
      <3> QED BY <3>1 DEF SuspendInv
    <2> QED BY <1>2, <2>1, <2>2
  <1>4. ParkedTerminationHasWaker'
    BY <1>2 DEF SuspendInv, ParkedTerminationHasWaker
  <1>5. ReturnOK'
    BY <1>1, <1>2 DEF SuspendInv, ReturnOK, QueuePlaces
  <1> QED BY <1>1, <1>2, <1>3, <1>4, <1>5 DEF SuspendInv, SuspendPlaces, TypeInv, LocalOK

\* CallResumeTermination: a granted suspend becomes one being given back.
LEMMA SuspendCallResume ==
  ASSUME TypeInv, SuspendInv, NEW t \in Suspenders, CallResumeTermination(t)
  PROVE  SuspendInv'
  <1>1. t \in Threads /\ t \notin Terminators
    BY RolesAreDisjoint DEF Threads
  <1>2. PICK d \in holds[t] : /\ holds' = [holds EXCEPT ![t] = holds[t] \ {d}]
                             /\ ctx' = [ctx EXCEPT ![t] = d]
    BY DEF CallResumeTermination
  <1>3. /\ d \in Contexts
        /\ pc[t] = "idle" /\ pc'[t] = "resume"
        /\ \A u \in Threads \ {t} : pc'[u] = pc[u] /\ ctx'[u] = ctx[u] /\ holds'[u] = holds[u]
        /\ ctx'[t] = d /\ holds'[t] = holds[t] \ {d}
        /\ UNCHANGED <<after, suspendCount, pendingTerminationList>>
    BY <1>1, <1>2 DEF CallResumeTermination, TypeInv, LocalOK
  <1>4. ASSUME NEW c \in Contexts
        PROVE  suspendCount[c] = Cardinality(Suspending(c)') + Cardinality(Granted(c)')
    <2>1. CASE c = d
      <3>1. /\ t \notin Suspending(c) /\ Suspending(c)' = Suspending(c) \cup {t}
            /\ t \in Granted(c) /\ Granted(c)' = Granted(c) \ {t}
        BY <1>1, <1>3, <2>1 DEF Suspending, Granted, Threads
      <3>2. /\ Cardinality(Suspending(c)') = Cardinality(Suspending(c)) + 1
            /\ Cardinality(Granted(c)') = Cardinality(Granted(c)) - 1
        BY <3>1, CountStep
      <3> QED BY <3>2, CountsAreFinite DEF SuspendInv
    <2>2. CASE c # d
      <3>1. Suspending(c)' = Suspending(c) /\ Granted(c)' = Granted(c)
        BY <1>1, <1>3, <2>2 DEF Suspending, Granted, Threads
      <3> QED BY <3>1 DEF SuspendInv
    <2> QED BY <2>1, <2>2
  <1>5. ParkedTerminationHasWaker'
    BY <1>3 DEF SuspendInv, ParkedTerminationHasWaker
  <1>6. ReturnOK'
    BY <1>1, <1>3 DEF SuspendInv, ReturnOK, QueuePlaces
  <1> QED BY <1>1, <1>3, <1>4, <1>5, <1>6 DEF SuspendInv, SuspendPlaces

\* RemoveSuspend: one suspend less, and the last one goes on to collect.
LEMMA SuspendRemove ==
  ASSUME TypeInv, SuspendInv, NEW t \in Terminators \cup Suspenders, RemoveSuspend(t)
  PROVE  SuspendInv'
  <1>1. t \in Threads /\ ctx[t] \in Contexts
    BY PortAssumption DEF Threads, TypeInv, ControlOK, RemoveSuspend
  <1>2. /\ pc[t] = "resume"
        /\ pc'[t] = IF suspendCount[ctx[t]] = 1 THEN "collect" ELSE "idle"
        /\ \A u \in Threads \ {t} : pc'[u] = pc[u]
        /\ suspendCount' = [suspendCount EXCEPT ![ctx[t]] = @ - 1]
        /\ UNCHANGED <<after, ctx, holds, pendingTerminationList>>
    BY <1>1 DEF RemoveSuspend, TypeInv, LocalOK
  <1>3. /\ t \in Suspending(ctx[t])
        /\ \A c \in Contexts :
              /\ Suspending(c)' = IF c = ctx[t] THEN Suspending(c) \ {t} ELSE Suspending(c)
              /\ Granted(c)' = Granted(c)
    BY <1>1, <1>2 DEF Suspending, Granted
  <1>4. ASSUME NEW c \in Contexts
        PROVE  suspendCount'[c] = Cardinality(Suspending(c)') + Cardinality(Granted(c)')
    <2>1. CASE c = ctx[t]
      <3>1. Cardinality(Suspending(c)') = Cardinality(Suspending(c)) - 1
        BY <1>3, <2>1, CountStep
      <3>2. suspendCount'[c] = suspendCount[c] - 1 /\ suspendCount[c] \in Int
        BY <1>2, <2>1 DEF TypeInv, SharedOK
      <3> QED BY <1>3, <3>1, <3>2, CountsAreFinite DEF SuspendInv
    <2>2. CASE c # ctx[t]
      BY <1>2, <1>3, <2>2 DEF SuspendInv, TypeInv, SharedOK
    <2> QED BY <2>1, <2>2
  <1>5. ParkedTerminationHasWaker'
    <2> SUFFICES ASSUME NEW k \in pendingTerminationList
                 PROVE  \/ suspendCount'[TerminationContext[k]] > 0
                        \/ \E u \in Threads : pc'[u] = "collect" /\ ctx[u] = TerminationContext[k]
      BY <1>2 DEF ParkedTerminationHasWaker
    <2>1. CASE TerminationContext[k] = ctx[t] /\ pc'[t] # "collect"
      <3>1. suspendCount[ctx[t]] > 0
        <4>1. Cardinality(Suspending(ctx[t])) > 0
          BY <1>3, CountStep
        <4> QED BY <1>1, <4>1, CountsAreFinite DEF SuspendInv
      <3>2. suspendCount'[ctx[t]] = suspendCount[ctx[t]] - 1 /\ suspendCount[ctx[t]] \in Int
        BY <1>1, <1>2 DEF TypeInv, SharedOK
      <3> QED BY <1>2, <2>1, <3>1, <3>2
    <2>2. CASE TerminationContext[k] = ctx[t] /\ pc'[t] = "collect"
      BY <1>1, <2>2
    <2>3. CASE TerminationContext[k] # ctx[t]
      <3>1. suspendCount'[TerminationContext[k]] = suspendCount[TerminationContext[k]]
        BY <1>2, <2>3, ParkedContexts DEF TypeInv, SharedOK
      <3> QED BY <1>2, <3>1 DEF SuspendInv, ParkedTerminationHasWaker
    <2> QED BY <2>1, <2>2, <2>3
  <1>6. ReturnOK'
    BY <1>1, <1>2 DEF SuspendInv, ReturnOK, QueuePlaces
  <1> QED BY <1>1, <1>2, <1>4, <1>5, <1>6 DEF SuspendInv, SuspendPlaces

\* CollectTerminations: the waker takes what its context has parked.
LEMMA SuspendCollect ==
  ASSUME TypeInv, SuspendInv, NEW t \in Terminators \cup Suspenders, CollectTerminations(t)
  PROVE  SuspendInv'
  <1>1. t \in Threads
    BY DEF Threads
  <1>2. /\ pc[t] = "collect" /\ pc'[t] \in {"idle", "schedule"} /\ after'[t] = "idle"
        /\ \A u \in Threads \ {t} : pc'[u] = pc[u] /\ after'[u] = after[u]
        /\ pendingTerminationList' =
              pendingTerminationList \ {k \in pendingTerminationList : TerminationContext[k] = ctx[t]}
        /\ UNCHANGED <<ctx, holds, suspendCount>>
    BY <1>1 DEF CollectTerminations, TypeInv, LocalOK, ControlOK
  <1>3. ASSUME NEW c \in Contexts
        PROVE  Suspending(c)' = Suspending(c) /\ Granted(c)' = Granted(c)
    BY <1>1, <1>2 DEF Suspending, Granted
  <1>4. ParkedTerminationHasWaker'
    BY <1>2 DEF SuspendInv, ParkedTerminationHasWaker
  <1>5. ReturnOK'
    BY <1>1, <1>2 DEF SuspendInv, ReturnOK, QueuePlaces
  <1> QED BY <1>1, <1>2, <1>3, <1>4, <1>5 DEF SuspendInv, SuspendPlaces

\* ScheduleTermination: its two halves keep whatever suspend the thread has.
LEMMA SuspendSchedule ==
  ASSUME TypeInv, SuspendInv, NEW t \in Terminators \cup Suspenders,
         ScheduleTermination(t) \/ AnnounceTermination(t)
  PROVE  SuspendInv'
  <1>1. t \in Threads
    BY DEF Threads
  <1>2. /\ pc[t] \in {"schedule", "announce"}
        /\ pc'[t] \in {"schedule", "announce", after[t]}
        /\ \A u \in Threads \ {t} : pc'[u] = pc[u]
        /\ UNCHANGED <<after, ctx, holds, suspendCount, pendingTerminationList>>
    BY <1>1 DEF ScheduleTermination, AnnounceTermination, TypeInv, LocalOK
  <1>3. after[t] \in {"resume", "idle"}
    BY <1>1, <1>2 DEF SuspendInv
  <1>4. ASSUME NEW c \in Contexts
        PROVE  Suspending(c)' = Suspending(c) /\ Granted(c)' = Granted(c)
    BY <1>1, <1>2, <1>3 DEF Suspending, Granted
  <1>5. ParkedTerminationHasWaker'
    BY <1>2 DEF SuspendInv, ParkedTerminationHasWaker
  <1>6. ReturnOK'
    BY <1>1, <1>2, <1>3 DEF SuspendInv, ReturnOK, QueuePlaces
  <1> QED BY <1>1, <1>2, <1>3, <1>4, <1>5, <1>6 DEF SuspendInv, SuspendPlaces

\* A new port has no suspends.
LEMMA SuspendInit == Init => SuspendInv
  <1> SUFFICES ASSUME Init PROVE SuspendInv
    OBVIOUS
  <1>1. ASSUME NEW c \in Contexts
        PROVE  suspendCount[c] = Cardinality(Suspending(c)) + Cardinality(Granted(c))
    <2>1. Suspending(c) = {} /\ Granted(c) = {}
      BY DEF Init, Suspending, Granted, Threads
    <2> QED BY <2>1, FS_EmptySet DEF Init
  <1> QED BY <1>1 DEF Init, SuspendInv, ReturnOK, SuspendPlaces, QueuePlaces,
                      ParkedTerminationHasWaker

\* Every step preserves the account of the suspends.
LEMMA SuspendNext == TypeInv /\ SuspendInv /\ [Next]_vars => SuspendInv'
  <1> SUFFICES ASSUME TypeInv, SuspendInv, [Next]_vars PROVE SuspendInv'
    OBVIOUS
  <1>1. ReturnOK
    BY DEF SuspendInv
  <1>2. ASSUME NEW t \in Threads,
               \/ /\ t \in Submitters
                  /\ (\E i \in Items : QueueItem(t, i)) \/ OutOfMemory(t) \/ SubmitterStep(t)
               \/ t \in Dispatchers /\ (Dispatch(t) \/ TimeOut(t) \/ Drain(t) \/ WaitStep(t))
               \/ t \in Timers /\ (SubmitPendingCallbacks(t) \/ TimerStep(t))
               \/ t \in Observers /\ (IsEmpty(t) \/ ReadLists(t))
        PROVE  SuspendInv'
    BY <1>1, <1>2, NeutralRoles, SuspendNeutral
  <1>3. ASSUME NEW t \in Workers, ProcessThreadPoolCallback(t) \/ WorkerStep(t)
        PROVE  SuspendInv'
    BY <1>3, NeutralWorker, SuspendNeutral DEF Threads
  <1>4. ASSUME NEW t \in Terminators,
               \/ \E k \in Terminations : PrepareTerminate(t, k)
               \/ CancelTermination(t) \/ Terminate(t) \/ CancelPendingEntries(t)
        PROVE  SuspendInv'
    BY <1>1, <1>4, NeutralTerminator, SuspendNeutral DEF Threads
  <1>5. ASSUME NEW t \in Terminators \cup Suspenders, ResumeTermination(t)
        PROVE  SuspendInv'
    BY <1>5, SuspendRemove, SuspendCollect, SuspendSchedule DEF ResumeTermination
  <1>6. ASSUME NEW t \in Terminators,
               \/ \E k \in Terminations : PrepareTerminate(t, k)
               \/ CancelTermination(t) \/ TerminatorStep(t)
        PROVE  SuspendInv'
    BY <1>4, <1>5, <1>6, SuspendAdd, SuspendPark DEF TerminatorStep
  <1>7. ASSUME NEW t \in Suspenders,
               \/ \E c \in Contexts : SuspendTermination(t, c)
               \/ CallResumeTermination(t) \/ SuspenderStep(t)
        PROVE  SuspendInv'
    BY <1>5, <1>7, SuspendCall, SuspendVerify, SuspendCallResume DEF SuspenderStep
  <1>8. ASSUME NEW i \in Delayed, Ripen(i)
        PROVE  SuspendInv'
    BY <1>8 DEF Ripen, SuspendInv, ReturnOK, Suspending, Granted, ParkedTerminationHasWaker
  <1>9. CASE UNCHANGED vars
    BY <1>9 DEF vars, SuspendInv, ReturnOK, Suspending, Granted, ParkedTerminationHasWaker
  <1> QED BY <1>2, <1>3, <1>6, <1>7, <1>8, <1>9 DEF Next, Threads

LEMMA SuspendInvariant == Spec => []SuspendInv
  BY TypeInvariant, SuspendInit, SuspendNext, PTL DEF Spec

\* RemoveSuspend's assertion: whoever gives back a suspend finds one counted.
THEOREM PairedSuspends == Spec => []ResumeIsPaired
  <1>1. TypeInv /\ SuspendInv => ResumeIsPaired
    <2> SUFFICES ASSUME TypeInv, SuspendInv, NEW t \in Threads, pc[t] = "resume"
                 PROVE  suspendCount[ctx[t]] > 0
      BY DEF ResumeIsPaired
    <2>1. ctx[t] \in Contexts
      BY PortAssumption DEF SuspendInv, SuspendPlaces, TypeInv, ControlOK
    <2>2. Cardinality(Suspending(ctx[t])) > 0
      <3>1. t \in Suspending(ctx[t])
        BY DEF Suspending
      <3> QED BY <3>1, CountStep
    <2> QED BY <2>1, <2>2, CountsAreFinite DEF SuspendInv
  <1> QED BY <1>1, TypeInvariant, SuspendInvariant, PTL

\* A parked termination always has somebody who will schedule it.
THEOREM NoForgottenTermination == Spec => []ParkedTerminationHasWaker
  <1>1. SuspendInv => ParkedTerminationHasWaker
    BY DEF SuspendInv
  <1> QED BY <1>1, SuspendInvariant, PTL

-----------------------------------------------------------------------------
(* Serialization.  The counter is the number of workers between their      *)
(* increment and their decrement, so the one that found it at zero is the  *)
(* only one to drain until it has left.                                    *)

Serialized == {t \in Workers : pc[t] \in DrainRegion \cup {"leave"}}

SerialInv ==
    /\ mode = "SerializedThreadPool" => processingSerialized = Cardinality(Serialized)
    /\ OneDrainer

\* Counting the serialized workers is counting a finite set.
LEMMA SerializedCount ==
  /\ IsFiniteSet(Serialized) /\ Cardinality(Serialized) \in Nat
  /\ Cardinality(Serialized) = 0 => Serialized = {}
  /\ \A t : t \notin Serialized =>
        Cardinality(Serialized \cup {t}) = Cardinality(Serialized) + 1
  /\ \A t \in Serialized : Cardinality(Serialized \ {t}) = Cardinality(Serialized) - 1
  <1>1. IsFiniteSet(Serialized)
    <2>1. Serialized \subseteq Threads
      BY DEF Serialized, Threads
    <2> QED BY <2>1, PortAssumption, FS_Subset
  <1>2. Cardinality(Serialized) \in Nat /\ (Cardinality(Serialized) = 0 => Serialized = {})
    BY <1>1, FS_CardinalityType, FS_EmptySet
  <1>3. ASSUME NEW t, t \notin Serialized
        PROVE  Cardinality(Serialized \cup {t}) = Cardinality(Serialized) + 1
    BY <1>1, <1>3, FS_AddElement
  <1>4. ASSUME NEW t \in Serialized
        PROVE  Cardinality(Serialized \ {t}) = Cardinality(Serialized) - 1
    BY <1>1, <1>4, FS_RemoveElement
  <1> QED BY <1>1, <1>2, <1>3, <1>4

\* The steps of the threads that are not workers do not touch the counter.
LEMMA SerialOthers ==
  ASSUME SerialInv, NEW t \in Threads \ Workers,
         \A u \in Threads \ {t} : pc'[u] = pc[u],
         UNCHANGED <<mode, processingSerialized>>
  PROVE  SerialInv'
  <1>1. \A u \in Workers : pc'[u] = pc[u]
    BY DEF Threads
  <1>2. Serialized' = Serialized
    BY <1>1 DEF Serialized
  <1> QED BY <1>1, <1>2 DEF SerialInv, OneDrainer

\* A terminator and a suspender leave the counter alone in all their steps.
LEMMA SerialSuspenders ==
  ASSUME TypeInv, ReturnOK, SerialInv, NEW t \in Terminators \cup Suspenders,
         \/ /\ t \in Terminators
            /\ \/ \E k \in Terminations : PrepareTerminate(t, k)
               \/ CancelTermination(t) \/ TerminatorStep(t)
         \/ /\ t \in Suspenders
            /\ \/ \E c \in Contexts : SuspendTermination(t, c)
               \/ CallResumeTermination(t) \/ SuspenderStep(t)
  PROVE  SerialInv'
  <1>1. t \in Threads \ Workers
    BY RolesAreDisjoint DEF Threads
  <1> USE <1>1 DEF TypeInv, LocalOK
  <1>2. CASE AddSuspend(t) \/ ParkTermination(t)
    BY <1>2, SerialOthers DEF AddSuspend, ParkTermination
  <1>3. CASE RemoveSuspend(t) \/ CollectTerminations(t)
    BY <1>3, SerialOthers DEF RemoveSuspend, CollectTerminations
  <1>4. CASE ScheduleTermination(t) \/ AnnounceTermination(t)
    BY <1>4, SerialOthers DEF ScheduleTermination, AnnounceTermination, NotifyItemQueued
  <1>5. ASSUME NEW c \in Contexts, SuspendTermination(t, c)
        PROVE  SerialInv'
    BY <1>5, SerialOthers DEF SuspendTermination
  <1>6. CASE CallResumeTermination(t) \/ VerifySuspend(t)
    BY <1>6, SerialOthers DEF CallResumeTermination, VerifySuspend
  <1>7. ASSUME t \in Terminators,
               \/ \E k \in Terminations : PrepareTerminate(t, k)
               \/ CancelTermination(t) \/ Terminate(t) \/ CancelPendingEntries(t)
        PROVE  SerialInv'
    BY <1>7, NeutralTerminator, SerialOthers DEF Neutral, Own
  <1> QED BY <1>2, <1>3, <1>4, <1>5, <1>6, <1>7
          DEF TerminatorStep, SuspenderStep, ResumeTermination

\* A worker's drain keeps it among the serialized workers.
LEMMA SerialDrain ==
  ASSUME TypeInv, SerialInv, NEW t \in Workers, Drain(t)
  PROVE  SerialInv'
  <1>1. t \in Threads
    BY DEF Threads
  <1>2. /\ UNCHANGED <<mode, processingSerialized>>
        /\ pc[t] \in DrainRegion
        /\ mode = "SerializedThreadPool" => pc'[t] \in DrainRegion \cup {"leave"}
        /\ \A u \in Workers \ {t} : pc'[u] = pc[u]
    BY <1>1, NeutralDrain DEF Neutral, Own, Threads
  <1>3. mode = "SerializedThreadPool" => Serialized' = Serialized
    BY <1>2 DEF Serialized
  <1> QED BY <1>2, <1>3 DEF SerialInv, OneDrainer

\* EnterSerialized: a worker that finds nobody counted drains alone.
LEMMA SerialEnter ==
  ASSUME TypeInv, SerialInv, NEW t \in Workers, EnterSerialized(t)
  PROVE  SerialInv'
  <1>1. t \in Threads
    BY DEF Threads
  <1>2. /\ pc[t] = "enter" /\ mode' = mode
        /\ pc'[t] = IF processingSerialized = 0 THEN "drain" ELSE "leave"
        /\ processingSerialized' = processingSerialized + 1
        /\ \A u \in Workers \ {t} : pc'[u] = pc[u]
    BY <1>1 DEF EnterSerialized, TypeInv, LocalOK, Threads
  <1>3. t \notin Serialized /\ Serialized' = Serialized \cup {t}
    BY <1>2 DEF Serialized, DrainRegion
  <1>4. mode = "SerializedThreadPool" => processingSerialized' = Cardinality(Serialized')
    BY <1>2, <1>3, SerializedCount DEF SerialInv
  <1>5. OneDrainer'
    <2>1. CASE mode = "SerializedThreadPool" /\ processingSerialized = 0
      <3>1. Serialized = {}
        BY <2>1, SerializedCount DEF SerialInv
      <3> QED BY <1>2, <3>1 DEF Serialized, OneDrainer
    <2>2. CASE mode # "SerializedThreadPool" \/ processingSerialized # 0
      BY <1>2, <2>2 DEF SerialInv, OneDrainer, DrainRegion
    <2> QED BY <2>1, <2>2
  <1> QED BY <1>2, <1>4, <1>5 DEF SerialInv

\* LeaveSerialized and the start of a pool callback
LEMMA SerialLeave ==
  ASSUME TypeInv, SerialInv, NEW t \in Workers,
         LeaveSerialized(t) \/ ProcessThreadPoolCallback(t)
  PROVE  SerialInv'
  <1>1. t \in Threads
    BY DEF Threads
  <1>2. CASE LeaveSerialized(t)
    <2>1. /\ pc[t] = "leave" /\ pc'[t] = "idle" /\ mode' = mode
          /\ processingSerialized' = processingSerialized - 1
          /\ \A u \in Workers \ {t} : pc'[u] = pc[u]
      BY <1>1, <1>2 DEF LeaveSerialized, TypeInv, LocalOK, Threads
    <2>2. t \in Serialized /\ Serialized' = Serialized \ {t}
      BY <2>1 DEF Serialized, DrainRegion
    <2>3. OneDrainer'
      BY <2>1 DEF SerialInv, OneDrainer, DrainRegion
    <2> QED BY <2>1, <2>2, <2>3, SerializedCount DEF SerialInv
  <1>3. CASE ProcessThreadPoolCallback(t)
    <2>1. /\ pc[t] = "idle" /\ UNCHANGED <<mode, processingSerialized>>
          /\ pc'[t] = IF mode = "SerializedThreadPool" THEN "enter" ELSE "drain"
          /\ \A u \in Workers \ {t} : pc'[u] = pc[u]
      BY <1>1, <1>3 DEF ProcessThreadPoolCallback, TypeInv, LocalOK, Threads
    <2>2. mode = "SerializedThreadPool" => Serialized' = Serialized
      BY <2>1 DEF Serialized, DrainRegion
    <2> QED BY <2>1, <2>2 DEF SerialInv, OneDrainer, DrainRegion
  <1> QED BY <1>2, <1>3

LEMMA SerialInit == Init => SerialInv
  <1> SUFFICES ASSUME Init PROVE SerialInv
    OBVIOUS
  <1>1. Serialized = {} /\ processingSerialized = 0
    BY DEF Init, Serialized, DrainRegion, Threads
  <1> QED BY <1>1, FS_EmptySet DEF Init, SerialInv, OneDrainer, DrainRegion, Threads

\* Every step preserves the serialization.
LEMMA SerialNext == TypeInv /\ ReturnOK /\ SerialInv /\ [Next]_vars => SerialInv'
  <1> SUFFICES ASSUME TypeInv, ReturnOK, SerialInv, [Next]_vars PROVE SerialInv'
    OBVIOUS
  <1>1. ASSUME NEW t \in Threads,
               \/ /\ t \in Submitters
                  /\ (\E i \in Items : QueueItem(t, i)) \/ OutOfMemory(t) \/ SubmitterStep(t)
               \/ t \in Dispatchers /\ (Dispatch(t) \/ TimeOut(t) \/ Drain(t) \/ WaitStep(t))
               \/ t \in Timers /\ (SubmitPendingCallbacks(t) \/ TimerStep(t))
               \/ t \in Observers /\ (IsEmpty(t) \/ ReadLists(t))
        PROVE  SerialInv'
    <2>1. t \notin Workers
      BY <1>1, RolesAreDisjoint
    <2> QED BY <1>1, <2>1, NeutralRoles, SerialOthers DEF Neutral, Own
  <1>2. ASSUME NEW t \in Workers, ProcessThreadPoolCallback(t) \/ WorkerStep(t)
        PROVE  SerialInv'
    BY <1>2, SerialDrain, SerialEnter, SerialLeave DEF WorkerStep
  <1>3. ASSUME NEW i \in Delayed, Ripen(i)
        PROVE  SerialInv'
    BY <1>3 DEF Ripen, SerialInv, Serialized, OneDrainer
  <1>4. CASE UNCHANGED vars
    BY <1>4 DEF vars, SerialInv, Serialized, OneDrainer
  <1> QED BY <1>1, <1>2, <1>3, <1>4, SerialSuspenders DEF Next, Threads

\* A serialized port calls its callbacks one after the other, on however many
\* pool threads ProcessThreadPoolCallback runs.
THEOREM SerializedExclusion == Spec => []OneDrainer
  <1>1. SuspendInv => ReturnOK
    BY DEF SuspendInv
  <1>2. SerialInv => OneDrainer
    BY DEF SerialInv
  <1> QED BY <1>1, <1>2, TypeInvariant, SuspendInvariant, SerialInit, SerialNext, PTL DEF Spec

-----------------------------------------------------------------------------
(* Statuses: four steps write them, and none takes a termination back.     *)

\* A step that keeps every terminated context terminated
Final == \A c \in Contexts : IsTerminated(c) => IsTerminated(c)'

LEMMA UnchangedIsFinal ==
  ASSUME UNCHANGED status
  PROVE  Final
  BY DEF Final, IsTerminated

LEMMA FinalCancel ==
  ASSUME NEW t, CancelPendingEntries(t)
  PROVE  Final
  <1>1. CASE LockPending(t) \/ CancelEntry(t) \/ EndOfPending(t)
    BY <1>1, UnchangedIsFinal DEF LockPending, CancelEntry, EndOfPending
  <1>2. CASE RestoreEntry(t) \/ UnlockPending(t)
    BY <1>2, UnchangedIsFinal DEF RestoreEntry, UnlockPending
  <1>3. CASE AppendEntry(t) \/ NotifyEntry(t)
    BY <1>3, UnchangedIsFinal DEF AppendEntry, NotifyEntry
  <1> QED BY <1>1, <1>2, <1>3 DEF CancelPendingEntries

\* SignalTerminations ends only what was terminating.
LEMMA FinalDrain ==
  ASSUME TypeInv, NEW t \in Threads, Drain(t)
  PROVE  Final
  <1>1. CASE DrainOneItem(t) \/ PopFront(t) \/ InvokeCallback(t) \/ Uncount(t)
    BY <1>1, UnchangedIsFinal DEF DrainOneItem, PopFront, InvokeCallback, Uncount
  <1>2. CASE CheckEmpty(t) \/ CheckQuiet(t) \/ DeliverTermination(t) \/ EndSignal(t)
    BY <1>2, UnchangedIsFinal DEF CheckEmpty, CheckQuiet, DeliverTermination, EndSignal
  <1>3. CASE SignalTerminations(t)
    BY <1>3 DEF SignalTerminations, Final, IsTerminated
  <1> QED BY <1>1, <1>2, <1>3 DEF Drain

\* Terminate ends, and PrepareTerminate and CancelTermination leave alone what
\* has ended.
LEMMA FinalTerminator ==
  ASSUME TypeInv, NEW t \in Threads,
         \/ \E k \in Terminations : PrepareTerminate(t, k)
         \/ CancelTermination(t) \/ TerminatorStep(t)
  PROVE  Final
  <1> USE DEF TypeInv, SharedOK, Final, IsTerminated
  <1>1. ASSUME NEW k \in Terminations, PrepareTerminate(t, k)
        PROVE  Final
    BY <1>1 DEF PrepareTerminate
  <1>2. CASE CancelTermination(t)
    BY <1>2 DEF CancelTermination
  <1>3. CASE Terminate(t)
    BY <1>3 DEF Terminate
  <1>4. CASE AddSuspend(t) \/ ParkTermination(t)
    BY <1>4 DEF AddSuspend, ParkTermination
  <1>5. CASE ResumeTermination(t)
    BY <1>5 DEF ResumeTermination, RemoveSuspend, CollectTerminations,
                ScheduleTermination, AnnounceTermination
  <1> QED BY <1>1, <1>2, <1>3, <1>4, <1>5, FinalCancel DEF TerminatorStep

\* No role but the drains and the terminators writes a status.
LEMMA FinalRoles ==
  ASSUME TypeInv, NEW t \in Threads,
         \/ (\E i \in Items : QueueItem(t, i)) \/ OutOfMemory(t) \/ SubmitterStep(t)
         \/ (\E c \in Contexts : SuspendTermination(t, c)) \/ CallResumeTermination(t)
         \/ SuspenderStep(t)
         \/ Dispatch(t) \/ TimeOut(t) \/ WaitStep(t)
         \/ ProcessThreadPoolCallback(t) \/ WorkerStep(t)
         \/ SubmitPendingCallbacks(t) \/ TimerStep(t)
         \/ IsEmpty(t) \/ ReadLists(t)
         \/ \E i \in Delayed : Ripen(i)
  PROVE  Final
  <1>1. CASE (\E i \in Items : QueueItem(t, i)) \/ OutOfMemory(t) \/ SubmitterStep(t)
    BY <1>1, FinalCancel, UnchangedIsFinal
       DEF QueueItem, OutOfMemory, SubmitterStep, PushPending, CheckStatus
  <1>2. CASE \/ \E c \in Contexts : SuspendTermination(t, c)
             \/ CallResumeTermination(t) \/ SuspenderStep(t)
    BY <1>2, FinalTerminator, UnchangedIsFinal
       DEF SuspendTermination, CallResumeTermination, SuspenderStep, VerifySuspend,
           TerminatorStep
  <1>3. CASE Dispatch(t) \/ TimeOut(t) \/ WaitStep(t)
    BY <1>3, UnchangedIsFinal
       DEF Dispatch, TimeOut, WaitStep, WaitCheckQueue, WaitCheckTerminations,
           WaitCheckStatus, WaitForEvent, Wake
  <1>4. CASE ProcessThreadPoolCallback(t) \/ WorkerStep(t)
    BY <1>4, FinalDrain, UnchangedIsFinal
       DEF ProcessThreadPoolCallback, WorkerStep, EnterSerialized, LeaveSerialized
  <1>5. CASE SubmitPendingCallbacks(t) \/ TimerStep(t)
    BY <1>5, FinalCancel, UnchangedIsFinal
       DEF SubmitPendingCallbacks, TimerStep, PromoteEntry, ScheduleNextItem
  <1>6. CASE IsEmpty(t) \/ ReadLists(t) \/ \E i \in Delayed : Ripen(i)
    BY <1>6, UnchangedIsFinal DEF IsEmpty, ReadLists, Ripen
  <1> QED BY <1>1, <1>2, <1>3, <1>4, <1>5, <1>6

\* Whatever the order of concurrent Terminate, CancelTermination and
\* SignalTerminations, a context that refuses items never accepts them again.
THEOREM TerminationFinal == Spec => TerminationIsFinal
  <1>1. TypeInv /\ [Next]_vars => [Final]_vars
    <2> SUFFICES ASSUME TypeInv, Next PROVE Final
      OBVIOUS
    <2>1. ASSUME NEW t \in Threads,
                 \/ \E k \in Terminations : PrepareTerminate(t, k)
                 \/ CancelTermination(t) \/ TerminatorStep(t) \/ Drain(t)
          PROVE  Final
      BY <2>1, FinalTerminator, FinalDrain
    <2>2. ASSUME NEW i \in Delayed, Ripen(i)
          PROVE  Final
      BY <2>2, UnchangedIsFinal DEF Ripen
    <2> QED BY <2>1, <2>2, FinalRoles DEF Next, Threads
  <1> QED BY <1>1, TypeInvariant, PTL DEF Spec, TerminationIsFinal, Final

-----------------------------------------------------------------------------
(* A termination is never lost and never delivered twice: from Terminate   *)
(* on it is in one place, in the hands of the thread that terminates,      *)
(* parked, in the hands of one that schedules it, scheduled, or in those   *)
(* of the drain that delivers it.                                          *)

-----------------------------------------------------------------------------
(* The invariant.  A step moves the terminations of one thread, and a      *)
(* thread has some in hand only inside ScheduleTermination's or            *)
(* SignalTerminations' loop; a terminator never runs the timer's loop; and *)
(* a token is prepared by one terminator at a time, so that it is          *)
(* requested once.                                                         *)

\* The places of a thread that has terminations in hand, when they are not its own
TermPlaces == {"schedule", "announce", "deliver"}

Carries(t) ==
    \/ pc[t] \in {"suspend", "park"}
    \/ /\ after[t] = "suspend"
       /\ pc[t] \in {"cancel", "cancelling", "restore", "append", "notify"}

TokenInv ==
    /\ \A t \in Threads : pc[t] \notin TermPlaces => terms[t] = {}
    /\ \A t \in Terminators :
          /\ pc[t] \notin {"promote", "promoting"}
          /\ pc[t] = "prepared" => request[term[t]] = "prepared"
    /\ \A t, u \in Terminators :
          (pc[t] = "prepared" /\ pc[u] = "prepared" /\ term[t] = term[u]) => t = u

Places(k) ==
    Cardinality(Carried(k)) + Cardinality(InTerms(k))
      + Count(k, terminationList) + Count(k, pendingTerminationList) + delivered[k]

TerminationInv == TokenInv /\ TerminationInOnePlace

\* Every count of the sum is a natural number, so that a token found in one place
\* is in no other.
LEMMA PlacesAreCounts ==
  ASSUME TypeInv, TerminationInOnePlace, NEW k \in Terminations
  PROVE  /\ Carried(k) \subseteq Threads /\ InTerms(k) \subseteq Threads
         /\ Cardinality(Carried(k)) \in Nat /\ Cardinality(InTerms(k)) \in Nat
         /\ delivered[k] \in Nat
         /\ Places(k) = IF request[k] = "requested" THEN 1 ELSE 0
  <1>1. Carried(k) \subseteq Threads /\ InTerms(k) \subseteq Threads
    BY DEF Carried, InTerms, Threads
  <1> QED BY <1>1, CardinalityStep DEF TypeInv, HistoryOK, TerminationInOnePlace, Places

\* How the two counts change when one thread joins or leaves.
LEMMA PlaceStep ==
  ASSUME TypeInv, TerminationInOnePlace, NEW k \in Terminations, NEW t \in Threads
  PROVE  /\ t \notin Carried(k) =>
               Cardinality(Carried(k) \cup {t}) = Cardinality(Carried(k)) + 1
         /\ t \in Carried(k) =>
               /\ Cardinality(Carried(k) \ {t}) = Cardinality(Carried(k)) - 1
               /\ Cardinality(Carried(k)) > 0
         /\ t \notin InTerms(k) =>
               Cardinality(InTerms(k) \cup {t}) = Cardinality(InTerms(k)) + 1
         /\ t \in InTerms(k) =>
               /\ Cardinality(InTerms(k) \ {t}) = Cardinality(InTerms(k)) - 1
               /\ Cardinality(InTerms(k)) > 0
  <1>1. Carried(k) \subseteq Threads /\ InTerms(k) \subseteq Threads
    BY PlacesAreCounts
  <1>2. /\ t \notin Carried(k) =>
               Cardinality(Carried(k) \cup {t}) = Cardinality(Carried(k)) + 1
        /\ t \in Carried(k) =>
               /\ Cardinality(Carried(k) \ {t}) = Cardinality(Carried(k)) - 1
               /\ Cardinality(Carried(k)) > 0
    BY <1>1, CardinalityStep
  <1>3. /\ t \notin InTerms(k) =>
               Cardinality(InTerms(k) \cup {t}) = Cardinality(InTerms(k)) + 1
        /\ t \in InTerms(k) =>
               /\ Cardinality(InTerms(k) \ {t}) = Cardinality(InTerms(k)) - 1
               /\ Cardinality(InTerms(k)) > 0
    BY <1>1, CardinalityStep
  <1> QED BY <1>2, <1>3

\* What is prepared is a token.
LEMMA PreparedTokens ==
  ASSUME TypeInv, TerminationInv
  PROVE  /\ request \in [Terminations -> {"none", "prepared", "canceled", "requested"}]
         /\ \A u \in Terminators : pc[u] = "prepared" =>
                term[u] \in Terminations /\ request[term[u]] = "prepared"
  BY DEF TypeInv, HistoryOK, ControlOK, TerminationInv, TokenInv

\* Steps that move no termination
Unmoved(t) ==
    /\ \A u \in Threads \ {t} : pc'[u] = pc[u] /\ after'[u] = after[u]
    /\ UNCHANGED <<terminationVars, request, delivered>>
    /\ t \in Terminators =>
          /\ Carries(t)' <=> Carries(t)
          /\ pc'[t] \notin {"prepared", "promote", "promoting"}
    /\ pc'[t] \notin TermPlaces => terms[t] = {}

LEMMA TerminationUnmoved ==
  ASSUME TypeInv, TerminationInv, NEW t \in Threads, Unmoved(t)
  PROVE  TerminationInv'
  <1>1. ASSUME NEW k \in Terminations
        PROVE  Carried(k)' = Carried(k) /\ InTerms(k)' = InTerms(k)
    <2>1. \A u \in Terminators : Carries(u)' <=> Carries(u)
      BY DEF Unmoved, Carries, Threads
    <2>2. term' = term /\ terms' = terms
      BY DEF Unmoved
    <2> QED BY <2>1, <2>2 DEF Carried, InTerms, Carries
  <1>2. TerminationInOnePlace'
    BY <1>1 DEF TerminationInv, TerminationInOnePlace, Unmoved, Count
  <1>3. TokenInv'
    BY DEF TerminationInv, TokenInv, Unmoved, Threads
  <1> QED BY <1>2, <1>3 DEF TerminationInv
-----------------------------------------------------------------------------
(* The steps that move a termination: for every token the sum stays, or    *)
(* becomes one when Terminate requests it.                                 *)

\* PrepareTerminate takes a token nobody has prepared.
LEMMA MovePrepare ==
  ASSUME TypeInv, TerminationInv, NEW t \in Terminators, NEW k \in Terminations,
         PrepareTerminate(t, k)
  PROVE  TerminationInv'
  <1>1. t \in Threads
    BY DEF Threads
  <1>2. /\ pc[t] = "idle" /\ pc'[t] = "prepared" /\ request[k] = "none"
        /\ request' = [request EXCEPT ![k] = "prepared"]
        /\ term'[t] = k
        /\ \A u \in Threads \ {t} : pc'[u] = pc[u] /\ term'[u] = term[u]
        /\ UNCHANGED <<after, terms, terminationList, pendingTerminationList, delivered>>
    BY <1>1 DEF PrepareTerminate, TypeInv, LocalOK
  <1>3. ASSUME NEW l \in Terminations
        PROVE  Carried(l)' = Carried(l) /\ InTerms(l)' = InTerms(l)
    BY <1>1, <1>2 DEF Carried, InTerms, Threads
  <1>4. TerminationInOnePlace'
    BY <1>2, <1>3 DEF TerminationInv, TerminationInOnePlace, Count, TypeInv, HistoryOK
  <1>5. TokenInv'
    BY <1>1, <1>2, PreparedTokens DEF TerminationInv, TokenInv, TermPlaces, Threads
  <1> QED BY <1>4, <1>5 DEF TerminationInv

\* CancelTermination gives it up.
LEMMA MoveCancel ==
  ASSUME TypeInv, TerminationInv, NEW t \in Terminators, CancelTermination(t)
  PROVE  TerminationInv'
  <1>1. t \in Threads /\ term[t] \in Terminations /\ request[term[t]] = "prepared"
    BY DEF Threads, CancelTermination, TypeInv, ControlOK, TerminationInv, TokenInv
  <1>2. /\ pc[t] = "prepared" /\ pc'[t] = "idle"
        /\ request' = [request EXCEPT ![term[t]] = "canceled"]
        /\ \A u \in Threads \ {t} : pc'[u] = pc[u]
        /\ UNCHANGED <<after, term, terms, terminationList, pendingTerminationList, delivered>>
    BY <1>1 DEF CancelTermination, TypeInv, LocalOK
  <1>3. ASSUME NEW l \in Terminations
        PROVE  Carried(l)' = Carried(l) /\ InTerms(l)' = InTerms(l)
    BY <1>1, <1>2 DEF Carried, InTerms, Threads
  <1>4. TerminationInOnePlace'
    BY <1>1, <1>2, <1>3 DEF TerminationInv, TerminationInOnePlace, Count, TypeInv, HistoryOK
  <1>5. TokenInv'
    BY <1>1, <1>2, PreparedTokens DEF TerminationInv, TokenInv, TermPlaces, Threads
  <1> QED BY <1>4, <1>5 DEF TerminationInv

\* Terminate requests it, once: from now on its terminator carries it.
LEMMA MoveTerminate ==
  ASSUME TypeInv, TerminationInv, NEW t \in Terminators, Terminate(t)
  PROVE  TerminationInv'
  <1>1. t \in Threads /\ term[t] \in Terminations /\ request[term[t]] = "prepared"
    BY DEF Threads, Terminate, TypeInv, ControlOK, TerminationInv, TokenInv
  <1>2. /\ pc[t] = "prepared" /\ pc'[t] = "cancel" /\ after'[t] = "suspend"
        /\ request' = [request EXCEPT ![term[t]] = "requested"]
        /\ \A u \in Threads \ {t} : pc'[u] = pc[u] /\ after'[u] = after[u]
        /\ UNCHANGED <<term, terms, terminationList, pendingTerminationList, delivered>>
    BY <1>1 DEF Terminate, TypeInv, LocalOK, ControlOK
  <1>3. /\ t \notin Carried(term[t])
        /\ Carried(term[t])' = Carried(term[t]) \cup {t}
        /\ \A l \in Terminations \ {term[t]} : Carried(l)' = Carried(l)
        /\ \A l \in Terminations : InTerms(l)' = InTerms(l)
    BY <1>1, <1>2 DEF Carried, InTerms, Threads
  <1>4. ASSUME NEW l \in Terminations
        PROVE  Places(l)' = IF request'[l] = "requested" THEN 1 ELSE 0
    <2>1. CASE l = term[t]
      <3>1. Cardinality(Carried(l)') = Cardinality(Carried(l)) + 1
        BY <1>1, <1>2, <1>3, <2>1, PlaceStep DEF TerminationInv
      <3>2. request[l] = "prepared" /\ request'[l] = "requested"
        BY <1>1, <1>2, <2>1, PreparedTokens
      <3>3. /\ Places(l) = 0 /\ Cardinality(Carried(l)) \in Nat
            /\ Cardinality(InTerms(l)) \in Nat /\ delivered[l] \in Nat
        BY <3>2, PlacesAreCounts DEF TerminationInv
      <3> QED BY <1>2, <1>3, <3>1, <3>2, <3>3 DEF Places, Count
    <2>2. CASE l # term[t]
      BY <1>1, <1>2, <1>3, <2>2, PlacesAreCounts
      DEF TerminationInv, Places, Count, TypeInv, HistoryOK
    <2> QED BY <2>1, <2>2
  <1>5. TerminationInOnePlace'
    BY <1>4 DEF TerminationInOnePlace, Places
  <1>6. TokenInv'
    BY <1>1, <1>2, PreparedTokens DEF TerminationInv, TokenInv, TermPlaces, Threads
  <1> QED BY <1>5, <1>6 DEF TerminationInv

\* AddSuspend keeps it in hand, to park it or as the entry to schedule.
LEMMA MoveSuspend ==
  ASSUME TypeInv, TerminationInv, NEW t \in Terminators, AddSuspend(t)
  PROVE  TerminationInv'
  <1>1. t \in Threads /\ term[t] \in Terminations /\ pc[t] = "suspend" /\ terms[t] = {}
    BY DEF Threads, AddSuspend, TypeInv, ControlOK, TerminationInv, TokenInv, TermPlaces
  <1>2. CASE suspendCount[ctx[t]] # 0
    <2>1. Unmoved(t)
      BY <1>1, <1>2 DEF AddSuspend, Unmoved, Carries, TypeInv, LocalOK
    <2> QED BY <1>1, <2>1, TerminationUnmoved
  <1>3. CASE suspendCount[ctx[t]] = 0
    <2>1. /\ pc'[t] = "schedule" /\ after'[t] = "resume" /\ terms'[t] = {term[t]}
          /\ \A u \in Threads \ {t} :
                pc'[u] = pc[u] /\ after'[u] = after[u] /\ terms'[u] = terms[u]
          /\ UNCHANGED <<term, request, terminationList, pendingTerminationList, delivered>>
      BY <1>1, <1>3 DEF AddSuspend, TypeInv, LocalOK, ControlOK
    <2>2. /\ t \in Carried(term[t]) /\ t \notin InTerms(term[t])
          /\ Carried(term[t])' = Carried(term[t]) \ {t}
          /\ InTerms(term[t])' = InTerms(term[t]) \cup {t}
          /\ \A l \in Terminations \ {term[t]} :
                Carried(l)' = Carried(l) /\ InTerms(l)' = InTerms(l)
      BY <1>1, <2>1 DEF Carried, InTerms, Threads
    <2>3. ASSUME NEW l \in Terminations
          PROVE  Places(l)' = IF request'[l] = "requested" THEN 1 ELSE 0
      <3>1. CASE l = term[t]
        <4>1. /\ Cardinality(Carried(l)') = Cardinality(Carried(l)) - 1
              /\ Cardinality(InTerms(l)') = Cardinality(InTerms(l)) + 1
          BY <1>1, <2>1, <2>2, <3>1, PlaceStep DEF TerminationInv
        <4> QED BY <2>1, <4>1, PlacesAreCounts DEF TerminationInv, Places, Count
      <3>2. CASE l # term[t]
        BY <2>1, <2>2, <3>2, PlacesAreCounts DEF TerminationInv, Places, Count
      <3> QED BY <3>1, <3>2
    <2>4. TerminationInOnePlace'
      BY <2>3 DEF TerminationInOnePlace, Places
    <2>5. TokenInv'
      BY <1>1, <2>1 DEF TerminationInv, TokenInv, TermPlaces, Threads
    <2> QED BY <2>4, <2>5 DEF TerminationInv
  <1> QED BY <1>2, <1>3

\* ParkTermination puts it among the parked.
LEMMA MovePark ==
  ASSUME TypeInv, TerminationInv, NEW t \in Terminators, ParkTermination(t)
  PROVE  TerminationInv'
  <1>1. t \in Threads /\ term[t] \in Terminations /\ terms[t] = {}
    BY DEF Threads, ParkTermination, TypeInv, ControlOK, TerminationInv, TokenInv, TermPlaces
  <1>2. /\ pc[t] = "park" /\ pc'[t] = "resume"
        /\ \A u \in Threads \ {t} : pc'[u] = pc[u]
        /\ pendingTerminationList' = pendingTerminationList \cup {term[t]}
        /\ UNCHANGED <<after, term, terms, request, terminationList, delivered>>
    BY <1>1 DEF ParkTermination, TypeInv, LocalOK
  <1>3. /\ t \in Carried(term[t])
        /\ Carried(term[t])' = Carried(term[t]) \ {t}
        /\ \A l \in Terminations \ {term[t]} : Carried(l)' = Carried(l)
        /\ \A l \in Terminations : InTerms(l)' = InTerms(l)
    BY <1>1, <1>2 DEF Carried, InTerms, Threads
  <1>4. ASSUME NEW l \in Terminations
        PROVE  Places(l)' = IF request'[l] = "requested" THEN 1 ELSE 0
    <2>1. CASE l = term[t]
      <3>1. Cardinality(Carried(l)') = Cardinality(Carried(l)) - 1 /\ Cardinality(Carried(l)) > 0
        BY <1>1, <1>2, <1>3, <2>1, PlaceStep DEF TerminationInv
      <3> QED BY <1>2, <1>3, <2>1, <3>1, PlacesAreCounts DEF TerminationInv, Places, Count
    <2>2. CASE l # term[t]
      BY <1>2, <1>3, <2>2, PlacesAreCounts DEF TerminationInv, Places, Count
    <2> QED BY <2>1, <2>2
  <1>5. TerminationInOnePlace'
    BY <1>4 DEF TerminationInOnePlace, Places
  <1>6. TokenInv'
    BY <1>1, <1>2 DEF TerminationInv, TokenInv, TermPlaces, Threads
  <1> QED BY <1>5, <1>6 DEF TerminationInv
\* CollectTerminations takes the parked ones of its context into its hands.
LEMMA MoveCollect ==
  ASSUME TypeInv, TerminationInv, NEW t \in Terminators \cup Suspenders,
         CollectTerminations(t)
  PROVE  TerminationInv'
  <1>1. t \in Threads /\ terms[t] = {}
    BY DEF Threads, CollectTerminations, TerminationInv, TokenInv, TermPlaces
  <1> DEFINE parked == {k \in pendingTerminationList : TerminationContext[k] = ctx[t]}
  <1>2. /\ pc[t] = "collect"
        /\ pc'[t] = IF parked = {} THEN "idle" ELSE "schedule"
        /\ after'[t] = "idle" /\ terms'[t] = parked
        /\ \A u \in Threads \ {t} :
              pc'[u] = pc[u] /\ after'[u] = after[u] /\ terms'[u] = terms[u]
        /\ pendingTerminationList' = pendingTerminationList \ parked
        /\ UNCHANGED <<term, request, terminationList, delivered>>
    BY <1>1 DEF CollectTerminations, TypeInv, LocalOK, ControlOK
  <1> HIDE DEF parked
  <1>3. ASSUME NEW l \in Terminations
        PROVE  /\ Carried(l)' = Carried(l)
               /\ t \notin InTerms(l)
               /\ InTerms(l)' = IF l \in parked THEN InTerms(l) \cup {t} ELSE InTerms(l)
    BY <1>1, <1>2 DEF Carried, InTerms, Threads
  <1>4. ASSUME NEW l \in Terminations
        PROVE  Places(l)' = IF request'[l] = "requested" THEN 1 ELSE 0
    <2>1. CASE l \in parked
      <3>1. l \in pendingTerminationList /\ l \notin pendingTerminationList'
        BY <1>2, <2>1 DEF parked
      <3>2. Cardinality(InTerms(l)') = Cardinality(InTerms(l)) + 1
        BY <1>1, <1>3, <2>1, PlaceStep DEF TerminationInv
      <3> QED BY <1>2, <1>3, <3>1, <3>2, PlacesAreCounts DEF TerminationInv, Places, Count
    <2>2. CASE l \notin parked
      BY <1>2, <1>3, <2>2, PlacesAreCounts DEF TerminationInv, Places, Count
    <2> QED BY <2>1, <2>2
  <1>5. TerminationInOnePlace'
    BY <1>4 DEF TerminationInOnePlace, Places
  <1>6. TokenInv'
    BY <1>1, <1>2 DEF TerminationInv, TokenInv, TermPlaces, Threads
  <1> QED BY <1>5, <1>6 DEF TerminationInv

\* ScheduleTermination puts one of them in the list.
LEMMA MoveSchedule ==
  ASSUME TypeInv, TerminationInv, NEW t \in Terminators \cup Suspenders,
         ScheduleTermination(t)
  PROVE  TerminationInv'
  <1>1. t \in Threads
    BY DEF Threads
  <1>2. PICK k \in terms[t] : /\ terminationList' = terminationList \cup {k}
                              /\ terms' = [terms EXCEPT ![t] = terms[t] \ {k}]
    BY DEF ScheduleTermination
  <1>3. /\ k \in Terminations
        /\ pc[t] = "schedule" /\ pc'[t] = "announce" /\ terms'[t] = terms[t] \ {k}
        /\ \A u \in Threads \ {t} : pc'[u] = pc[u] /\ terms'[u] = terms[u]
        /\ UNCHANGED <<after, term, request, pendingTerminationList, delivered>>
    BY <1>1, <1>2 DEF ScheduleTermination, TypeInv, LocalOK
  <1>4. /\ t \in InTerms(k) /\ InTerms(k)' = InTerms(k) \ {t}
        /\ \A l \in Terminations : Carried(l)' = Carried(l)
        /\ \A l \in Terminations \ {k} : InTerms(l)' = InTerms(l)
    BY <1>1, <1>2, <1>3 DEF Carried, InTerms, Threads
  <1>5. ASSUME NEW l \in Terminations
        PROVE  Places(l)' = IF request'[l] = "requested" THEN 1 ELSE 0
    <2>1. CASE l = k
      <3>1. Cardinality(InTerms(l)') = Cardinality(InTerms(l)) - 1 /\ Cardinality(InTerms(l)) > 0
        BY <1>1, <1>4, <2>1, PlaceStep DEF TerminationInv
      <3> QED BY <1>2, <1>3, <1>4, <2>1, <3>1, PlacesAreCounts DEF TerminationInv, Places, Count
    <2>2. CASE l # k
      BY <1>2, <1>3, <1>4, <2>2, PlacesAreCounts DEF TerminationInv, Places, Count
    <2> QED BY <2>1, <2>2
  <1>6. TerminationInOnePlace'
    BY <1>5 DEF TerminationInOnePlace, Places
  <1>7. TokenInv'
    BY <1>1, <1>3 DEF TerminationInv, TokenInv, TermPlaces, Threads
  <1> QED BY <1>6, <1>7 DEF TerminationInv

\* SignalTerminations takes what has ended out of the list and into its hands.
LEMMA MoveSignal ==
  ASSUME TypeInv, TerminationInv, NEW t \in Dispatchers \cup Workers, SignalTerminations(t)
  PROVE  TerminationInv'
  <1>1. t \in Threads \ Terminators /\ terms[t] = {}
    BY RolesAreDisjoint
    DEF Threads, SignalTerminations, TerminationInv, TokenInv, TermPlaces
  <1> DEFINE ended == {k \in terminationList : IsTerminated(TerminationContext[k])}
  <1>2. /\ pc[t] = "signal" /\ pc'[t] = "deliver" /\ terms'[t] = ended
        /\ \A u \in Threads \ {t} : pc'[u] = pc[u] /\ terms'[u] = terms[u]
        /\ terminationList' = terminationList \ ended
        /\ UNCHANGED <<after, term, request, pendingTerminationList, delivered>>
    BY <1>1 DEF SignalTerminations, TypeInv, LocalOK
  <1> HIDE DEF ended
  <1>3. ASSUME NEW l \in Terminations
        PROVE  /\ Carried(l)' = Carried(l)
               /\ t \notin InTerms(l)
               /\ InTerms(l)' = IF l \in ended THEN InTerms(l) \cup {t} ELSE InTerms(l)
    BY <1>1, <1>2 DEF Carried, InTerms, Threads
  <1>4. ASSUME NEW l \in Terminations
        PROVE  Places(l)' = IF request'[l] = "requested" THEN 1 ELSE 0
    <2>1. CASE l \in ended
      <3>1. l \in terminationList /\ l \notin terminationList'
        BY <1>2, <2>1 DEF ended
      <3>2. Cardinality(InTerms(l)') = Cardinality(InTerms(l)) + 1
        BY <1>1, <1>3, <2>1, PlaceStep DEF TerminationInv
      <3> QED BY <1>2, <1>3, <3>1, <3>2, PlacesAreCounts DEF TerminationInv, Places, Count
    <2>2. CASE l \notin ended
      BY <1>2, <1>3, <2>2, PlacesAreCounts DEF TerminationInv, Places, Count
    <2> QED BY <2>1, <2>2
  <1>5. TerminationInOnePlace'
    BY <1>4 DEF TerminationInOnePlace, Places
  <1>6. TokenInv'
    BY <1>1, <1>2 DEF TerminationInv, TokenInv, TermPlaces, Threads
  <1> QED BY <1>5, <1>6 DEF TerminationInv

\* DeliverTermination calls one of them back.
LEMMA MoveDeliver ==
  ASSUME TypeInv, TerminationInv, NEW t \in Dispatchers \cup Workers, DeliverTermination(t)
  PROVE  TerminationInv'
  <1>1. t \in Threads
    BY DEF Threads
  <1>2. PICK k \in terms[t] : /\ delivered' = [delivered EXCEPT ![k] = @ + 1]
                              /\ terms' = [terms EXCEPT ![t] = terms[t] \ {k}]
    BY DEF DeliverTermination
  <1>3. /\ k \in Terminations
        /\ pc[t] = "deliver" /\ terms'[t] = terms[t] \ {k}
        /\ \A u \in Threads \ {t} : terms'[u] = terms[u]
        /\ UNCHANGED <<pc, after, term, request, terminationList, pendingTerminationList>>
    BY <1>1, <1>2 DEF DeliverTermination, TypeInv, LocalOK
  <1>4. /\ t \in InTerms(k) /\ InTerms(k)' = InTerms(k) \ {t}
        /\ \A l \in Terminations : Carried(l)' = Carried(l)
        /\ \A l \in Terminations \ {k} : InTerms(l)' = InTerms(l)
    BY <1>1, <1>2, <1>3 DEF Carried, InTerms, Threads
  <1>5. \A l \in Terminations :
           delivered[l] \in Nat /\ delivered'[l] = IF l = k THEN delivered[l] + 1 ELSE delivered[l]
    BY <1>2, <1>3 DEF TypeInv, HistoryOK
  <1>6. ASSUME NEW l \in Terminations
        PROVE  Places(l)' = IF request'[l] = "requested" THEN 1 ELSE 0
    <2>1. CASE l = k
      <3>1. Cardinality(InTerms(l)') = Cardinality(InTerms(l)) - 1 /\ Cardinality(InTerms(l)) > 0
        BY <1>1, <1>4, <2>1, PlaceStep DEF TerminationInv
      <3> QED BY <1>3, <1>4, <1>5, <2>1, <3>1, PlacesAreCounts DEF TerminationInv, Places, Count
    <2>2. CASE l # k
      BY <1>3, <1>4, <1>5, <2>2, PlacesAreCounts DEF TerminationInv, Places, Count
    <2> QED BY <2>1, <2>2
  <1>7. TerminationInOnePlace'
    BY <1>6 DEF TerminationInOnePlace, Places
  <1>8. TokenInv'
    BY <1>1, <1>3 DEF TerminationInv, TokenInv, TermPlaces, Threads
  <1> QED BY <1>7, <1>8 DEF TerminationInv
-----------------------------------------------------------------------------
(* All other steps leave the terminations where they are.                  *)

\* A terminator that cancels the pending entries goes on carrying its token.
LEMMA UnmovedCancel ==
  ASSUME TypeInv, TerminationInv, NEW t \in Threads, CancelPendingEntries(t)
  PROVE  Unmoved(t)
  <1> USE DEF TypeInv, LocalOK, ControlOK, TerminationInv, TokenInv, Unmoved, Carries, TermPlaces
  <1>1. CASE LockPending(t)
    BY <1>1 DEF LockPending
  <1>2. CASE CancelEntry(t)
    BY <1>2 DEF CancelEntry
  <1>3. CASE EndOfPending(t)
    BY <1>3 DEF EndOfPending
  <1>4. CASE RestoreEntry(t)
    BY <1>4 DEF RestoreEntry
  <1>5. CASE UnlockPending(t)
    BY <1>5 DEF UnlockPending
  <1>6. CASE AppendEntry(t)
    BY <1>6 DEF AppendEntry
  <1>7. CASE NotifyEntry(t)
    BY <1>7 DEF NotifyEntry
  <1> QED BY <1>1, <1>2, <1>3, <1>4, <1>5, <1>6, <1>7 DEF CancelPendingEntries

\* A drain moves terminations in SignalTerminations and its callbacks only.
LEMMA UnmovedDrain ==
  ASSUME TypeInv, TerminationInv, NEW t \in Dispatchers \cup Workers, Drain(t),
         ~SignalTerminations(t), ~DeliverTermination(t)
  PROVE  Unmoved(t)
  <1>1. t \in Threads \ Terminators
    BY RolesAreDisjoint DEF Threads
  <1> USE <1>1 DEF TypeInv, LocalOK, TerminationInv, TokenInv, Unmoved, TermPlaces
  <1>2. CASE DrainOneItem(t)
    BY <1>2 DEF DrainOneItem
  <1>3. CASE PopFront(t)
    BY <1>3 DEF PopFront
  <1>4. CASE InvokeCallback(t)
    BY <1>4 DEF InvokeCallback
  <1>5. CASE Uncount(t)
    BY <1>5 DEF Uncount
  <1>6. CASE CheckEmpty(t)
    BY <1>6 DEF CheckEmpty, Return
  <1>7. CASE CheckQuiet(t)
    BY <1>7 DEF CheckQuiet, Return
  <1>8. CASE EndSignal(t)
    BY <1>8 DEF EndSignal, Return
  <1> QED BY <1>2, <1>3, <1>4, <1>5, <1>6, <1>7, <1>8 DEF Drain

\* So do the steps of the submitters, the timer and the observers, and those of
\* a dispatcher or a worker outside its drain.
LEMMA UnmovedRoles ==
  ASSUME TypeInv, TerminationInv, NEW t \in Threads,
         \/ /\ t \in Submitters
            /\ (\E i \in Items : QueueItem(t, i)) \/ OutOfMemory(t) \/ SubmitterStep(t)
         \/ t \in Dispatchers /\ (Dispatch(t) \/ TimeOut(t) \/ WaitStep(t))
         \/ /\ t \in Workers
            /\ ProcessThreadPoolCallback(t) \/ EnterSerialized(t) \/ LeaveSerialized(t)
         \/ t \in Timers /\ (SubmitPendingCallbacks(t) \/ TimerStep(t))
         \/ t \in Observers /\ (IsEmpty(t) \/ ReadLists(t))
  PROVE  Unmoved(t)
  <1>1. t \notin Terminators
    BY RolesAreDisjoint
  <1> USE <1>1 DEF TypeInv, LocalOK, ControlOK, TerminationInv, TokenInv, Unmoved, TermPlaces
  <1>2. ASSUME NEW i \in Items, QueueItem(t, i)
        PROVE  Unmoved(t)
    BY <1>2 DEF QueueItem
  <1>3. CASE OutOfMemory(t) \/ PushPending(t) \/ CheckStatus(t)
    BY <1>3 DEF OutOfMemory, PushPending, CheckStatus
  <1>4. CASE Dispatch(t) \/ TimeOut(t)
    BY <1>4 DEF Dispatch, TimeOut
  <1>5. CASE WaitStep(t)
    BY <1>5 DEF WaitStep, WaitCheckQueue, WaitCheckTerminations, WaitCheckStatus,
                WaitForEvent, Wake
  <1>6. CASE ProcessThreadPoolCallback(t) \/ EnterSerialized(t) \/ LeaveSerialized(t)
    BY <1>6 DEF ProcessThreadPoolCallback, EnterSerialized, LeaveSerialized
  <1>7. CASE SubmitPendingCallbacks(t) \/ PromoteEntry(t) \/ ScheduleNextItem(t)
    BY <1>7 DEF SubmitPendingCallbacks, PromoteEntry, ScheduleNextItem
  <1>8. CASE IsEmpty(t) \/ ReadLists(t)
    BY <1>8 DEF IsEmpty, ReadLists, Answer
  <1> QED BY <1>2, <1>3, <1>4, <1>5, <1>6, <1>7, <1>8, UnmovedCancel
          DEF SubmitterStep, TimerStep

\* The suspends come and go without moving a termination.
LEMMA UnmovedSuspends ==
  ASSUME TypeInv, SuspendInv, TerminationInv, NEW t \in Terminators \cup Suspenders,
         \/ /\ t \in Suspenders
            /\ \/ \E c \in Contexts : SuspendTermination(t, c)
               \/ CallResumeTermination(t) \/ VerifySuspend(t)
         \/ RemoveSuspend(t) \/ AnnounceTermination(t)
  PROVE  Unmoved(t)
  <1>1. t \in Threads /\ (t \in Suspenders => t \notin Terminators)
    BY RolesAreDisjoint DEF Threads
  <1> USE <1>1 DEF TypeInv, LocalOK, TerminationInv, TokenInv, Unmoved, TermPlaces
  <1>2. ASSUME NEW c \in Contexts, t \in Suspenders, SuspendTermination(t, c)
        PROVE  Unmoved(t)
    BY <1>2 DEF SuspendTermination
  <1>3. CASE t \in Suspenders /\ (CallResumeTermination(t) \/ VerifySuspend(t))
    BY <1>3 DEF CallResumeTermination, VerifySuspend
  <1>4. CASE RemoveSuspend(t)
    BY <1>4 DEF RemoveSuspend, Carries
  <1>5. CASE AnnounceTermination(t)
    <2>1. after[t] \in {"resume", "idle"}
      BY <1>5 DEF AnnounceTermination, SuspendInv
    <2> QED BY <1>5, <2>1 DEF AnnounceTermination, Carries
  <1> QED BY <1>2, <1>3, <1>4, <1>5

\* In a new port nothing is terminated.
LEMMA TerminationInit == Init => TerminationInv
  <1> SUFFICES ASSUME Init PROVE TerminationInv
    OBVIOUS
  <1>1. ASSUME NEW k \in Terminations
        PROVE  Carried(k) = {} /\ InTerms(k) = {}
    BY DEF Init, Carried, InTerms, Threads
  <1>2. ASSUME NEW k \in Terminations
        PROVE  Cardinality(Carried(k)) = 0 /\ Cardinality(InTerms(k)) = 0
    BY <1>1, CardinalityStep
  <1>3. TerminationInOnePlace
    BY <1>2 DEF Init, TerminationInOnePlace, Count
  <1>4. TokenInv
    BY DEF Init, TokenInv, Threads
  <1> QED BY <1>3, <1>4 DEF TerminationInv

\* Every step keeps each token in its one place.
LEMMA TerminationNext ==
  TypeInv /\ SuspendInv /\ TerminationInv /\ [Next]_vars => TerminationInv'
  <1> SUFFICES ASSUME TypeInv, SuspendInv, TerminationInv, [Next]_vars
               PROVE  TerminationInv'
    OBVIOUS
  <1>1. ASSUME NEW t \in Dispatchers \cup Workers, Drain(t)
        PROVE  TerminationInv'
    BY <1>1, UnmovedDrain, TerminationUnmoved, MoveSignal, MoveDeliver DEF Threads
  <1>2. ASSUME NEW t \in Terminators \cup Suspenders, ResumeTermination(t)
        PROVE  TerminationInv'
    BY <1>2, UnmovedSuspends, TerminationUnmoved, MoveCollect, MoveSchedule
       DEF ResumeTermination, Threads
  <1>3. ASSUME NEW t \in Terminators,
               \/ \E k \in Terminations : PrepareTerminate(t, k)
               \/ CancelTermination(t) \/ TerminatorStep(t)
        PROVE  TerminationInv'
    BY <1>2, <1>3, UnmovedCancel, TerminationUnmoved, MovePrepare, MoveCancel, MoveTerminate,
       MoveSuspend, MovePark
       DEF TerminatorStep, Threads
  <1>4. ASSUME NEW t \in Suspenders,
               \/ \E c \in Contexts : SuspendTermination(t, c)
               \/ CallResumeTermination(t) \/ SuspenderStep(t)
        PROVE  TerminationInv'
    BY <1>2, <1>4, UnmovedSuspends, TerminationUnmoved DEF SuspenderStep, Threads
  <1>5. ASSUME NEW t \in Submitters \cup Dispatchers \cup Workers \cup Timers \cup Observers,
               \/ /\ t \in Submitters
                  /\ (\E i \in Items : QueueItem(t, i)) \/ OutOfMemory(t) \/ SubmitterStep(t)
               \/ t \in Dispatchers /\ (Dispatch(t) \/ TimeOut(t) \/ WaitStep(t))
               \/ /\ t \in Workers
                  /\ ProcessThreadPoolCallback(t) \/ EnterSerialized(t) \/ LeaveSerialized(t)
               \/ t \in Timers /\ (SubmitPendingCallbacks(t) \/ TimerStep(t))
               \/ t \in Observers /\ (IsEmpty(t) \/ ReadLists(t))
        PROVE  TerminationInv'
    BY <1>5, UnmovedRoles, TerminationUnmoved DEF Threads
  <1>6. ASSUME NEW i \in Delayed, Ripen(i)
        PROVE  TerminationInv'
    BY <1>6 DEF Ripen, TerminationInv, TokenInv, TerminationInOnePlace, Carried, InTerms, Count
  <1>7. CASE UNCHANGED vars
    BY <1>7 DEF vars, TerminationInv, TokenInv, TerminationInOnePlace, Carried, InTerms, Count
  <1> QED BY <1>1, <1>3, <1>4, <1>5, <1>6, <1>7 DEF Next, WorkerStep

LEMMA TerminationInvariant == Spec => []TerminationInv
  BY TypeInvariant, SuspendInvariant, TerminationInit, TerminationNext, PTL DEF Spec

\* No termination that was requested is lost between Terminate, the suspends, the
\* two lists and the drains, and none is called back twice.
THEOREM EveryTerminationInOnePlace == Spec => []TerminationInOnePlace
  <1>1. TerminationInv => TerminationInOnePlace
    BY DEF TerminationInv
  <1> QED BY <1>1, TerminationInvariant, PTL

-----------------------------------------------------------------------------
(* The lists.  Appending to a list adds one occurrence of the entry, and   *)
(* taking the head removes one, in a list as in the lists of all threads.  *)

\* An item occurs finitely often.
LEMMA SpotsAreFinite ==
  ASSUME NEW s \in Seq(Items), NEW i
  PROVE  IsFiniteSet(Spots(i, s)) /\ Occurrences(i, s) \in Nat
  <1>1. IsFiniteSet(1 .. Len(s)) /\ DOMAIN s = 1 .. Len(s)
    BY FS_Interval
  <1>2. IsFiniteSet(Spots(i, s))
    BY <1>1, FS_Subset DEF Spots
  <1> QED BY <1>2, FS_CardinalityType DEF Occurrences

LEMMA HandsAreFinite ==
  ASSUME NEW lists \in [Threads -> Seq(Items)], NEW i
  PROVE  IsFiniteSet(Hands(i, lists)) /\ InHand(i, lists) \in Nat
  <1>1. \A t \in Threads : IsFiniteSet({t} \X Spots(i, lists[t]))
    BY SpotsAreFinite, FS_Singleton, FS_Product
  <1>2. IsFiniteSet({{t} \X Spots(i, lists[t]) : t \in Threads})
    <2> DEFINE T == {{t} \X Spots(i, lists[t]) : t \in Threads}
               f == [t \in Threads |-> {t} \X Spots(i, lists[t])]
    <2>1. f \in Surjection(Threads, T)
      BY DEF Surjection
    <2> HIDE DEF T, f
    <2>2. IsFiniteSet(T)
      BY <2>1, PortAssumption, FS_Surjection
    <2> QED BY <2>2 DEF T
  <1>3. IsFiniteSet(Hands(i, lists))
    BY <1>1, <1>2, FS_UNION DEF Hands
  <1> QED BY <1>3, FS_CardinalityType DEF InHand

LEMMA OccurrencesAppend ==
  ASSUME NEW s \in Seq(Items), NEW x \in Items, NEW i
  PROVE  Occurrences(i, Append(s, x)) = Occurrences(i, s) + IF x = i THEN 1 ELSE 0
  <1>1. Len(s) + 1 \notin Spots(i, s)
    BY DEF Spots
  <1>2. Spots(i, Append(s, x)) = IF x = i THEN Spots(i, s) \cup {Len(s) + 1} ELSE Spots(i, s)
    BY DEF Spots
  <1>3. IsFiniteSet(Spots(i, s)) /\ Cardinality(Spots(i, s)) \in Nat
    BY SpotsAreFinite DEF Occurrences
  <1>4. Cardinality(Spots(i, s) \cup {Len(s) + 1}) = Cardinality(Spots(i, s)) + 1
    BY <1>1, <1>3, FS_AddElement
  <1> QED BY <1>2, <1>3, <1>4 DEF Occurrences

LEMMA OccurrencesTail ==
  ASSUME NEW s \in Seq(Items), s # <<>>, NEW i
  PROVE  /\ Occurrences(i, Tail(s)) = Occurrences(i, s) - IF Head(s) = i THEN 1 ELSE 0
         /\ Head(s) = i => Occurrences(i, s) > 0
  <1>1. Tail(s) \in Seq(Items) /\ Len(Tail(s)) = Len(s) - 1 /\ Len(s) \in Nat \ {0}
    OBVIOUS
  <1> DEFINE f == [n \in Spots(i, Tail(s)) |-> n + 1]
  <1>2. Spots(i, Tail(s)) \subseteq Nat
    BY <1>1 DEF Spots
  <1>3. f \in Bijection(Spots(i, Tail(s)), Spots(i, s) \ {1})
    <2>1. ASSUME NEW n \in Spots(i, Tail(s))
          PROVE  f[n] \in Spots(i, s) \ {1}
      BY <1>1 DEF Spots
    <2>2. ASSUME NEW n \in Spots(i, s) \ {1}
          PROVE  n - 1 \in Spots(i, Tail(s)) /\ f[n - 1] = n
      BY <1>1 DEF Spots
    <2>3. \A m, n \in Spots(i, Tail(s)) : f[m] = f[n] => m = n
      BY <1>2
    <2> HIDE DEF f
    <2> QED BY <2>1, <2>2, <2>3, Fun_IsBij DEF f
  <1>4. Cardinality(Spots(i, s) \ {1}) = Cardinality(Spots(i, Tail(s)))
    <2>1. ExistsBijection(Spots(i, Tail(s)), Spots(i, s) \ {1})
      BY <1>3, Fun_ExistsBij
    <2> QED BY <1>1, <2>1, SpotsAreFinite, FS_Bijection
  <1>5. 1 \in Spots(i, s) <=> Head(s) = i
    BY <1>1 DEF Spots
  <1>6. IsFiniteSet(Spots(i, s)) /\ Cardinality(Spots(i, s)) \in Nat
    BY SpotsAreFinite DEF Occurrences
  <1>7. Cardinality(Spots(i, Tail(s))) \in Nat
    BY <1>1, SpotsAreFinite DEF Occurrences
  <1>8. Cardinality(Spots(i, s) \ {1}) = IF Head(s) = i THEN Cardinality(Spots(i, s)) - 1
                                                     ELSE Cardinality(Spots(i, s))
    BY <1>5, <1>6, FS_RemoveElement
  <1> QED BY <1>4, <1>6, <1>7, <1>8 DEF Occurrences
\* One thread's list has grown by an entry, or shrunk by its head.
Grown(lists, more, t, x) ==
    /\ lists \in [Threads -> Seq(Items)] /\ more \in [Threads -> Seq(Items)]
    /\ more[t] = Append(lists[t], x)
    /\ \A u \in Threads \ {t} : more[u] = lists[u]

Shrunk(lists, less, t) ==
    /\ lists \in [Threads -> Seq(Items)] /\ less \in [Threads -> Seq(Items)]
    /\ lists[t] # <<>> /\ less[t] = Tail(lists[t])
    /\ \A u \in Threads \ {t} : less[u] = lists[u]

LEMMA InHandAppend ==
  ASSUME NEW lists, NEW more, NEW t \in Threads, NEW x \in Items,
         Grown(lists, more, t, x), NEW i
  PROVE  InHand(i, more) = InHand(i, lists) + IF x = i THEN 1 ELSE 0
  <1> DEFINE n == Len(lists[t]) + 1
  <1>1. /\ lists[t] \in Seq(Items) /\ more[t] = Append(lists[t], x)
        /\ \A u \in Threads \ {t} : more[u] = lists[u]
    BY DEF Grown
  <1>2. /\ n \notin Spots(i, lists[t])
        /\ Spots(i, more[t]) = IF x = i THEN Spots(i, lists[t]) \cup {n} ELSE Spots(i, lists[t])
    BY <1>1 DEF Spots
  <1> HIDE DEF n
  <1>3. /\ <<t, n>> \notin Hands(i, lists)
        /\ Hands(i, more) = IF x = i THEN Hands(i, lists) \cup {<<t, n>>} ELSE Hands(i, lists)
    <2>1. \A u \in Threads \ {t} : Spots(i, more[u]) = Spots(i, lists[u])
      BY <1>1
    <2> QED BY <1>2, <2>1 DEF Hands
  <1>4. IsFiniteSet(Hands(i, lists)) /\ Cardinality(Hands(i, lists)) \in Nat
    BY HandsAreFinite DEF InHand, Grown
  <1>5. Cardinality(Hands(i, lists) \cup {<<t, n>>}) = Cardinality(Hands(i, lists)) + 1
    BY <1>3, <1>4, FS_AddElement
  <1> QED BY <1>3, <1>4, <1>5 DEF InHand

LEMMA InHandTail ==
  ASSUME NEW lists, NEW less, NEW t \in Threads, Shrunk(lists, less, t), NEW i
  PROVE  /\ InHand(i, less) = InHand(i, lists) - IF Head(lists[t]) = i THEN 1 ELSE 0
         /\ Head(lists[t]) = i => InHand(i, lists) > 0
  <1> DEFINE step == [p \in Hands(i, less) |-> IF p[1] = t THEN <<t, p[2] + 1>> ELSE p]
  <1>1. /\ lists[t] \in Seq(Items) /\ Len(lists[t]) \in Nat \ {0}
        /\ Tail(lists[t]) \in Seq(Items) /\ Len(Tail(lists[t])) = Len(lists[t]) - 1
        /\ less[t] = Tail(lists[t])
        /\ \A u \in Threads \ {t} : less[u] = lists[u]
    BY DEF Shrunk
  <1>2. /\ \A n \in Spots(i, less[t]) : n \in Nat /\ n + 1 \in Spots(i, lists[t]) /\ n + 1 # 1
        /\ \A n \in Spots(i, lists[t]) \ {1} : n \in Nat /\ n - 1 \in Spots(i, less[t])
        /\ 1 \in Spots(i, lists[t]) <=> Head(lists[t]) = i
    BY <1>1 DEF Spots
  <1>3. \A p : p \in Hands(i, less) <=>
                  \E u \in Threads : \E n \in Spots(i, less[u]) : p = <<u, n>>
    BY DEF Hands
  <1>4. \A p : p \in Hands(i, lists) <=>
                  \E u \in Threads : \E n \in Spots(i, lists[u]) : p = <<u, n>>
    BY DEF Hands
  <1>5. step \in Bijection(Hands(i, less), Hands(i, lists) \ {<<t, 1>>})
    <2>1. ASSUME NEW p \in Hands(i, less)
          PROVE  step[p] \in Hands(i, lists) \ {<<t, 1>>}
      <3>1. PICK u \in Threads : \E n \in Spots(i, less[u]) : p = <<u, n>>
        BY <1>3
      <3> PICK n \in Spots(i, less[u]) : p = <<u, n>>
        BY <3>1
      <3>2. CASE u = t
        <4>1. <<t, n + 1>> \in Hands(i, lists) /\ n + 1 # 1
          BY <1>2, <1>4, <3>2
        <4> QED BY <3>2, <4>1
      <3>3. CASE u # t
        <4>1. p \in Hands(i, lists)
          BY <1>1, <1>4, <3>3
        <4> QED BY <3>3, <4>1
      <3> QED BY <3>2, <3>3
    <2>2. ASSUME NEW q \in Hands(i, lists) \ {<<t, 1>>}
          PROVE  \E p \in Hands(i, less) : step[p] = q
      <3>1. PICK u \in Threads : \E n \in Spots(i, lists[u]) : q = <<u, n>>
        BY <1>4
      <3> PICK n \in Spots(i, lists[u]) : q = <<u, n>>
        BY <3>1
      <3>2. CASE u = t
        <4>1. /\ n \in Nat /\ n - 1 \in Spots(i, less[t])
              /\ <<t, n - 1>> \in Hands(i, less) /\ <<t, (n - 1) + 1>> = q
          BY <1>2, <1>3, <3>2
        <4> QED BY <4>1
      <3>3. CASE u # t
        <4>1. q \in Hands(i, less)
          BY <1>1, <1>3, <3>3
        <4> QED BY <3>3, <4>1
      <3> QED BY <3>2, <3>3
    <2>3. \A p, q \in Hands(i, less) : step[p] = step[q] => p = q
      BY <1>2, <1>3
    <2> HIDE DEF step
    <2>4. step \in [Hands(i, less) -> Hands(i, lists) \ {<<t, 1>>}]
      BY <2>1 DEF step
    <2> QED BY <2>2, <2>3, <2>4, Fun_IsBij
  <1>6. Cardinality(Hands(i, lists) \ {<<t, 1>>}) = Cardinality(Hands(i, less))
    <2>1. ExistsBijection(Hands(i, less), Hands(i, lists) \ {<<t, 1>>})
      BY <1>5, Fun_ExistsBij
    <2> QED BY <2>1, HandsAreFinite, FS_Bijection DEF Shrunk
  <1>7. <<t, 1>> \in Hands(i, lists) <=> Head(lists[t]) = i
    BY <1>2, <1>4
  <1>8. /\ IsFiniteSet(Hands(i, lists)) /\ Cardinality(Hands(i, lists)) \in Nat
        /\ Cardinality(Hands(i, less)) \in Nat
    BY HandsAreFinite DEF InHand, Shrunk
  <1>9. Cardinality(Hands(i, lists) \ {<<t, 1>>})
          = IF Head(lists[t]) = i THEN Cardinality(Hands(i, lists)) - 1
                                  ELSE Cardinality(Hands(i, lists))
    BY <1>7, <1>8, FS_RemoveElement
  <1> QED BY <1>6, <1>8, <1>9 DEF InHand
\* The head of a thread's list is in hand.
LEMMA InHandHead ==
  ASSUME NEW lists \in [Threads -> Seq(Items)], NEW t \in Threads, lists[t] # <<>>
  PROVE  InHand(Head(lists[t]), lists) > 0
  <1> DEFINE i == Head(lists[t])
  <1>1. <<t, 1>> \in Hands(i, lists)
    <2>1. 1 \in Spots(i, lists[t])
      BY DEF Spots
    <2> HIDE DEF i
    <2> QED BY <2>1 DEF Hands
  <1>2. IsFiniteSet(Hands(i, lists)) /\ Cardinality(Hands(i, lists)) \in Nat
    BY HandsAreFinite DEF InHand
  <1> HIDE DEF i
  <1>3. Cardinality(Hands(i, lists)) # 0
    BY <1>1, <1>2, FS_EmptySet
  <1>4. InHand(i, lists) > 0
    BY <1>2, <1>3 DEF InHand
  <1> QED BY <1>4 DEF i

-----------------------------------------------------------------------------
(* The invariant.  A thread has entries in hand only inside remove_if and  *)
(* while it appends what that returned, so that no list in hand is ever    *)
(* overwritten; a submitter's entry is queueing until it is pushed, and no *)
(* other submitter has it; and only a submitter's own first entry travels  *)
(* outside m_queueList without a delay.                                    *)

HandOK ==
    \A t \in Threads :
       /\ taken[t] # <<>> =>
             pc[t] \in {"append", "notify", "cancelling", "promoting", "restore"}
       /\ retained[t] # <<>> => pc[t] \in {"cancelling", "promoting", "restore"}
       /\ pc[t] = "pend" => t \in Submitters

SubmitOK ==
    /\ \A t \in Submitters : item[t] # None =>
          /\ pc[t] \in {"idle", "pend", "append", "notify", "check"}
          /\ pc[t] \in {"pend", "append"} => outcome[item[t]] = "queueing"
          /\ pc[t] = "pend" => item[t] \in Delayed
          /\ pc[t] = "append" => item[t] \notin Delayed /\ taken[t] = <<item[t]>>
          /\ pc[t] = "notify" => taken[t] = <<>>
          /\ pc[t] \in {"append", "notify"} => after[t] = "check"
    /\ \A t, u \in Submitters :
          (/\ pc[t] \in {"pend", "append"} /\ pc[u] \in {"pend", "append"}
           /\ item[t] = item[u] /\ item[t] # None) => t = u

DelayedOK ==
    /\ pendingList \in Seq(Delayed)
    /\ \A t \in Threads :
          /\ retained[t] \in Seq(Delayed)
          /\ \/ taken[t] \in Seq(Delayed)
             \/ t \in Submitters /\ pc[t] = "append" /\ item[t] # None

\* The sum of ItemInOnePlace, and when it is one.
Whereabouts(i) ==
    Occurrences(i, queueList) + Occurrences(i, pendingList) + InHand(i, taken)
      + InHand(i, retained) + Cardinality(Calling(i)) + called[i]

Expected(i) ==
    IF outcome[i] = "accepted" \/ (outcome[i] = "queueing" /\ i \notin Delayed) THEN 1 ELSE 0

ItemInv == HandOK /\ SubmitOK /\ DelayedOK /\ ItemInOnePlace

\* Every count of the sum is a natural number, so that an item found in one place
\* is in no other.
LEMMA ItemCounts ==
  ASSUME TypeInv, ItemInOnePlace, NEW i \in Items
  PROVE  /\ Occurrences(i, queueList) \in Nat /\ Occurrences(i, pendingList) \in Nat
         /\ InHand(i, taken) \in Nat /\ InHand(i, retained) \in Nat
         /\ Cardinality(Calling(i)) \in Nat /\ called[i] \in Nat
         /\ Whereabouts(i) = Expected(i)
  <1>1. Occurrences(i, queueList) \in Nat /\ Occurrences(i, pendingList) \in Nat
    BY SpotsAreFinite DEF TypeInv, SharedOK
  <1>2. InHand(i, taken) \in Nat /\ InHand(i, retained) \in Nat
    BY HandsAreFinite DEF TypeInv, LocalOK
  <1>3. Cardinality(Calling(i)) \in Nat
    <2>1. Calling(i) \subseteq Threads
      BY DEF Calling
    <2> QED BY <2>1, PortAssumption, FS_Subset, FS_CardinalityType
  <1>4. Whereabouts(i) = Expected(i)
    BY DEF ItemInOnePlace, Whereabouts, Expected
  <1> QED BY <1>1, <1>2, <1>3, <1>4 DEF TypeInv, HistoryOK

\* How the number of callers changes when one thread joins or leaves.
LEMMA CallingStep ==
  ASSUME NEW i, NEW t \in Threads
  PROVE  /\ t \notin Calling(i) =>
               Cardinality(Calling(i) \cup {t}) = Cardinality(Calling(i)) + 1
         /\ t \in Calling(i) =>
               /\ Cardinality(Calling(i) \ {t}) = Cardinality(Calling(i)) - 1
               /\ Cardinality(Calling(i)) > 0
  <1>1. IsFiniteSet(Calling(i))
    <2>1. Calling(i) \subseteq Threads
      BY DEF Calling
    <2> QED BY <2>1, PortAssumption, FS_Subset
  <1>2. t \notin Calling(i) => Cardinality(Calling(i) \cup {t}) = Cardinality(Calling(i)) + 1
    BY <1>1, FS_AddElement
  <1>3. t \in Calling(i) => Cardinality(Calling(i) \ {t}) = Cardinality(Calling(i)) - 1
    BY <1>1, FS_RemoveElement
  <1>4. t \in Calling(i) => Cardinality(Calling(i)) > 0
    <2>1. Cardinality(Calling(i)) \in Nat /\ (Cardinality(Calling(i)) = 0 <=> Calling(i) = {})
      BY <1>1, FS_CardinalityType, FS_EmptySet
    <2> QED BY <2>1
  <1> QED BY <1>2, <1>3, <1>4

\* A sum that is as expected for every item is ItemInOnePlace.
LEMMA Accounted ==
  ASSUME \A i \in Items : Whereabouts(i)' = Expected(i)'
  PROVE  ItemInOnePlace'
  BY DEF ItemInOnePlace, Whereabouts, Expected

\* Steps that move no item
Still(t) ==
    /\ \A u \in Threads \ {t} : pc'[u] = pc[u] /\ after'[u] = after[u] /\ item'[u] = item[u]
    /\ UNCHANGED <<queueList, pendingList, taken, retained, outcome, called>>
    /\ pc[t] \notin {"call", "append"} /\ pc'[t] \notin {"call", "pend"}
    /\ taken[t] # <<>> => pc'[t] \in {"append", "notify", "cancelling", "promoting", "restore"}
    /\ retained[t] # <<>> => pc'[t] \in {"cancelling", "promoting", "restore"}
    /\ t \in Submitters =>
          (item'[t] # None => item'[t] = item[t] /\ pc'[t] \in {"idle", "check"})

LEMMA ItemStill ==
  ASSUME TypeInv, ItemInv, NEW t \in Threads, Still(t)
  PROVE  ItemInv'
  <1>1. \A i \in Items : Calling(i)' = Calling(i)
    BY DEF Calling, Still
  <1>2. ItemInOnePlace'
    BY <1>1 DEF ItemInv, ItemInOnePlace, Still
  <1>3. HandOK'
    BY DEF ItemInv, HandOK, Still
  <1>4. SubmitOK'
    BY DEF ItemInv, SubmitOK, Still, Threads
  <1>5. DelayedOK'
    BY DEF ItemInv, DelayedOK, Still
  <1> QED BY <1>2, <1>3, <1>4, <1>5 DEF ItemInv
-----------------------------------------------------------------------------
(* The steps that move an item: for every item the sum stays, or becomes   *)
(* one when the item comes into a list or into the submitter's hands.      *)

\* QueueItem takes an entry nobody has queued into hand, or refuses it.
LEMMA ItemQueue ==
  ASSUME TypeInv, ItemInv, NEW t \in Submitters, NEW i \in Items, QueueItem(t, i)
  PROVE  ItemInv'
  <1>1. t \in Threads /\ i # None
    BY PortAssumption DEF Threads
  <1>2. /\ pc[t] = "idle" /\ outcome[i] = "none" /\ taken[t] = <<>> /\ retained[t] = <<>>
        /\ outcome' = [outcome EXCEPT ![i] = IF IsTerminated(ItemContext[i])
                                             THEN "refused" ELSE "queueing"]
        /\ UNCHANGED <<queueList, pendingList, retained, called>>
    BY <1>1 DEF QueueItem, ItemInv, HandOK
  <1>3. \A j \in Items \ {i} : outcome'[j] = outcome[j]
    BY <1>2 DEF TypeInv, HistoryOK
  <1>4. \A u \in Submitters : (item[u] # None /\ pc[u] \in {"pend", "append"}) =>
            outcome'[item[u]] = outcome[item[u]]
    BY <1>2, <1>3 DEF ItemInv, SubmitOK, TypeInv, LocalOK, Threads
  <1>5. CASE IsTerminated(ItemContext[i])
    <2>1. UNCHANGED <<pc, after, item, taken>>
      BY <1>5 DEF QueueItem
    <2>2. ASSUME NEW j \in Items
          PROVE  Whereabouts(j)' = Expected(j)'
      <3>1. Calling(j)' = Calling(j)
        BY <2>1 DEF Calling
      <3>2. Expected(j)' = Expected(j)
        BY <1>2, <1>3, <1>5 DEF Expected, TypeInv, HistoryOK
      <3> QED BY <1>2, <2>1, <3>1, <3>2, ItemCounts DEF ItemInv, Whereabouts
    <2>3. HandOK' /\ DelayedOK'
      BY <1>2, <2>1 DEF ItemInv, HandOK, DelayedOK
    <2>4. SubmitOK'
      BY <1>2, <1>4, <2>1 DEF ItemInv, SubmitOK
    <2> QED BY <2>2, <2>3, <2>4, Accounted DEF ItemInv
  <1>6. CASE ~IsTerminated(ItemContext[i])
    <2>1. /\ pc'[t] = (IF i \in Delayed THEN "pend" ELSE "append")
          /\ after'[t] = "check" /\ item'[t] = i
          /\ taken' = [taken EXCEPT ![t] = IF i \in Delayed THEN <<>> ELSE Append(taken[t], i)]
          /\ \A u \in Threads \ {t} :
                pc'[u] = pc[u] /\ after'[u] = after[u] /\ item'[u] = item[u]
      BY <1>1, <1>2, <1>6 DEF QueueItem, TypeInv, LocalOK, ControlOK
    <2>2. outcome'[i] = "queueing"
      BY <1>2, <1>6 DEF TypeInv, HistoryOK
    <2>3. ASSUME NEW j \in Items
          PROVE  Whereabouts(j)' = Expected(j)'
      <3>1. Calling(j)' = Calling(j)
        BY <1>1, <1>2, <2>1 DEF Calling
      <3>2. CASE i \in Delayed
        <4>1. taken' = taken
          BY <1>1, <1>2, <2>1, <3>2 DEF TypeInv, LocalOK
        <4>2. Expected(j)' = Expected(j)
          BY <1>2, <1>3, <2>2, <3>2 DEF Expected
        <4> QED BY <1>2, <3>1, <4>1, <4>2, ItemCounts DEF ItemInv, Whereabouts
      <3>3. CASE i \notin Delayed
        <4>1. InHand(j, taken)' = InHand(j, taken) + IF i = j THEN 1 ELSE 0
          <5>1. Grown(taken, taken', t, i)
            BY <1>1, <2>1, <3>3 DEF TypeInv, LocalOK, Grown
          <5> QED BY <1>1, <5>1, InHandAppend
        <4>2. Expected(j)' = Expected(j) + IF i = j THEN 1 ELSE 0
          BY <1>2, <1>3, <2>2, <3>3 DEF Expected
        <4>3. UNCHANGED <<queueList, pendingList, retained, called>>
          BY <1>2
        <4> QED BY <3>1, <4>1, <4>2, <4>3, ItemCounts DEF ItemInv, Whereabouts
      <3> QED BY <3>2, <3>3
    <2>4. taken'[t] = (IF i \in Delayed THEN <<>> ELSE <<i>>)
          /\ \A u \in Threads \ {t} : taken'[u] = taken[u]
      BY <1>1, <1>2, <2>1 DEF TypeInv, LocalOK
    <2>5. HandOK' /\ DelayedOK'
      BY <1>1, <1>2, <2>1, <2>4 DEF ItemInv, HandOK, DelayedOK
    <2>6. SubmitOK'
      BY <1>1, <1>2, <1>4, <2>1, <2>2, <2>4 DEF ItemInv, SubmitOK, Threads
    <2> QED BY <2>3, <2>5, <2>6, Accounted DEF ItemInv
  <1> QED BY <1>5, <1>6
\* OutOfMemory gives the entry up again.
LEMMA ItemGiveUp ==
  ASSUME TypeInv, ItemInv, NEW t \in Submitters, OutOfMemory(t)
  PROVE  ItemInv'
  <1> DEFINE i == item[t]
  <1>1. /\ t \in Threads /\ i \in Items /\ i # None
        /\ pc[t] \in {"pend", "append"} /\ pc'[t] = "idle"
        /\ outcome[i] = "queueing" /\ outcome'[i] = "refused"
        /\ \A j \in Items \ {i} : outcome'[j] = outcome[j]
        /\ taken' = [taken EXCEPT ![t] = <<>>]
        /\ \A u \in Threads \ {t} : pc'[u] = pc[u]
        /\ UNCHANGED <<after, item, queueList, pendingList, retained, called>>
    BY DEF Threads, OutOfMemory, TypeInv, LocalOK, HistoryOK
  <1>2. /\ taken[t] = IF i \in Delayed THEN <<>> ELSE <<i>>
        /\ retained[t] = <<>>
    BY <1>1 DEF ItemInv, SubmitOK, HandOK
  <1>3. taken'[t] = <<>> /\ \A u \in Threads \ {t} : taken'[u] = taken[u]
    BY <1>1 DEF TypeInv, LocalOK
  <1>4. ASSUME NEW j \in Items
        PROVE  InHand(j, taken)' = InHand(j, taken)
                                     - IF j = i /\ i \notin Delayed THEN 1 ELSE 0
    <2>1. CASE i \in Delayed
      <3>1. taken' = taken
        BY <1>1, <1>2, <2>1 DEF TypeInv, LocalOK
      <3> QED BY <2>1, <3>1, ItemCounts DEF ItemInv
    <2>2. CASE i \notin Delayed
      <3>1. Head(taken[t]) = i /\ Shrunk(taken, taken', t)
        BY <1>1, <1>2, <1>3, <2>2 DEF Shrunk, TypeInv, LocalOK
      <3> HIDE DEF i
      <3> QED BY <1>1, <2>2, <3>1, InHandTail
    <2> QED BY <2>1, <2>2
  <1> HIDE DEF i
  <1>5. ASSUME NEW j \in Items
        PROVE  Whereabouts(j)' = Expected(j)'
    <2>1. Calling(j)' = Calling(j)
      BY <1>1 DEF Calling
    <2>2. Expected(j)' = Expected(j) - IF j = i /\ i \notin Delayed THEN 1 ELSE 0
      BY <1>1 DEF Expected
    <2>3. UNCHANGED <<queueList, pendingList, retained, called>>
      BY <1>1
    <2> QED BY <1>4, <2>1, <2>2, <2>3, ItemCounts DEF ItemInv, Whereabouts
  <1>6. HandOK' /\ DelayedOK'
    BY <1>1, <1>2, <1>3 DEF ItemInv, HandOK, DelayedOK
  <1>7. SubmitOK'
    <2>1. ASSUME NEW u \in Submitters \ {t}, item[u] # None, pc[u] \in {"pend", "append"}
          PROVE  outcome'[item[u]] = outcome[item[u]]
      <3>1. item[u] # i
        BY <1>1, <2>1 DEF ItemInv, SubmitOK, i
      <3> QED BY <1>1, <2>1, <3>1 DEF TypeInv, LocalOK, Threads
    <2> QED BY <1>1, <1>3, <2>1 DEF ItemInv, SubmitOK, Threads
  <1> QED BY <1>5, <1>6, <1>7, Accounted DEF ItemInv

\* PushPending puts a delayed entry in the pending list.
LEMMA ItemPushPending ==
  ASSUME TypeInv, ItemInv, NEW t \in Submitters, PushPending(t)
  PROVE  ItemInv'
  <1> DEFINE i == item[t]
  <1>1. /\ t \in Threads /\ i \in Items /\ i # None /\ i \in Delayed
        /\ pc[t] = "pend" /\ pc'[t] = "check" /\ taken[t] = <<>> /\ retained[t] = <<>>
        /\ outcome[i] = "queueing" /\ outcome'[i] = "accepted"
        /\ \A j \in Items \ {i} : outcome'[j] = outcome[j]
        /\ pendingList' = Append(pendingList, i)
        /\ \A u \in Threads \ {t} : pc'[u] = pc[u]
        /\ UNCHANGED <<after, item, queueList, taken, retained, called>>
    <2>1. t \in Threads /\ pc[t] = "pend" /\ i \in Items /\ i # None
      BY PortAssumption DEF Threads, PushPending, TypeInv, ControlOK
    <2>2. i \in Delayed /\ outcome[i] = "queueing" /\ taken[t] = <<>> /\ retained[t] = <<>>
      BY <2>1 DEF ItemInv, SubmitOK, HandOK
    <2> QED BY <2>1, <2>2 DEF PushPending, TypeInv, LocalOK, HistoryOK
  <1>2. ASSUME NEW j \in Items
        PROVE  Whereabouts(j)' = Expected(j)'
    <2>1. Calling(j)' = Calling(j)
      BY <1>1 DEF Calling
    <2>2. Expected(j)' = Expected(j) + IF i = j THEN 1 ELSE 0
      BY <1>1 DEF Expected
    <2>3. Occurrences(j, pendingList)' = Occurrences(j, pendingList) + IF i = j THEN 1 ELSE 0
      <3> HIDE DEF i
      <3> QED BY <1>1, OccurrencesAppend DEF TypeInv, SharedOK
    <2>4. UNCHANGED <<queueList, taken, retained, called>>
      BY <1>1
    <2> HIDE DEF i
    <2> QED BY <2>1, <2>2, <2>3, <2>4, ItemCounts DEF ItemInv, Whereabouts
  <1>3. HandOK'
    BY <1>1 DEF ItemInv, HandOK
  <1>4. DelayedOK'
    BY <1>1 DEF ItemInv, DelayedOK
  <1>5. SubmitOK'
    <2>1. ASSUME NEW u \in Submitters \ {t}, item[u] # None, pc[u] \in {"pend", "append"}
          PROVE  outcome'[item[u]] = outcome[item[u]]
      <3>1. item[u] # i
        BY <1>1, <2>1 DEF ItemInv, SubmitOK
      <3> QED BY <1>1, <2>1, <3>1 DEF TypeInv, LocalOK, Threads
    <2> QED BY <1>1, <2>1 DEF ItemInv, SubmitOK, Threads
  <1> QED BY <1>2, <1>3, <1>4, <1>5, Accounted DEF ItemInv
\* AppendEntry moves the first entry in hand to the queue.
LEMMA ItemAppend ==
  ASSUME TypeInv, ItemInv, NEW t \in Threads, AppendEntry(t)
  PROVE  ItemInv'
  <1> DEFINE i == Head(taken[t])
  <1>1. /\ i \in Items /\ taken[t] # <<>>
        /\ pc[t] = "append" /\ pc'[t] = "notify" /\ retained[t] = <<>>
        /\ outcome'[i] = "accepted"
        /\ \A j \in Items \ {i} : outcome'[j] = outcome[j]
        /\ queueList' = Append(queueList, i)
        /\ taken' = [taken EXCEPT ![t] = Tail(taken[t])]
        /\ \A u \in Threads \ {t} : pc'[u] = pc[u]
        /\ UNCHANGED <<after, item, pendingList, retained, called>>
    <2>1. taken[t] # <<>> /\ pc[t] = "append" /\ retained[t] = <<>>
      BY DEF AppendEntry, TypeInv, ControlOK, ItemInv, HandOK
    <2>2. i \in Items
      BY <2>1, HeadTail DEF TypeInv, LocalOK
    <2> HIDE DEF i
    <2> QED BY <2>1, <2>2 DEF AppendEntry, TypeInv, LocalOK, HistoryOK, i
  <1>2. /\ taken \in [Threads -> Seq(Items)] /\ taken' \in [Threads -> Seq(Items)]
        /\ taken'[t] = Tail(taken[t]) /\ \A u \in Threads \ {t} : taken'[u] = taken[u]
        /\ Shrunk(taken, taken', t)
    <2>1. Tail(taken[t]) \in Seq(Items)
      BY <1>1, HeadTail DEF TypeInv, LocalOK
    <2> QED BY <1>1, <2>1 DEF TypeInv, LocalOK, Shrunk
  <1>3. \A j : InHand(j, taken') = InHand(j, taken) - IF i = j THEN 1 ELSE 0
    BY <1>2, InHandTail
  <1>4. InHand(i, taken) > 0
    BY <1>1, <1>2, InHandHead
  <1> HIDE DEF i
  <1>5. Expected(i) = 1
    <2>1. /\ Occurrences(i, queueList) \in Nat /\ Occurrences(i, pendingList) \in Nat
          /\ InHand(i, taken) \in Nat /\ InHand(i, retained) \in Nat
          /\ Cardinality(Calling(i)) \in Nat /\ called[i] \in Nat
          /\ Whereabouts(i) = Expected(i)
      BY <1>1, ItemCounts DEF ItemInv
    <2>2. Whereabouts(i) > 0
      BY <1>4, <2>1 DEF Whereabouts
    <2>3. Expected(i) \in {0, 1}
      BY DEF Expected
    <2> QED BY <2>1, <2>2, <2>3
  <1>6. ASSUME NEW j \in Items
        PROVE  Whereabouts(j)' = Expected(j)'
    <2>1. Calling(j)' = Calling(j)
      BY <1>1 DEF Calling
    <2>2. Expected(j)' = Expected(j)
      BY <1>1, <1>5 DEF Expected
    <2>3. Occurrences(j, queueList)' = Occurrences(j, queueList) + IF i = j THEN 1 ELSE 0
      BY <1>1, OccurrencesAppend DEF TypeInv, SharedOK
    <2>4. InHand(j, taken)' = InHand(j, taken) - IF i = j THEN 1 ELSE 0
      BY <1>3
    <2>5. UNCHANGED <<pendingList, retained, called>>
      BY <1>1
    <2> QED BY <2>1, <2>2, <2>3, <2>4, <2>5, ItemCounts DEF ItemInv, Whereabouts
  <1>7. HandOK'
    BY <1>1, <1>2 DEF ItemInv, HandOK
  <1>8. t \in Submitters /\ item[t] # None => taken'[t] = <<>> /\ after[t] = "check"
    BY <1>1, <1>2 DEF ItemInv, SubmitOK
  <1>9. DelayedOK'
    <2>1. taken'[t] \in Seq(Delayed)
      <3>1. CASE taken[t] \in Seq(Delayed)
        BY <1>1, <1>2, <3>1, HeadTail
      <3>2. CASE taken[t] \notin Seq(Delayed)
        <4>1. t \in Submitters /\ item[t] # None
          BY <3>2 DEF ItemInv, DelayedOK
        <4>2. taken'[t] = <<>>
          BY <1>8, <4>1
        <4> QED BY <4>2
      <3> QED BY <3>1, <3>2
    <2> QED BY <1>1, <1>2, <2>1 DEF ItemInv, DelayedOK
  <1>10. SubmitOK'
    <2>1. ASSUME NEW u \in Submitters \ {t}, item[u] # None, pc[u] \in {"pend", "append"}
          PROVE  outcome'[item[u]] = outcome[item[u]] /\ taken'[u] = taken[u]
      <3>1. /\ u \in Threads /\ item[u] \in Items /\ outcome[item[u]] = "queueing"
            /\ taken'[u] = taken[u]
        BY <1>2, <2>1 DEF Threads, TypeInv, LocalOK, ItemInv, SubmitOK
      <3>2. item[u] # i
        <4>1. CASE pc[u] = "pend"
          <5>1. Expected(item[u]) = 0
            BY <2>1, <3>1, <4>1 DEF ItemInv, SubmitOK, Expected
          <5> QED BY <1>5, <5>1
        <4>2. CASE pc[u] = "append"
          <5>1. taken'[u] = <<item[u]>>
            BY <2>1, <3>1, <4>2 DEF ItemInv, SubmitOK
          <5>2. InHand(item[u], taken') > 0
            <6>1. taken'[u] # <<>> /\ Head(taken'[u]) = item[u]
              BY <5>1
            <6>2. InHand(Head(taken'[u]), taken') > 0
              BY <1>2, <3>1, <6>1, InHandHead
            <6> QED BY <6>1, <6>2
          <5>3. InHand(i, taken') = 0
            <6>1. /\ InHand(i, taken) \in Nat /\ Whereabouts(i) = 1
                  /\ Occurrences(i, queueList) \in Nat /\ Occurrences(i, pendingList) \in Nat
                  /\ InHand(i, retained) \in Nat /\ Cardinality(Calling(i)) \in Nat
                  /\ called[i] \in Nat
              BY <1>1, <1>5, ItemCounts DEF ItemInv
            <6>2. InHand(i, taken) = 1
              BY <1>4, <6>1 DEF Whereabouts
            <6> QED BY <1>3, <6>2
          <5> QED BY <5>2, <5>3
        <4> QED BY <2>1, <4>1, <4>2
      <3> QED BY <1>1, <3>1, <3>2
    <2> QED BY <1>1, <1>8, <2>1 DEF ItemInv, SubmitOK, Threads
  <1> QED BY <1>6, <1>7, <1>9, <1>10, Accounted DEF ItemInv

\* remove_if takes the first pending entry into hand, to be appended or kept.
LEMMA ItemTake ==
  ASSUME TypeInv, ItemInv, NEW t \in Threads, CancelEntry(t) \/ PromoteEntry(t)
  PROVE  ItemInv'
  <1> DEFINE i == Head(pendingList)
  <1>1. /\ i \in Items /\ i \in Delayed /\ Tail(pendingList) \in Seq(Delayed)
    <2>1. pendingList # <<>> /\ pendingList \in Seq(Delayed)
      BY DEF CancelEntry, PromoteEntry, ItemInv, DelayedOK
    <2> QED BY <2>1, HeadTail, PortAssumption
  <1>2. /\ pendingList # <<>> /\ pendingList' = Tail(pendingList)
        /\ pc[t] \in {"cancelling", "promoting"}
        /\ UNCHANGED <<pc, after, item, queueList, outcome, called>>
        /\ \/ taken' = [taken EXCEPT ![t] = Append(taken[t], i)] /\ retained' = retained
           \/ retained' = [retained EXCEPT ![t] = Append(retained[t], i)] /\ taken' = taken
    BY DEF CancelEntry, PromoteEntry
  <1> HIDE DEF i
  <1>3. taken[t] \in Seq(Delayed) /\ retained[t] \in Seq(Delayed)
    BY <1>2 DEF ItemInv, DelayedOK
  <1>4. \/ Grown(taken, taken', t, i) /\ retained' = retained
        \/ Grown(retained, retained', t, i) /\ taken' = taken
    <2>1. Append(taken[t], i) \in Seq(Items) /\ Append(retained[t], i) \in Seq(Items)
      BY <1>1 DEF TypeInv, LocalOK
    <2> QED BY <1>2, <2>1 DEF TypeInv, LocalOK, Grown
  <1>5. ASSUME NEW j \in Items
        PROVE  Whereabouts(j)' = Expected(j)'
    <2>1. Calling(j)' = Calling(j) /\ Expected(j)' = Expected(j)
      BY <1>2 DEF Calling, Expected
    <2>2. Occurrences(j, pendingList)' = Occurrences(j, pendingList) - IF i = j THEN 1 ELSE 0
      BY <1>2, OccurrencesTail DEF TypeInv, SharedOK, i
    <2>3. InHand(j, taken)' + InHand(j, retained)'
            = InHand(j, taken) + InHand(j, retained) + IF i = j THEN 1 ELSE 0
      <3>1. CASE Grown(taken, taken', t, i) /\ retained' = retained
        <4>1. InHand(j, taken') = InHand(j, taken) + IF i = j THEN 1 ELSE 0
          BY <1>1, <3>1, InHandAppend
        <4> QED BY <3>1, <4>1, ItemCounts DEF ItemInv
      <3>2. CASE Grown(retained, retained', t, i) /\ taken' = taken
        <4>1. InHand(j, retained') = InHand(j, retained) + IF i = j THEN 1 ELSE 0
          BY <1>1, <3>2, InHandAppend
        <4> QED BY <3>2, <4>1, ItemCounts DEF ItemInv
      <3> QED BY <1>4, <3>1, <3>2
    <2>4. UNCHANGED <<queueList, called>>
      BY <1>2
    <2>5. InHand(j, taken)' \in Nat /\ InHand(j, retained)' \in Nat
      <3>1. taken' \in [Threads -> Seq(Items)] /\ retained' \in [Threads -> Seq(Items)]
        BY <1>4 DEF Grown, TypeInv, LocalOK
      <3> QED BY <3>1, HandsAreFinite
    <2> QED BY <2>1, <2>2, <2>3, <2>4, <2>5, ItemCounts DEF ItemInv, Whereabouts
  <1>6. HandOK'
    BY <1>2, <1>4 DEF ItemInv, HandOK, Grown
  <1>7. t \in Submitters => item[t] = None
    BY <1>2 DEF ItemInv, SubmitOK
  <1>8. DelayedOK'
    <2>1. taken'[t] \in Seq(Delayed) /\ retained'[t] \in Seq(Delayed)
      <3>1. Append(taken[t], i) \in Seq(Delayed) /\ Append(retained[t], i) \in Seq(Delayed)
        BY <1>1, <1>3
      <3> QED BY <1>3, <1>4, <3>1 DEF Grown
    <2>2. \A u \in Threads \ {t} : taken'[u] = taken[u] /\ retained'[u] = retained[u]
      BY <1>4 DEF Grown
    <2> QED BY <1>1, <1>2, <2>1, <2>2 DEF ItemInv, DelayedOK
  <1>9. SubmitOK'
    BY <1>2, <1>4, <1>7 DEF ItemInv, SubmitOK, Grown, Threads
  <1> QED BY <1>5, <1>6, <1>8, <1>9, Accounted DEF ItemInv

\* RestoreEntry puts a kept entry back.
LEMMA ItemRestore ==
  ASSUME TypeInv, ItemInv, NEW t \in Threads, RestoreEntry(t)
  PROVE  ItemInv'
  <1> DEFINE i == Head(retained[t])
  <1>1. /\ pc[t] = "restore" /\ retained[t] # <<>>
        /\ pendingList' = Append(pendingList, i)
        /\ retained' = [retained EXCEPT ![t] = Tail(retained[t])]
        /\ UNCHANGED <<pc, after, item, queueList, taken, outcome, called>>
    BY DEF RestoreEntry
  <1>2. /\ i \in Delayed /\ Tail(retained[t]) \in Seq(Delayed)
        /\ i \in Items /\ Tail(retained[t]) \in Seq(Items)
    <2>1. retained[t] \in Seq(Delayed) /\ retained[t] \in Seq(Items)
      BY DEF ItemInv, DelayedOK, TypeInv, LocalOK
    <2> QED BY <1>1, <2>1, HeadTail
  <1>3. Shrunk(retained, retained', t)
    BY <1>1, <1>2 DEF Shrunk, TypeInv, LocalOK
  <1>4. \A j : InHand(j, retained') = InHand(j, retained) - IF i = j THEN 1 ELSE 0
    BY <1>3, InHandTail
  <1> HIDE DEF i
  <1>5. ASSUME NEW j \in Items
        PROVE  Whereabouts(j)' = Expected(j)'
    <2>1. Calling(j)' = Calling(j) /\ Expected(j)' = Expected(j)
      BY <1>1 DEF Calling, Expected
    <2>2. Occurrences(j, pendingList)' = Occurrences(j, pendingList) + IF i = j THEN 1 ELSE 0
      BY <1>1, <1>2, OccurrencesAppend DEF TypeInv, SharedOK
    <2>3. InHand(j, retained)' = InHand(j, retained) - IF i = j THEN 1 ELSE 0
      BY <1>4
    <2>4. UNCHANGED <<queueList, taken, called>>
      BY <1>1
    <2> QED BY <2>1, <2>2, <2>3, <2>4, ItemCounts DEF ItemInv, Whereabouts
  <1>6. HandOK' /\ SubmitOK'
    BY <1>1, <1>3 DEF ItemInv, HandOK, SubmitOK, Shrunk
  <1>7. DelayedOK'
    <2>1. pendingList' \in Seq(Delayed)
      BY <1>1, <1>2 DEF ItemInv, DelayedOK
    <2>2. \A u \in Threads : retained'[u] \in Seq(Delayed)
      BY <1>1, <1>2, <1>3 DEF ItemInv, DelayedOK, Shrunk
    <2> QED BY <1>1, <2>1, <2>2 DEF ItemInv, DelayedOK
  <1> QED BY <1>5, <1>6, <1>7, Accounted DEF ItemInv

\* PopFront moves the first entry of the queue to the thread that calls it.
LEMMA ItemPop ==
  ASSUME TypeInv, ItemInv, NEW t \in Dispatchers \cup Workers, PopFront(t)
  PROVE  ItemInv'
  <1>1. t \in Threads /\ t \notin Submitters /\ taken[t] = <<>> /\ retained[t] = <<>>
    BY RolesAreDisjoint DEF Threads, PopFront, ItemInv, HandOK
  <1>2. CASE queueList = <<>>
    <2>1. Still(t)
      BY <1>1, <1>2 DEF PopFront, Still, TypeInv, LocalOK
    <2> QED BY <1>1, <2>1, ItemStill
  <1>3. CASE queueList # <<>>
    <2> DEFINE i == Head(queueList)
    <2>1. i \in Items
      BY <1>3, HeadTail DEF TypeInv, SharedOK
    <2>2. /\ pc[t] = "pop" /\ pc'[t] = "call" /\ item'[t] = i
          /\ queueList' = Tail(queueList)
          /\ \A u \in Threads \ {t} : pc'[u] = pc[u] /\ item'[u] = item[u]
          /\ UNCHANGED <<after, pendingList, taken, retained, outcome, called>>
      BY <1>1, <1>3 DEF PopFront, TypeInv, LocalOK
    <2> HIDE DEF i
    <2>3. ASSUME NEW j \in Items
          PROVE  Whereabouts(j)' = Expected(j)'
      <3>1. /\ t \notin Calling(j)
            /\ Calling(j)' = IF i = j THEN Calling(j) \cup {t} ELSE Calling(j)
        BY <1>1, <2>2 DEF Calling
      <3>2. Cardinality(Calling(j)') = Cardinality(Calling(j)) + IF i = j THEN 1 ELSE 0
        <4>1. Cardinality(Calling(j)) \in Nat
          BY ItemCounts DEF ItemInv
        <4> QED BY <1>1, <3>1, <4>1, CallingStep
      <3>3. Occurrences(j, queueList)' = Occurrences(j, queueList) - IF i = j THEN 1 ELSE 0
        BY <1>3, <2>2, OccurrencesTail DEF TypeInv, SharedOK, i
      <3>4. Expected(j)' = Expected(j) /\ UNCHANGED <<pendingList, taken, retained, called>>
        BY <2>2 DEF Expected
      <3> QED BY <3>2, <3>3, <3>4, ItemCounts DEF ItemInv, Whereabouts
    <2>4. HandOK' /\ SubmitOK'
      BY <1>1, <2>2 DEF ItemInv, HandOK, SubmitOK, Threads
    <2>5. DelayedOK'
      BY <1>1, <2>2 DEF ItemInv, DelayedOK
    <2> QED BY <2>3, <2>4, <2>5, Accounted DEF ItemInv
  <1> QED BY <1>2, <1>3

\* InvokeCallback calls it.
LEMMA ItemInvoke ==
  ASSUME TypeInv, ItemInv, NEW t \in Dispatchers \cup Workers, InvokeCallback(t)
  PROVE  ItemInv'
  <1> DEFINE i == item[t]
  <1>1. /\ t \in Threads /\ t \notin Submitters /\ pc[t] = "call" /\ i \in Items
        /\ i # None /\ taken[t] = <<>> /\ retained[t] = <<>>
    BY RolesAreDisjoint, PortAssumption
    DEF Threads, InvokeCallback, TypeInv, ControlOK, ItemInv, HandOK
  <1>2. /\ pc'[t] = "uncount" /\ item'[t] = None
        /\ called'[i] = called[i] + 1 /\ \A j \in Items \ {i} : called'[j] = called[j]
        /\ \A u \in Threads \ {t} : pc'[u] = pc[u] /\ item'[u] = item[u]
        /\ UNCHANGED <<after, queueList, pendingList, taken, retained, outcome>>
    BY <1>1 DEF InvokeCallback, TypeInv, LocalOK, HistoryOK
  <1>3. /\ \A j : Calling(j)' = IF i = j THEN Calling(j) \ {t} ELSE Calling(j)
        /\ t \in Calling(i)
    BY <1>1, <1>2 DEF Calling
  <1> HIDE DEF i
  <1>4. ASSUME NEW j \in Items
        PROVE  Whereabouts(j)' = Expected(j)'
    <2>1. Cardinality(Calling(j)') = Cardinality(Calling(j)) - IF i = j THEN 1 ELSE 0
      <3>1. Cardinality(Calling(j)) \in Nat
        BY ItemCounts DEF ItemInv
      <3> QED BY <1>1, <1>3, <3>1, CallingStep
    <2>2. called'[j] = called[j] + IF i = j THEN 1 ELSE 0
      BY <1>2, ItemCounts DEF ItemInv
    <2>3. Expected(j)' = Expected(j) /\ UNCHANGED <<queueList, pendingList, taken, retained>>
      BY <1>2 DEF Expected
    <2> QED BY <2>1, <2>2, <2>3, ItemCounts DEF ItemInv, Whereabouts
  <1>5. HandOK' /\ SubmitOK'
    BY <1>1, <1>2 DEF ItemInv, HandOK, SubmitOK, Threads
  <1>6. DelayedOK'
    BY <1>1, <1>2 DEF ItemInv, DelayedOK
  <1> QED BY <1>4, <1>5, <1>6, Accounted DEF ItemInv

-----------------------------------------------------------------------------
(* All other steps leave the items where they are.                         *)

\* The locking, the ends of the loops, and the notification of an appended entry
LEMMA StillCancel ==
  ASSUME TypeInv, ItemInv, NEW t \in Threads,
         LockPending(t) \/ EndOfPending(t) \/ UnlockPending(t) \/ NotifyEntry(t)
  PROVE  Still(t)
  <1>1. CASE LockPending(t)
    <2>1. /\ pc[t] \in {"cancel", "promote"} /\ pc'[t] \in {"cancelling", "promoting"}
          /\ \A u \in Threads \ {t} : pc'[u] = pc[u]
          /\ UNCHANGED <<after, item, queueList, pendingList, taken, retained, outcome, called>>
      BY <1>1 DEF LockPending, TypeInv, LocalOK
    <2>2. t \in Submitters => item[t] = None
      BY <2>1 DEF ItemInv, SubmitOK
    <2> QED BY <2>1, <2>2 DEF Still
  <1> USE DEF TypeInv, LocalOK, ControlOK, ItemInv, HandOK, SubmitOK, Still
  <1>2. CASE EndOfPending(t)
    BY <1>2 DEF EndOfPending
  <1>3. CASE UnlockPending(t)
    BY <1>3 DEF UnlockPending
  <1>4. CASE NotifyEntry(t)
    BY <1>4 DEF NotifyEntry
  <1> QED BY <1>1, <1>2, <1>3, <1>4

\* A drain moves an item when it pops and calls it.
LEMMA StillDrain ==
  ASSUME TypeInv, ItemInv, NEW t \in Dispatchers \cup Workers, Drain(t),
         ~PopFront(t), ~InvokeCallback(t)
  PROVE  Still(t)
  <1>1. t \in Threads \ Submitters
    BY RolesAreDisjoint DEF Threads
  <1> USE <1>1 DEF TypeInv, LocalOK, ItemInv, HandOK, Still
  <1>2. CASE DrainOneItem(t)
    BY <1>2 DEF DrainOneItem
  <1>3. CASE Uncount(t)
    BY <1>3 DEF Uncount
  <1>4. CASE CheckEmpty(t)
    BY <1>4 DEF CheckEmpty, Return
  <1>5. CASE CheckQuiet(t)
    BY <1>5 DEF CheckQuiet, Return
  <1>6. CASE SignalTerminations(t)
    BY <1>6 DEF SignalTerminations
  <1>7. CASE DeliverTermination(t)
    BY <1>7 DEF DeliverTermination
  <1>8. CASE EndSignal(t)
    BY <1>8 DEF EndSignal, Return
  <1> QED BY <1>2, <1>3, <1>4, <1>5, <1>6, <1>7, <1>8 DEF Drain

\* The other steps of the roles
LEMMA StillRoles ==
  ASSUME TypeInv, ItemInv, NEW t \in Threads,
         \/ t \in Submitters /\ CheckStatus(t)
         \/ t \in Dispatchers /\ (Dispatch(t) \/ TimeOut(t) \/ WaitStep(t))
         \/ /\ t \in Workers
            /\ ProcessThreadPoolCallback(t) \/ EnterSerialized(t) \/ LeaveSerialized(t)
         \/ t \in Timers /\ (SubmitPendingCallbacks(t) \/ ScheduleNextItem(t))
         \/ t \in Observers /\ (IsEmpty(t) \/ ReadLists(t))
  PROVE  Still(t)
  <1> USE DEF TypeInv, LocalOK, ItemInv, HandOK, Still
  <1>1. CASE t \in Submitters /\ CheckStatus(t)
    BY <1>1 DEF CheckStatus, ControlOK
  <1>2. CASE t \in Dispatchers /\ (Dispatch(t) \/ TimeOut(t) \/ WaitStep(t))
    BY <1>2, RolesAreDisjoint
    DEF Dispatch, TimeOut, WaitStep, WaitCheckQueue, WaitCheckTerminations,
        WaitCheckStatus, WaitForEvent, Wake
  <1>3. CASE /\ t \in Workers
             /\ ProcessThreadPoolCallback(t) \/ EnterSerialized(t) \/ LeaveSerialized(t)
    BY <1>3, RolesAreDisjoint DEF ProcessThreadPoolCallback, EnterSerialized, LeaveSerialized
  <1>4. CASE t \in Timers /\ (SubmitPendingCallbacks(t) \/ ScheduleNextItem(t))
    BY <1>4, RolesAreDisjoint DEF SubmitPendingCallbacks, ScheduleNextItem, ControlOK
  <1>5. CASE t \in Observers /\ (IsEmpty(t) \/ ReadLists(t))
    BY <1>5, RolesAreDisjoint DEF IsEmpty, ReadLists, Answer
  <1> QED BY <1>1, <1>2, <1>3, <1>4, <1>5

\* Terminations and suspends touch no item.
LEMMA StillTerminations ==
  ASSUME TypeInv, ItemInv, NEW t \in Terminators \cup Suspenders,
         \/ \E k \in Terminations : PrepareTerminate(t, k)
         \/ CancelTermination(t) \/ Terminate(t) \/ AddSuspend(t) \/ ParkTermination(t)
         \/ \E c \in Contexts : SuspendTermination(t, c)
         \/ CallResumeTermination(t) \/ VerifySuspend(t) \/ ResumeTermination(t)
  PROVE  Still(t)
  <1>1. t \in Threads \ Submitters
    BY RolesAreDisjoint DEF Threads
  <1> USE <1>1 DEF TypeInv, LocalOK, ItemInv, HandOK, Still
  <1>2. CASE (\E k \in Terminations : PrepareTerminate(t, k)) \/ CancelTermination(t)
    BY <1>2 DEF PrepareTerminate, CancelTermination
  <1>3. CASE Terminate(t) \/ AddSuspend(t) \/ ParkTermination(t)
    BY <1>3 DEF Terminate, AddSuspend, ParkTermination, ControlOK
  <1>4. CASE (\E c \in Contexts : SuspendTermination(t, c)) \/ CallResumeTermination(t)
    BY <1>4 DEF SuspendTermination, CallResumeTermination
  <1>5. CASE VerifySuspend(t) \/ RemoveSuspend(t)
    BY <1>5 DEF VerifySuspend, RemoveSuspend
  <1>6. CASE CollectTerminations(t) \/ ScheduleTermination(t)
    BY <1>6 DEF CollectTerminations, ScheduleTermination, ControlOK
  <1>7. CASE AnnounceTermination(t)
    BY <1>7 DEF AnnounceTermination, ControlOK
  <1> QED BY <1>2, <1>3, <1>4, <1>5, <1>6, <1>7 DEF ResumeTermination

\* A new port has no items.
LEMMA ItemInit == Init => ItemInv
  <1> SUFFICES ASSUME Init PROVE ItemInv
    OBVIOUS
  <1>1. ASSUME NEW i \in Items
        PROVE  /\ Occurrences(i, queueList) = 0 /\ Occurrences(i, pendingList) = 0
               /\ InHand(i, taken) = 0 /\ InHand(i, retained) = 0
               /\ Cardinality(Calling(i)) = 0
    <2>1. Spots(i, queueList) = {} /\ Spots(i, pendingList) = {} /\ Calling(i) = {}
      BY DEF Init, Spots, Calling
    <2>2. Hands(i, taken) = {} /\ Hands(i, retained) = {}
      BY DEF Init, Hands, Spots
    <2> QED BY <2>1, <2>2, FS_EmptySet DEF Occurrences, InHand
  <1>2. ItemInOnePlace
    BY <1>1 DEF Init, ItemInOnePlace
  <1>3. HandOK /\ SubmitOK /\ DelayedOK
    BY DEF Init, HandOK, SubmitOK, DelayedOK, Threads
  <1> QED BY <1>2, <1>3 DEF ItemInv

\* Every step keeps each item in its one place.
LEMMA ItemNext == TypeInv /\ ItemInv /\ [Next]_vars => ItemInv'
  <1> SUFFICES ASSUME TypeInv, ItemInv, [Next]_vars
               PROVE  ItemInv'
    OBVIOUS
  <1>1. ASSUME NEW t \in Threads, CancelPendingEntries(t)
        PROVE  ItemInv'
    BY <1>1, StillCancel, ItemStill, ItemTake, ItemRestore, ItemAppend DEF CancelPendingEntries
  <1>2. ASSUME NEW t \in Dispatchers \cup Workers, Drain(t)
        PROVE  ItemInv'
    BY <1>2, StillDrain, ItemStill, ItemPop, ItemInvoke DEF Threads
  <1>3. ASSUME NEW t \in Submitters,
               (\E i \in Items : QueueItem(t, i)) \/ OutOfMemory(t) \/ SubmitterStep(t)
        PROVE  ItemInv'
    BY <1>1, <1>3, StillRoles, ItemStill, ItemQueue, ItemGiveUp, ItemPushPending
    DEF SubmitterStep, Threads
  <1>4. ASSUME NEW t \in Terminators,
               \/ \E k \in Terminations : PrepareTerminate(t, k)
               \/ CancelTermination(t) \/ TerminatorStep(t)
        PROVE  ItemInv'
    BY <1>1, <1>4, StillTerminations, ItemStill DEF TerminatorStep, Threads
  <1>5. ASSUME NEW t \in Suspenders,
               \/ \E c \in Contexts : SuspendTermination(t, c)
               \/ CallResumeTermination(t) \/ SuspenderStep(t)
        PROVE  ItemInv'
    BY <1>5, StillTerminations, ItemStill DEF SuspenderStep, Threads
  <1>6. ASSUME NEW t \in Timers, SubmitPendingCallbacks(t) \/ TimerStep(t)
        PROVE  ItemInv'
    BY <1>1, <1>6, StillRoles, ItemStill, ItemTake DEF TimerStep, Threads
  <1>7. ASSUME NEW t \in Dispatchers \cup Workers \cup Observers,
               \/ t \in Dispatchers /\ (Dispatch(t) \/ TimeOut(t) \/ WaitStep(t))
               \/ /\ t \in Workers
                  /\ ProcessThreadPoolCallback(t) \/ EnterSerialized(t) \/ LeaveSerialized(t)
               \/ t \in Observers /\ (IsEmpty(t) \/ ReadLists(t))
        PROVE  ItemInv'
    BY <1>7, StillRoles, ItemStill DEF Threads
  <1>8. ASSUME UNCHANGED <<listVars, localVars, historyVars, pc, after>>
               \/ \E i \in Delayed : Ripen(i)
        PROVE  ItemInv'
    BY <1>8 DEF Ripen, ItemInv, HandOK, SubmitOK, DelayedOK, ItemInOnePlace, Calling
  <1>9. CASE UNCHANGED vars
    BY <1>8, <1>9 DEF vars
  <1> QED BY <1>2, <1>3, <1>4, <1>5, <1>6, <1>7, <1>8, <1>9 DEF Next, WorkerStep

LEMMA ItemInvariant == Spec => []ItemInv
  BY TypeInvariant, ItemInit, ItemNext, PTL DEF Spec

\* No accepted callback is lost between the submitters, the two lists, the loops
\* that cancel and promote, and the drains, and none is called twice.
THEOREM EveryItemInOnePlace == Spec => []ItemInOnePlace
  <1>1. ItemInv => ItemInOnePlace
    BY DEF ItemInv
  <1> QED BY <1>1, ItemInvariant, PTL

-----------------------------------------------------------------------------
(* IsEmpty and the pool.  m_processingCallback counts the threads that are *)
(* at their popped entry; an observer that found m_queueList empty has     *)
(* each callback it watches called or about to be called, and one that     *)
(* then finds the count at zero has it called, unless the callback was     *)
(* delayed.  In ThreadPool mode every queued entry has a drain to come.    *)

RunPlaces == {"pop", "call", "uncount"}

Running == {t \in Threads : pc[t] \in RunPlaces}

RunningOK == processingCallback = Cardinality(Running)

Seen(t, i) ==
    /\ outcome[i] = "accepted"
    /\ i \notin Delayed =>
          /\ pc[t] \in {"pending?", "running?"} =>
                called[i] > 0 \/ Occurrences(i, queueList) = 0
          /\ pc[t] = "true" => called[i] > 0

WatchedOK == \A t \in Observers : \A i \in watched[t] : Seen(t, i)

Draining == {t \in Workers : pc[t] \in {"drain", "pop"}}

Notifying == {t \in Threads : pc[t] = "notify"}

Backed ==
    mode = "ThreadPool" =>
        Len(queueList) <= submissions + Cardinality(Draining) + Cardinality(Notifying)

DrainInv == RunningOK /\ WatchedOK /\ Backed

\* An accepted callback without a delay is queued, about to be called, or called.
LEMMA ImmediateItem ==
  ASSUME TypeInv, ItemInv, NEW i \in Items \ Delayed, outcome[i] = "accepted"
  PROVE  /\ Occurrences(i, queueList) + Cardinality(Calling(i)) + called[i] = 1
         /\ \A t \in Threads : taken[t] # <<>> => Head(taken[t]) # i
  <1>1. Spots(i, pendingList) = {} /\ \A t \in Threads : Spots(i, retained[t]) = {}
    BY DEF ItemInv, DelayedOK, Spots
  <1>2. ASSUME NEW t \in Threads
        PROVE  Spots(i, taken[t]) = {}
    <2>1. CASE taken[t] \in Seq(Delayed)
      BY <2>1 DEF Spots
    <2>2. CASE t \in Submitters /\ pc[t] = "append" /\ item[t] # None
      <3>1. taken[t] = <<item[t]>> /\ item[t] # i
        BY <2>2 DEF ItemInv, SubmitOK
      <3> QED BY <3>1 DEF Spots
    <2> QED BY <2>1, <2>2 DEF ItemInv, DelayedOK
  <1>3. Hands(i, taken) = {} /\ Hands(i, retained) = {}
    BY <1>1, <1>2 DEF Hands
  <1>4. Occurrences(i, pendingList) = 0 /\ InHand(i, taken) = 0 /\ InHand(i, retained) = 0
    BY <1>1, <1>3, FS_EmptySet DEF Occurrences, InHand
  <1>5. Occurrences(i, queueList) + Cardinality(Calling(i)) + called[i] = 1
    BY <1>4, ItemCounts DEF ItemInv, Whereabouts, Expected
  <1>6. ASSUME NEW t \in Threads, taken[t] # <<>>
        PROVE  Head(taken[t]) # i
    <2>1. taken[t] \in Seq(Items) /\ 1 \in DOMAIN taken[t]
      BY <1>6 DEF TypeInv, LocalOK
    <2> QED BY <1>2, <2>1 DEF Spots
  <1> QED BY <1>5, <1>6

\* What is accepted stays accepted, what is called stays called, and an accepted
\* callback that is not in m_queueList does not come there unless it was delayed.
Lasting ==
    \A i \in Items : outcome[i] = "accepted" =>
        /\ outcome'[i] = "accepted" /\ called'[i] >= called[i]
        /\ (i \notin Delayed /\ Occurrences(i, queueList) = 0) =>
              Occurrences(i, queueList)' = 0

LEMMA WatchedLasting ==
  ASSUME TypeInv, TypeInv', WatchedOK, Lasting, NEW t \in Observers,
         pc'[t] = pc[t], watched'[t] = watched[t], NEW i \in watched'[t]
  PROVE  Seen(t, i)'
  <1>1. i \in Items /\ Seen(t, i) /\ called[i] \in Nat /\ called'[i] \in Nat
    BY DEF TypeInv, HistoryOK, WatchedOK, Threads
  <1> QED BY <1>1 DEF Seen, Lasting

\* The sizes that the invariant compares are natural numbers.
LEMMA DrainCounts ==
  ASSUME TypeInv
  PROVE  /\ Running \subseteq Threads /\ Cardinality(Running) \in Nat
         /\ Draining \subseteq Threads /\ Cardinality(Draining) \in Nat
         /\ Notifying \subseteq Threads /\ Cardinality(Notifying) \in Nat
         /\ Len(queueList) \in Nat /\ submissions \in Nat
  <1>1. Running \subseteq Threads /\ Draining \subseteq Threads /\ Notifying \subseteq Threads
    BY DEF Running, Draining, Notifying, Threads
  <1>2. Len(queueList) \in Nat /\ submissions \in Nat
    BY DEF TypeInv, SharedOK
  <1> QED BY <1>1, <1>2, CardinalityStep

\* Steps that neither begin nor end a drain, push, notify or observe
Quiet(t) ==
    /\ \A u \in Threads \ {t} : pc'[u] = pc[u] /\ watched'[u] = watched[u]
    /\ t \notin Observers
    /\ pc[t] \notin RunPlaces \cup {"drain", "notify"} /\ pc'[t] \notin RunPlaces
    /\ UNCHANGED <<mode, queueList, processingCallback, called>>
    /\ submissions' >= submissions
    /\ \A i \in Items : outcome[i] = "accepted" => outcome'[i] = "accepted"

LEMMA DrainQuiet ==
  ASSUME TypeInv, TypeInv', DrainInv, NEW t \in Threads, Quiet(t)
  PROVE  DrainInv'
  <1>1. RunningOK'
    <2>1. Running' = Running
      BY DEF Running, Quiet
    <2> QED BY <2>1 DEF DrainInv, RunningOK, Quiet
  <1>2. WatchedOK'
    <2>1. Lasting
      BY DEF Lasting, Quiet, TypeInv, HistoryOK
    <2>2. \A u \in Observers : pc'[u] = pc[u] /\ watched'[u] = watched[u]
      BY DEF Quiet, Threads
    <2> QED BY <2>1, <2>2, WatchedLasting DEF DrainInv, WatchedOK
  <1>3. Backed'
    <2>1. Draining \subseteq Draining' /\ Notifying \subseteq Notifying'
      BY DEF Draining, Notifying, Quiet, RunPlaces, Threads
    <2>2. Draining' \subseteq Threads /\ Notifying' \subseteq Threads
      BY DEF Draining, Notifying, Threads
    <2>3. /\ Cardinality(Draining') \in Nat /\ Cardinality(Draining) <= Cardinality(Draining')
          /\ Cardinality(Notifying') \in Nat /\ Cardinality(Notifying) <= Cardinality(Notifying')
      BY <2>1, <2>2, CardinalityStep
    <2>4. submissions' \in Nat
      BY DEF TypeInv, SharedOK
    <2> QED BY <2>3, <2>4, DrainCounts
        DEF DrainInv, Backed, Quiet
  <1> QED BY <1>1, <1>2, <1>3 DEF DrainInv

\* AppendEntry queues an entry that its thread goes on to notify.
LEMMA DrainAppend ==
  ASSUME TypeInv, TypeInv', ItemInv, DrainInv, NEW t \in Threads \ Observers, AppendEntry(t)
  PROVE  DrainInv'
  <1> DEFINE x == Head(taken[t])
  <1>1. /\ pc[t] = "append" /\ pc'[t] = "notify" /\ taken[t] # <<>> /\ x \in Items
        /\ \A u \in Threads \ {t} : pc'[u] = pc[u]
        /\ queueList' = Append(queueList, x)
        /\ outcome'[x] = "accepted" /\ \A j \in Items \ {x} : outcome'[j] = outcome[j]
        /\ UNCHANGED <<mode, submissions, processingCallback, called, watched>>
    <2>1. taken[t] # <<>> /\ pc[t] = "append"
      BY DEF AppendEntry, TypeInv, ControlOK
    <2>2. x \in Items
      BY <2>1, HeadTail DEF TypeInv, LocalOK
    <2> HIDE DEF x
    <2> QED BY <2>1, <2>2 DEF AppendEntry, TypeInv, LocalOK, HistoryOK, x
  <1>2. \A i \in Items \ Delayed : outcome[i] = "accepted" => x # i
    BY <1>1, ImmediateItem
  <1> HIDE DEF x
  <1>3. RunningOK'
    <2>1. Running' = Running
      BY <1>1 DEF Running, RunPlaces
    <2> QED BY <1>1, <2>1 DEF DrainInv, RunningOK
  <1>4. WatchedOK'
    <2>1. \A i : Occurrences(i, queueList') = Occurrences(i, queueList) + IF x = i THEN 1 ELSE 0
      BY <1>1, OccurrencesAppend DEF TypeInv, SharedOK
    <2>2. Lasting
      BY <1>1, <1>2, <2>1 DEF Lasting, TypeInv, HistoryOK
    <2>3. \A u \in Observers : pc'[u] = pc[u] /\ watched'[u] = watched[u]
      BY <1>1 DEF Threads
    <2> QED BY <2>2, <2>3, WatchedLasting DEF DrainInv, WatchedOK
  <1>5. Backed'
    <2>1. /\ Draining' = Draining /\ t \notin Notifying /\ Notifying' = Notifying \cup {t}
      BY <1>1 DEF Draining, Notifying, Threads
    <2>2. Cardinality(Notifying') = Cardinality(Notifying) + 1
      BY <2>1, DrainCounts, CardinalityStep
    <2>3. Len(queueList') = Len(queueList) + 1
      BY <1>1 DEF TypeInv, SharedOK
    <2> QED BY <1>1, <2>1, <2>2, <2>3, DrainCounts
        DEF DrainInv, Backed
  <1> QED BY <1>3, <1>4, <1>5 DEF DrainInv

\* NotifyEntry submits the drain it has owed since.
LEMMA DrainNotify ==
  ASSUME TypeInv, TypeInv', DrainInv, NEW t \in Threads \ Observers, NotifyEntry(t)
  PROVE  DrainInv'
  <1>1. /\ pc[t] = "notify" /\ pc'[t] \notin RunPlaces \cup {"notify"}
        /\ \A u \in Threads \ {t} : pc'[u] = pc[u]
        /\ submissions' = IF mode = "Manual" THEN submissions ELSE submissions + 1
        /\ UNCHANGED <<mode, queueList, processingCallback, outcome, called, watched>>
    BY DEF NotifyEntry, NotifyItemQueued, RunPlaces, TypeInv, LocalOK, ControlOK
  <1>2. RunningOK'
    <2>1. Running' = Running
      BY <1>1 DEF Running, RunPlaces
    <2> QED BY <1>1, <2>1 DEF DrainInv, RunningOK
  <1>3. WatchedOK'
    <2>1. Lasting
      BY <1>1 DEF Lasting, TypeInv, HistoryOK
    <2>2. \A u \in Observers : pc'[u] = pc[u] /\ watched'[u] = watched[u]
      BY <1>1 DEF Threads
    <2> QED BY <2>1, <2>2, WatchedLasting DEF DrainInv, WatchedOK
  <1>4. Backed'
    <2>1. Draining \subseteq Draining' /\ t \in Notifying /\ Notifying' = Notifying \ {t}
      BY <1>1 DEF Draining, Notifying, RunPlaces, Threads
    <2>2. Draining' \subseteq Threads
      BY DEF Draining, Threads
    <2>3. /\ Cardinality(Notifying') = Cardinality(Notifying) - 1
          /\ Cardinality(Draining') \in Nat /\ Cardinality(Draining) <= Cardinality(Draining')
      BY <2>1, <2>2, DrainCounts, CardinalityStep
    <2> QED BY <1>1, <2>3, DrainCounts
        DEF DrainInv, Backed
  <1> QED BY <1>2, <1>3, <1>4 DEF DrainInv

\* The pool picks a submission up as a drain.
LEMMA DrainPickUp ==
  ASSUME TypeInv, TypeInv', DrainInv, NEW t \in Workers, ProcessThreadPoolCallback(t)
  PROVE  DrainInv'
  <1>1. t \in Threads \ Observers
    BY RolesAreDisjoint DEF Threads
  <1>2. /\ pc[t] = "idle" /\ pc'[t] = IF mode = "SerializedThreadPool" THEN "enter" ELSE "drain"
        /\ \A u \in Threads \ {t} : pc'[u] = pc[u]
        /\ submissions' = submissions - 1
        /\ UNCHANGED <<mode, queueList, processingCallback, outcome, called, watched>>
    BY <1>1 DEF ProcessThreadPoolCallback, TypeInv, LocalOK
  <1>3. RunningOK'
    <2>1. Running' = Running
      BY <1>2 DEF Running, RunPlaces
    <2> QED BY <1>2, <2>1 DEF DrainInv, RunningOK
  <1>4. WatchedOK'
    <2>1. Lasting
      BY <1>2 DEF Lasting, TypeInv, HistoryOK
    <2>2. \A u \in Observers : pc'[u] = pc[u] /\ watched'[u] = watched[u]
      BY <1>1, <1>2 DEF Threads
    <2> QED BY <2>1, <2>2, WatchedLasting DEF DrainInv, WatchedOK
  <1>5. ASSUME mode = "ThreadPool"
        PROVE  Backed'
    <2>1. t \notin Draining /\ Draining' = Draining \cup {t} /\ Notifying' = Notifying
      BY <1>1, <1>2, <1>5 DEF Draining, Notifying, Threads
    <2>2. Cardinality(Draining') = Cardinality(Draining) + 1
      BY <1>1, <2>1, DrainCounts, CardinalityStep
    <2> QED BY <1>2, <1>5, <2>1, <2>2, DrainCounts
        DEF DrainInv, Backed
  <1>6. Backed'
    BY <1>2, <1>5 DEF Backed
  <1> QED BY <1>3, <1>4, <1>6 DEF DrainInv

\* DrainOneItem counts itself, for its pop, its call and its Uncount.
LEMMA DrainCountsItself ==
  ASSUME TypeInv, TypeInv', DrainInv, NEW t \in Dispatchers \cup Workers,
         DrainOneItem(t) \/ Uncount(t)
  PROVE  DrainInv'
  <1>1. t \in Threads \ Observers
    BY RolesAreDisjoint DEF Threads
  <1>2. /\ \/ /\ pc[t] = "drain" /\ pc'[t] = "pop"
              /\ processingCallback' = processingCallback + 1
           \/ /\ pc[t] = "uncount" /\ pc'[t] = "empty"
              /\ processingCallback' = processingCallback - 1
        /\ \A u \in Threads \ {t} : pc'[u] = pc[u]
        /\ UNCHANGED <<mode, queueList, submissions, outcome, called, watched>>
    BY <1>1 DEF DrainOneItem, Uncount, TypeInv, LocalOK
  <1>3. RunningOK'
    <2>1. CASE pc[t] = "drain"
      <3>1. t \notin Running /\ Running' = Running \cup {t}
        BY <1>1, <1>2, <2>1 DEF Running, RunPlaces
      <3>2. Cardinality(Running') = Cardinality(Running) + 1
        BY <1>1, <3>1, DrainCounts, CardinalityStep
      <3> QED BY <1>2, <2>1, <3>2 DEF DrainInv, RunningOK
    <2>2. CASE pc[t] = "uncount"
      <3>1. t \in Running /\ Running' = Running \ {t}
        BY <1>1, <1>2, <2>2 DEF Running, RunPlaces
      <3>2. Cardinality(Running') = Cardinality(Running) - 1
        BY <1>1, <3>1, DrainCounts, CardinalityStep
      <3> QED BY <1>2, <2>2, <3>2 DEF DrainInv, RunningOK
    <2> QED BY <1>2, <2>1, <2>2
  <1>4. WatchedOK'
    <2>1. Lasting
      BY <1>2 DEF Lasting, TypeInv, HistoryOK
    <2>2. \A u \in Observers : pc'[u] = pc[u] /\ watched'[u] = watched[u]
      BY <1>1, <1>2 DEF Threads
    <2> QED BY <2>1, <2>2, WatchedLasting DEF DrainInv, WatchedOK
  <1>5. Draining' = Draining /\ Notifying' = Notifying
    BY <1>1, <1>2 DEF Draining, Notifying, Threads
  <1>6. Backed'
    BY <1>2, <1>5 DEF DrainInv, Backed
  <1> QED BY <1>3, <1>4, <1>6 DEF DrainInv

\* The drain that pops has one entry less to be for, or the queue is empty.
LEMMA DrainPop ==
  ASSUME TypeInv, TypeInv', DrainInv, NEW t \in Dispatchers \cup Workers, PopFront(t)
  PROVE  DrainInv'
  <1>1. t \in Threads \ Observers
    BY RolesAreDisjoint DEF Threads
  <1>2. /\ pc[t] = "pop" /\ pc'[t] \in {"uncount", "call"}
        /\ \A u \in Threads \ {t} : pc'[u] = pc[u]
        /\ queueList' = IF queueList = <<>> THEN queueList ELSE Tail(queueList)
        /\ UNCHANGED <<mode, submissions, processingCallback, outcome, called, watched>>
    BY <1>1 DEF PopFront, TypeInv, LocalOK
  <1>3. RunningOK'
    <2>1. Running' = Running
      BY <1>2 DEF Running, RunPlaces
    <2> QED BY <1>2, <2>1 DEF DrainInv, RunningOK
  <1>4. WatchedOK'
    <2>1. ASSUME NEW i, Occurrences(i, queueList) = 0
          PROVE  Occurrences(i, queueList') = 0
      <3>1. CASE queueList = <<>>
        BY <1>2, <2>1, <3>1
      <3>2. CASE queueList # <<>>
        <4>1. Occurrences(i, Tail(queueList)) = 0
          <5>1. queueList \in Seq(Items)
            BY DEF TypeInv, SharedOK
          <5>2. /\ Occurrences(i, Tail(queueList)) = 0 - IF Head(queueList) = i THEN 1 ELSE 0
                /\ Head(queueList) = i => 0 > 0
            BY <2>1, <3>2, <5>1, OccurrencesTail
          <5> QED BY <5>2
        <4> QED BY <1>2, <3>2, <4>1
      <3> QED BY <3>1, <3>2
    <2>2. Lasting
      BY <1>2, <2>1 DEF Lasting, TypeInv, HistoryOK
    <2>3. \A u \in Observers : pc'[u] = pc[u] /\ watched'[u] = watched[u]
      BY <1>1, <1>2 DEF Threads
    <2> QED BY <2>2, <2>3, WatchedLasting DEF DrainInv, WatchedOK
  <1>5. Backed'
    <2>1. Notifying' = Notifying /\ Draining' = Draining \ {t}
      BY <1>1, <1>2 DEF Draining, Notifying, Threads
    <2>2. Cardinality(Draining') \in Nat /\ Cardinality(Draining') >= Cardinality(Draining) - 1
      BY <2>1, DrainCounts, CardinalityStep
    <2>3. IF queueList = <<>> THEN Len(queueList') = 0 ELSE Len(queueList') = Len(queueList) - 1
      BY <1>2 DEF TypeInv, SharedOK
    <2> QED BY <1>2, <2>1, <2>2, <2>3, DrainCounts DEF DrainInv, Backed
  <1> QED BY <1>3, <1>4, <1>5 DEF DrainInv

\* A callback that is called is called for those who watch it.
LEMMA DrainInvoke ==
  ASSUME TypeInv, TypeInv', DrainInv, NEW t \in Dispatchers \cup Workers, InvokeCallback(t)
  PROVE  DrainInv'
  <1>1. t \in Threads \ Observers
    BY RolesAreDisjoint DEF Threads
  <1>2. /\ pc[t] = "call" /\ pc'[t] = "uncount"
        /\ \A u \in Threads \ {t} : pc'[u] = pc[u]
        /\ \A i \in Items : called'[i] >= called[i]
        /\ UNCHANGED <<mode, queueList, submissions, processingCallback, outcome, watched>>
    BY <1>1 DEF InvokeCallback, TypeInv, LocalOK, HistoryOK
  <1>3. RunningOK'
    <2>1. Running' = Running
      BY <1>2 DEF Running, RunPlaces
    <2> QED BY <1>2, <2>1 DEF DrainInv, RunningOK
  <1>4. WatchedOK'
    <2>1. Lasting
      BY <1>2 DEF Lasting
    <2>2. \A u \in Observers : pc'[u] = pc[u] /\ watched'[u] = watched[u]
      BY <1>1, <1>2 DEF Threads
    <2> QED BY <2>1, <2>2, WatchedLasting DEF DrainInv, WatchedOK
  <1>5. Draining' = Draining /\ Notifying' = Notifying
    BY <1>1, <1>2 DEF Draining, Notifying, Threads
  <1>6. Backed'
    BY <1>2, <1>5 DEF DrainInv, Backed
  <1> QED BY <1>3, <1>4, <1>6 DEF DrainInv

\* The three reads of IsEmpty
LEMMA DrainObserve ==
  ASSUME TypeInv, ItemInv, DrainInv, NEW t \in Observers, IsEmpty(t) \/ ReadLists(t)
  PROVE  DrainInv'
  <1>1. t \in Threads /\ t \notin Workers
    BY RolesAreDisjoint DEF Threads
  <1>2. /\ pc[t] \in {"idle", "ready?", "pending?", "running?", "true"}
        /\ pc'[t] \in {"idle", "ready?", "pending?", "running?", "true"}
        /\ \A u \in Threads \ {t} : pc'[u] = pc[u] /\ watched'[u] = watched[u]
        /\ UNCHANGED <<mode, queueList, submissions, processingCallback, outcome, called>>
    BY <1>1 DEF IsEmpty, ReadLists, Answer, TypeInv, LocalOK, HistoryOK
  <1>3. Running' = Running /\ Draining' = Draining /\ Notifying' = Notifying
    BY <1>1, <1>2 DEF Running, RunPlaces, Draining, Notifying, Threads
  <1>4. RunningOK' /\ Backed'
    BY <1>2, <1>3 DEF DrainInv, RunningOK, Backed
  <1>5. ASSUME NEW i \in watched'[t]
        PROVE  Seen(t, i)'
    <2>1. CASE IsEmpty(t)
      BY <1>1, <2>1 DEF IsEmpty, Outstanding, Seen, TypeInv, LocalOK, HistoryOK
    <2>2. CASE ReadLists(t)
      <3>1. watched'[t] # {} => /\ watched'[t] = watched[t]
                                /\ \/ pc[t] = "ready?" /\ queueList = <<>> /\ pc'[t] = "pending?"
                                   \/ pc[t] = "pending?" /\ pc'[t] = "running?"
                                   \/ /\ pc[t] = "running?" /\ pc'[t] = "true"
                                      /\ processingCallback = 0
        BY <1>1, <2>2 DEF ReadLists, Answer, TypeInv, LocalOK, HistoryOK
      <3>2. i \in Items /\ Seen(t, i) /\ called[i] \in Nat
        BY <1>1, <3>1 DEF DrainInv, WatchedOK, TypeInv, HistoryOK
      <3>3. queueList = <<>> => Occurrences(i, queueList) = 0
        <4>1. queueList = <<>> => Spots(i, queueList) = {}
          BY DEF Spots
        <4> QED BY <4>1, FS_EmptySet DEF Occurrences
      <3>4. processingCallback = 0 => Cardinality(Calling(i)) = 0
        <4>1. Calling(i) \subseteq Running
          BY DEF Calling, Running, RunPlaces
        <4>2. Cardinality(Calling(i)) \in Nat /\ Cardinality(Calling(i)) <= Cardinality(Running)
          BY <4>1, DrainCounts, CardinalityStep
        <4> QED BY <4>2, DrainCounts DEF DrainInv, RunningOK
      <3>5. (i \notin Delayed /\ outcome[i] = "accepted") =>
                Occurrences(i, queueList) + Cardinality(Calling(i)) + called[i] = 1
        BY <3>2, ImmediateItem
      <3> QED BY <1>2, <3>1, <3>2, <3>3, <3>4, <3>5 DEF Seen
    <2> QED BY <2>1, <2>2
  <1>6. ASSUME NEW u \in Observers \ {t}, NEW i \in watched'[u]
        PROVE  Seen(u, i)'
    BY <1>2 DEF DrainInv, WatchedOK, Seen, Threads
  <1>7. WatchedOK'
    BY <1>5, <1>6 DEF WatchedOK
  <1> QED BY <1>4, <1>7 DEF DrainInv

\* The steps of the roles that are quiet
LEMMA QuietCancel ==
  ASSUME TypeInv, NEW t \in Threads \ Observers,
         \/ LockPending(t) \/ CancelEntry(t) \/ PromoteEntry(t) \/ EndOfPending(t)
         \/ RestoreEntry(t) \/ UnlockPending(t)
  PROVE  Quiet(t)
  <1> USE DEF TypeInv, LocalOK, SharedOK, ControlOK, RunPlaces, Quiet
  <1>1. CASE LockPending(t) \/ EndOfPending(t)
    BY <1>1 DEF LockPending, EndOfPending
  <1>2. CASE CancelEntry(t) \/ PromoteEntry(t) \/ RestoreEntry(t)
    BY <1>2 DEF CancelEntry, PromoteEntry, RestoreEntry
  <1>3. CASE UnlockPending(t)
    <2>1. pc'[t] \notin RunPlaces
      BY <1>3 DEF UnlockPending
    <2> QED BY <1>3, <2>1 DEF UnlockPending
  <1> QED BY <1>1, <1>2, <1>3

LEMMA QuietDrain ==
  ASSUME TypeInv, NEW t \in Dispatchers \cup Workers,
         \/ CheckEmpty(t) \/ CheckQuiet(t)
         \/ SignalTerminations(t) \/ DeliverTermination(t) \/ EndSignal(t)
  PROVE  Quiet(t)
  <1>1. t \in Threads \ Observers
    BY RolesAreDisjoint DEF Threads
  <1> USE <1>1 DEF TypeInv, LocalOK, SharedOK, RunPlaces, Quiet
  <1>2. CASE CheckEmpty(t)
    BY <1>2 DEF CheckEmpty, Return
  <1>3. CASE CheckQuiet(t)
    BY <1>3 DEF CheckQuiet, Return
  <1>4. CASE SignalTerminations(t)
    BY <1>4 DEF SignalTerminations
  <1>5. CASE DeliverTermination(t)
    BY <1>5 DEF DeliverTermination
  <1>6. CASE EndSignal(t)
    BY <1>6 DEF EndSignal, Return
  <1> QED BY <1>2, <1>3, <1>4, <1>5, <1>6

LEMMA QuietRoles ==
  ASSUME TypeInv, NEW t \in Threads,
         \/ /\ t \in Submitters
            /\ \/ \E i \in Items : QueueItem(t, i)
               \/ OutOfMemory(t) \/ PushPending(t) \/ CheckStatus(t)
         \/ t \in Dispatchers /\ (Dispatch(t) \/ TimeOut(t) \/ WaitStep(t))
         \/ t \in Workers /\ (EnterSerialized(t) \/ LeaveSerialized(t))
         \/ t \in Timers /\ (SubmitPendingCallbacks(t) \/ ScheduleNextItem(t))
  PROVE  Quiet(t)
  <1>1. t \notin Observers
    BY RolesAreDisjoint
  <1> USE <1>1 DEF TypeInv, LocalOK, SharedOK, RunPlaces, Quiet
  <1>2. ASSUME NEW i \in Items, QueueItem(t, i)
        PROVE  Quiet(t)
    BY <1>2 DEF QueueItem, HistoryOK
  <1>3. CASE OutOfMemory(t)
    BY <1>3 DEF OutOfMemory, HistoryOK
  <1>4. CASE PushPending(t) \/ CheckStatus(t)
    BY <1>4 DEF PushPending, CheckStatus, HistoryOK
  <1>5. CASE Dispatch(t) \/ TimeOut(t) \/ WaitStep(t)
    BY <1>5 DEF Dispatch, TimeOut, WaitStep, WaitCheckQueue, WaitCheckTerminations,
                WaitCheckStatus, WaitForEvent, Wake
  <1>6. CASE EnterSerialized(t) \/ LeaveSerialized(t)
    BY <1>6 DEF EnterSerialized, LeaveSerialized
  <1>7. CASE SubmitPendingCallbacks(t) \/ ScheduleNextItem(t)
    BY <1>7 DEF SubmitPendingCallbacks, ScheduleNextItem
  <1> QED BY <1>2, <1>3, <1>4, <1>5, <1>6, <1>7

LEMMA QuietTerminations ==
  ASSUME TypeInv, NEW t \in Terminators \cup Suspenders,
         \/ \E k \in Terminations : PrepareTerminate(t, k)
         \/ CancelTermination(t) \/ Terminate(t) \/ AddSuspend(t) \/ ParkTermination(t)
         \/ \E c \in Contexts : SuspendTermination(t, c)
         \/ CallResumeTermination(t) \/ VerifySuspend(t) \/ ResumeTermination(t)
  PROVE  Quiet(t)
  <1>1. t \in Threads \ Observers
    BY RolesAreDisjoint DEF Threads
  <1> USE <1>1 DEF TypeInv, LocalOK, SharedOK, RunPlaces, Quiet
  <1>2. CASE (\E k \in Terminations : PrepareTerminate(t, k)) \/ CancelTermination(t)
    BY <1>2 DEF PrepareTerminate, CancelTermination, HistoryOK
  <1>3. CASE Terminate(t) \/ AddSuspend(t) \/ ParkTermination(t)
    BY <1>3 DEF Terminate, AddSuspend, ParkTermination
  <1>4. CASE (\E c \in Contexts : SuspendTermination(t, c)) \/ CallResumeTermination(t)
    BY <1>4 DEF SuspendTermination, CallResumeTermination
  <1>5. CASE VerifySuspend(t) \/ RemoveSuspend(t)
    BY <1>5 DEF VerifySuspend, RemoveSuspend
  <1>6. CASE CollectTerminations(t) \/ ScheduleTermination(t)
    BY <1>6 DEF CollectTerminations, ScheduleTermination
  <1>7. CASE AnnounceTermination(t)
    <2>1. pc'[t] \notin RunPlaces
      BY <1>7 DEF AnnounceTermination, ControlOK
    <2>2. submissions' >= submissions
      BY <1>7 DEF AnnounceTermination, NotifyItemQueued
    <2> QED BY <1>7, <2>1, <2>2 DEF AnnounceTermination
  <1> QED BY <1>2, <1>3, <1>4, <1>5, <1>6, <1>7 DEF ResumeTermination

\* In a new port nothing is queued and nobody drains or watches.
LEMMA DrainInit == Init => DrainInv
  <1> SUFFICES ASSUME Init PROVE DrainInv
    OBVIOUS
  <1>1. Running = {} /\ Draining = {} /\ Notifying = {}
    BY DEF Init, Running, RunPlaces, Draining, Notifying, Threads
  <1>2. RunningOK /\ Backed
    BY <1>1, FS_EmptySet DEF Init, RunningOK, Backed
  <1>3. WatchedOK
    BY DEF Init, WatchedOK, Threads
  <1> QED BY <1>2, <1>3 DEF DrainInv

\* Every step keeps the count, what the observers have seen, and the drains.
LEMMA DrainNext == TypeInv /\ ItemInv /\ DrainInv /\ [Next]_vars => DrainInv'
  <1> SUFFICES ASSUME TypeInv, ItemInv, DrainInv, [Next]_vars
               PROVE  DrainInv'
    OBVIOUS
  <1>0. TypeInv'
    BY TypeNext
  <1>1. ASSUME NEW t \in Threads \ Observers, CancelPendingEntries(t)
        PROVE  DrainInv'
    BY <1>0, <1>1, QuietCancel, DrainQuiet, DrainAppend, DrainNotify DEF CancelPendingEntries
  <1>2. ASSUME NEW t \in Dispatchers \cup Workers, Drain(t)
        PROVE  DrainInv'
    BY <1>0, <1>2, QuietDrain, DrainQuiet, DrainCountsItself, DrainPop, DrainInvoke
    DEF Drain, Threads
  <1>3. ASSUME NEW t \in Submitters,
               (\E i \in Items : QueueItem(t, i)) \/ OutOfMemory(t) \/ SubmitterStep(t)
        PROVE  DrainInv'
    BY <1>0, <1>1, <1>3, QuietRoles, DrainQuiet, RolesAreDisjoint DEF SubmitterStep, Threads
  <1>4. ASSUME NEW t \in Terminators,
               \/ \E k \in Terminations : PrepareTerminate(t, k)
               \/ CancelTermination(t) \/ TerminatorStep(t)
        PROVE  DrainInv'
    BY <1>0, <1>1, <1>4, QuietTerminations, DrainQuiet, RolesAreDisjoint
    DEF TerminatorStep, Threads
  <1>5. ASSUME NEW t \in Suspenders,
               \/ \E c \in Contexts : SuspendTermination(t, c)
               \/ CallResumeTermination(t) \/ SuspenderStep(t)
        PROVE  DrainInv'
    BY <1>0, <1>5, QuietTerminations, DrainQuiet DEF SuspenderStep, Threads
  <1>6. ASSUME NEW t \in Timers, SubmitPendingCallbacks(t) \/ TimerStep(t)
        PROVE  DrainInv'
    BY <1>0, <1>1, <1>6, QuietRoles, QuietCancel, DrainQuiet, RolesAreDisjoint
    DEF TimerStep, Threads
  <1>7. ASSUME NEW t \in Dispatchers \cup Workers,
               \/ t \in Dispatchers /\ (Dispatch(t) \/ TimeOut(t) \/ WaitStep(t))
               \/ /\ t \in Workers
                  /\ ProcessThreadPoolCallback(t) \/ EnterSerialized(t) \/ LeaveSerialized(t)
        PROVE  DrainInv'
    BY <1>0, <1>7, QuietRoles, DrainQuiet, DrainPickUp DEF Threads
  <1>8. ASSUME UNCHANGED <<queueList, poolVars, historyVars, pc>>
        PROVE  DrainInv'
    BY <1>8 DEF DrainInv, RunningOK, Running, WatchedOK, Seen, Backed, Draining, Notifying
  <1>9. ASSUME NEW i \in Delayed, Ripen(i)
        PROVE  DrainInv'
    BY <1>8, <1>9 DEF Ripen
  <1>10. CASE UNCHANGED vars
    BY <1>8, <1>10 DEF vars
  <1> QED BY <1>2, <1>3, <1>4, <1>5, <1>6, <1>7, <1>9, <1>10, DrainObserve DEF Next, WorkerStep

LEMMA DrainInvariant == Spec => []DrainInv
  BY TypeInvariant, ItemInvariant, DrainInit, DrainNext, PTL DEF Spec

\* IsEmpty answers true only when every callback that was accepted without a delay
\* before the call has been called: three reads that are not atomic suffice.
THEOREM EmptyAnswerIsTrue == Spec => []EmptyMeansDone
  <1>1. TypeInv /\ DrainInv => EmptyMeansDone
    BY DEF TypeInv, HistoryOK, DrainInv, WatchedOK, Seen, EmptyMeansDone, Outstanding, Threads
  <1> QED BY <1>1, TypeInvariant, DrainInvariant, PTL

\* No queued entry of a ThreadPool port waits for a drain that nobody submitted.
THEOREM NoStrandedItem == Spec => []QueuedItemHasDrain
  <1>1. DrainInv => QueuedItemHasDrain
    BY DEF DrainInv, Backed, Draining, Notifying, QueuedItemHasDrain
  <1> QED BY <1>1, DrainInvariant, PTL
=============================================================================
