--------------------------- MODULE RuntimeInitProofs ---------------------------
(***************************************************************************)
(* Proofs about RuntimeInit, for any set of threads.  The properties are not *)
(* inductive: who is inside holds the lock, and initialized says that the    *)
(* functions were found and the dll was initialized.                         *)
(***************************************************************************)
EXTENDS RuntimeInit, TLAPS

\* Whoever is inside XGameRuntimeInitializeWithOptions has g_lock.
InsideIsLocked == \A t \in Callers : pc[t] \in Inside => lock = t

\* What the thread inside found out still holds.
InsideIsCurrent ==
    \A t \in Callers :
        /\ pc[t] \in First \cup {"check", "again"} => "Base" \in found
        /\ pc[t] \in First => ~initialized
        /\ pc[t] = "again" => initialized
        /\ pc[t] = "decide" => ready

\* initialized is set last, and only Uninitialize takes the dll away.
InitializedMeansReady == initialized => "Base" \in found /\ (ready \/ ended)

\* A query goes through, and the dll is uninitialized, only once initialized is set.
OutsideFollows ==
    \A t \in Callers :
        /\ pc[t] = "query" => initialized
        /\ pc[t] = "uninitialize" => initialized /\ ended

IInv ==
    /\ TypeOK /\ InsideIsLocked /\ InsideIsCurrent /\ InitializedMeansReady /\ OutsideFollows

LEMMA InitEstablishes == Init => IInv
  BY RuntimeAssumption
  DEF Init, IInv, TypeOK, InsideIsLocked, InsideIsCurrent, InitializedMeansReady, OutsideFollows,
      Labels, Inside, First, Exports

LEMMA StepPreserves == IInv /\ [Next]_vars => IInv'
<1> USE RuntimeAssumption DEF IInv, TypeOK, InsideIsLocked, InsideIsCurrent,
        InitializedMeansReady, OutsideFollows, Labels, Inside, First, Exports, Goto
<1> SUFFICES ASSUME IInv, [Next]_vars PROVE IInv'
  OBVIOUS
<1>1. CASE UNCHANGED vars
  BY <1>1 DEF vars
<1>2. ASSUME NEW t \in Callers, Initialize(t) PROVE IInv'
  BY <1>2 DEF Initialize
<1>3. ASSUME NEW t \in Callers, Query(t) PROVE IInv'
  BY <1>3 DEF Query
<1>4. ASSUME NEW t \in Callers, Enter(t) PROVE IInv'
  BY <1>4 DEF Enter
<1>5. ASSUME NEW t \in Callers, LoadFails(t) PROVE IInv'
  BY <1>5 DEF LoadFails, Leave
<1>6. ASSUME NEW t \in Callers, Resolve(t) PROVE IInv'
  BY <1>6 DEF Resolve, Leave
<1>7. ASSUME NEW t \in Callers, Check(t) PROVE IInv'
  <2>1. CASE ~initialized
    BY <1>7, <2>1 DEF Check, Leave
  <2>2. CASE initialized /\ ~options[t]
    BY <1>7, <2>2 DEF Check, Leave
  <2>3. CASE initialized /\ options[t] /\ "Ex2" \notin found
    BY <1>7, <2>3 DEF Check, Leave
  <2>4. CASE initialized /\ options[t] /\ "Ex2" \in found
    BY <1>7, <2>4 DEF Check, Leave
  <2> QED
    BY <2>1, <2>2, <2>3, <2>4
<1>8. ASSUME NEW t \in Callers, Again(t) PROVE IInv'
  BY <1>8 DEF Again, Leave
<1>9. ASSUME NEW t \in Callers, InitializeDll(t) PROVE IInv'
  BY <1>9 DEF InitializeDll, Leave
<1>10. ASSUME NEW t \in Callers, Decide(t) PROVE IInv'
  <2>1. CASE "Ex2" \in found \/ ~options[t]
    BY <1>10, <2>1 DEF Decide, Leave
  <2>2. CASE ~("Ex2" \in found \/ ~options[t])
    BY <1>10, <2>2 DEF Decide, Leave
  <2> QED
    BY <2>1, <2>2
<1>11. ASSUME NEW t \in Callers, CallDll(t) PROVE IInv'
  BY <1>11 DEF CallDll
<1>12. ASSUME NEW t \in Callers, Uninitialize(t) PROVE IInv'
  BY <1>12 DEF Uninitialize
<1>13. ASSUME NEW t \in Callers, UninitializeDll(t) PROVE IInv'
  BY <1>13 DEF UninitializeDll
<1> QED
  BY <1>1, <1>2, <1>3, <1>4, <1>5, <1>6, <1>7, <1>8, <1>9, <1>10, <1>11, <1>12, <1>13 DEF Next

\* The inductive invariant.
THEOREM InductiveInvariant == Spec => []IInv
<1>1. Init => IInv
  BY InitEstablishes
<1>2. IInv /\ [Next]_vars => IInv'
  BY StepPreserves
<1> QED
  BY <1>1, <1>2, PTL DEF Spec

\* Every variable keeps its type.
THEOREM TypeCorrect == Spec => []TypeOK
<1>1. IInv => TypeOK
  BY DEF IInv
<1> QED
  BY <1>1, InductiveInvariant, PTL

\* The dll is initialized by one thread at a time and never again once it counts as
\* initialized, whatever the threads and the dll do (Init.cpp:60-150).
THEOREM FirstCallIsAlone == Spec => []OneFirstCall
<1>1. IInv => OneFirstCall
  BY DEF IInv, InsideIsLocked, InsideIsCurrent, OneFirstCall, Inside, First
<1> QED
  BY <1>1, InductiveInvariant, PTL

\* A call that gets past the unlocked check of initialized finds the function it calls
\* and an initialized dll, until the game uninitializes it (Impl.cpp:36-40).
THEOREM QueriesAreServed == Spec => []QueriesFindRuntime
<1>1. IInv => QueriesFindRuntime
  BY DEF IInv, InitializedMeansReady, OutsideFollows, QueriesFindRuntime
<1> QED
  BY <1>1, InductiveInvariant, PTL
=============================================================================
