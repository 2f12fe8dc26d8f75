------------------------------ MODULE RuntimeInit ------------------------------
(***************************************************************************)
(* The static library a game links: XGameRuntimeInitializeWithOptions finds *)
(* xgameruntime.dll and initializes it under g_lock, every other call       *)
(* initializes first when nobody has, and XGameRuntimeUninitialize takes no *)
(* lock.  The dll may be this repository's or another version: what it      *)
(* exports and what its functions answer are choices.                       *)
(***************************************************************************)
EXTENDS FiniteSets

CONSTANTS
    Callers,
    None      \* nobody has g_lock

ASSUME RuntimeAssumption == None \notin Callers

\* "Base" stands for the four functions every version has to export.
Exports == {"Base", "Ex", "Ex2"}

VARIABLES
    exports,      \* what the installed dll exports
    ready,        \* whether the dll is initialized
    found,        \* the pointers of GlobalState that are set
    initialized,  \* GlobalState::initialized
    ended,        \* whether XGameRuntimeUninitialize was called
    lock,         \* who has g_lock
    pc,
    options,      \* whether a thread's call has options
    querying      \* whether it is a query that has to initialize first

vars == <<exports, ready, found, initialized, ended, lock, pc, options, querying>>

\* The dll's first initialization and what follows it, under g_lock.
First == {"first", "decide"}

Inside == First \cup {"resolve", "check", "again"}

Labels == Inside \cup {"idle", "enter", "query", "uninitialize"}

Init ==
    /\ exports \in SUBSET Exports
    /\ ready = FALSE /\ found = {} /\ initialized = FALSE /\ ended = FALSE /\ lock = None
    /\ pc = [t \in Callers |-> "idle"]
    /\ options = [t \in Callers |-> FALSE] /\ querying = [t \in Callers |-> FALSE]

Goto(t, to) == pc' = [pc EXCEPT ![t] = to]

\* XGameRuntimeInitializeWithOptions; options that are not valid change nothing.
Initialize(t) ==
    /\ pc[t] = "idle"
    /\ \E given \in BOOLEAN : options' = [options EXCEPT ![t] = given]
    /\ querying' = [querying EXCEPT ![t] = FALSE]
    /\ Goto(t, "enter")
    /\ UNCHANGED <<exports, ready, found, initialized, ended, lock>>

\* An API call reads initialized without the lock, and initializes when it has to.
Query(t) ==
    /\ pc[t] = "idle"
    /\ options' = [options EXCEPT ![t] = FALSE]
    /\ querying' = [querying EXCEPT ![t] = TRUE]
    /\ Goto(t, IF initialized THEN "query" ELSE "enter")
    /\ UNCHANGED <<exports, ready, found, initialized, ended, lock>>

\* Mutant of Enter: the lock is not taken.
EnterUnlocked(t) ==
    /\ pc[t] = "enter"
    /\ Goto(t, "resolve")
    /\ UNCHANGED <<exports, ready, found, initialized, ended, lock, options, querying>>

Enter(t) ==
    /\ pc[t] = "enter" /\ lock = None
    /\ lock' = t
    /\ Goto(t, "resolve")
    /\ UNCHANGED <<exports, ready, found, initialized, ended, options, querying>>

\* The call leaves g_lock; a query goes on when the initialization succeeded.
Leave(t, succeeded) ==
    /\ lock' = None
    /\ Goto(t, IF succeeded /\ querying[t] THEN "query" ELSE "idle")

\* LoadLibraryA fails.
LoadFails(t) ==
    /\ pc[t] = "resolve"
    /\ Leave(t, FALSE)
    /\ UNCHANGED <<exports, ready, found, initialized, ended, options, querying>>

\* GetProcAddress finds what the dll exports; the call fails without the base functions.
Resolve(t) ==
    /\ pc[t] = "resolve"
    /\ found' = found \cup exports
    /\ IF "Base" \in found'
       THEN Goto(t, "check") /\ UNCHANGED lock
       ELSE Leave(t, FALSE)
    /\ UNCHANGED <<exports, ready, initialized, ended, options, querying>>

\* Options that an initialized runtime cannot take are refused.
Check(t) ==
    /\ pc[t] = "check"
    /\ CASE ~initialized -> Goto(t, "first") /\ UNCHANGED lock
         [] initialized /\ ~options[t] -> Leave(t, TRUE)
         [] initialized /\ options[t] /\ "Ex2" \notin found -> Leave(t, FALSE)
         [] initialized /\ options[t] /\ "Ex2" \in found -> Goto(t, "again") /\ UNCHANGED lock
    /\ UNCHANGED <<exports, ready, found, initialized, ended, options, querying>>

\* InitializeApiImplEx2 in mode 6 takes the options of a later call.
Again(t) ==
    /\ pc[t] = "again"
    /\ \E succeeded \in BOOLEAN : Leave(t, succeeded)
    /\ UNCHANGED <<exports, ready, found, initialized, ended, options, querying>>

\* The newest initialization function that was found is called.
InitializeDll(t) ==
    /\ pc[t] = "first"
    /\ \/ ready' = TRUE /\ Goto(t, "decide") /\ UNCHANGED lock
       \/ Leave(t, FALSE) /\ UNCHANGED ready
    /\ UNCHANGED <<exports, found, initialized, ended, options, querying>>

\* Mutant of Decide: the runtime counts as initialized although it was undone.
DecideAnyway(t) ==
    /\ pc[t] = "decide"
    /\ initialized' = TRUE
    /\ ready' \in (IF "Ex2" \in found \/ ~options[t] THEN {TRUE} ELSE BOOLEAN)
    /\ Leave(t, "Ex2" \in found \/ ~options[t])
    /\ UNCHANGED <<exports, found, ended, options, querying>>

\* A dll that cannot take the options is uninitialized again, if it can be.
Decide(t) ==
    /\ pc[t] = "decide"
    /\ IF "Ex2" \in found \/ ~options[t]
       THEN initialized' = TRUE /\ Leave(t, TRUE) /\ UNCHANGED ready
       ELSE ready' \in BOOLEAN /\ Leave(t, FALSE) /\ UNCHANGED initialized
    /\ UNCHANGED <<exports, found, ended, options, querying>>

\* The dll answers, or refuses a class it does not have.
CallDll(t) ==
    /\ pc[t] = "query"
    /\ Goto(t, "idle")
    /\ UNCHANGED <<exports, ready, found, initialized, ended, lock, options, querying>>

\* XGameRuntimeUninitialize: initialized keeps its value.
Uninitialize(t) ==
    /\ pc[t] = "idle" /\ initialized
    /\ ended' = TRUE
    /\ Goto(t, "uninitialize")
    /\ UNCHANGED <<exports, ready, found, initialized, lock, options, querying>>

\* UninitializeApiImpl, which this repository's dll does not implement.
UninitializeDll(t) ==
    /\ pc[t] = "uninitialize"
    /\ ready' \in {ready, FALSE}
    /\ Goto(t, "idle")
    /\ UNCHANGED <<exports, found, initialized, ended, lock, options, querying>>

Next ==
    \E t \in Callers :
        \/ Initialize(t) \/ Query(t) \/ Enter(t) \/ LoadFails(t) \/ Resolve(t) \/ Check(t)
        \/ Again(t) \/ InitializeDll(t) \/ Decide(t) \/ CallDll(t)
        \/ Uninitialize(t) \/ UninitializeDll(t)

Spec == Init /\ [][Next]_vars

-----------------------------------------------------------------------------
(* Properties *)

TypeOK ==
    /\ exports \in SUBSET Exports /\ found \in SUBSET Exports
    /\ {ready, initialized, ended} \subseteq BOOLEAN
    /\ lock \in Callers \cup {None}
    /\ pc \in [Callers -> Labels]
    /\ options \in [Callers -> BOOLEAN] /\ querying \in [Callers -> BOOLEAN]

\* At most one thread initializes the dll, and never one that already counts as
\* initialized: the check and what follows it are one critical section.
OneFirstCall ==
    \A t \in Callers : pc[t] \in First =>
        /\ ~initialized
        /\ \A u \in Callers \ {t} : pc[u] \notin First

\* An API call that goes through to the dll finds its pointer set and the dll initialized,
\* as long as the game has not asked to uninitialize it: initialized is read without
\* the lock, but set last.
QueriesFindRuntime ==
    \A t \in Callers : pc[t] = "query" /\ ~ended => "Base" \in found /\ ready
=============================================================================
