---------------------------- MODULE MCPortScenarios ----------------------------
(***************************************************************************)
(* Ports in several scenarios in one run of TLC.  Each scenario has a      *)
(* dispatch mode and a cast: the threads that act while the others stay    *)
(* idle, and the contexts, items and terminations that they use.           *)
(***************************************************************************)
EXTENDS MCTaskQueuePort, TLC

CONSTANTS
    Scenarios,    \* those of the run
    w1, t1, k1,   \* the worker, the terminator and the termination of a pool port
    PoolItems     \* the items that are submitted to it

VARIABLE scenario

Cast(m, threads, contexts, items, terminations) ==
    [mode |-> m, idle |-> Threads \ threads, untouched |-> Contexts \ contexts,
     unsubmitted |-> Items \ items, unrequested |-> Terminations \ terminations]

\* A manual port is terminated while it is dispatched.  One with a thread pool has a
\* submitter, a terminator, a worker and a timer; a serialized one has a submitter
\* and all workers, and is observed.  Two more have no items: the context is suspended
\* and terminated by several threads, or terminated twice with several workers.
Casts ==
    [dispatch |-> Cast("Manual", {t1} \cup Dispatchers, {c1}, {}, {k1}),
     pool |-> Cast("ThreadPool", {w1, t1} \cup Submitters \cup Timers, Contexts,
                   PoolItems, {k1}),
     serialized |-> Cast("SerializedThreadPool", Submitters \cup Workers \cup Observers,
                         Contexts, Items \ PoolItems, {}),
     terminations |-> Cast("ThreadPool", Terminators \cup Suspenders \cup {w1},
                           {c1}, {}, Terminations),
     deliveries |-> Cast("ThreadPool", Terminators \cup Workers, {c1}, {}, Terminations)]

\* A step of the cast, with its contexts, items and terminations.
InCast ==
    LET cast == Casts[scenario] IN
    /\ \A t \in cast.idle : pc'[t] = "idle"
    /\ \A p \in Suspenders : ctx'[p] \notin cast.untouched
    /\ \A i \in cast.unsubmitted : outcome'[i] = "none"
    /\ \A k \in cast.unrequested : request'[k] = "none"

\* No suspender is named in a cast.
Interchangeable == Permutations(Suspenders)

ScenarioInit == Init /\ scenario \in Scenarios /\ mode = Casts[scenario].mode

ScenarioNext == Next /\ InCast /\ UNCHANGED scenario

scenarioVars == <<scenario, vars>>

ScenarioSpec == ScenarioInit /\ [][ScenarioNext]_scenarioVars

\* TaskQueuePort's fairness; a thread that dispatches does so on a manual port.
ScenarioFairness ==
    /\ \A t \in Submitters : WF_vars(SubmitterStep(t))
    /\ \A t \in Terminators : WF_vars(TerminatorStep(t))
    /\ \A t \in Dispatchers :
          WF_vars(mode = "Manual" /\ (Dispatch(t) \/ Drain(t) \/ WaitStep(t)))
    /\ \A t \in Workers : WF_vars(ProcessThreadPoolCallback(t) \/ WorkerStep(t))
    /\ \A t \in Timers : WF_vars(SubmitPendingCallbacks(t) \/ TimerStep(t))
    /\ \A i \in Delayed : WF_vars(Ripen(i))

FairScenarioSpec == ScenarioSpec /\ ScenarioFairness
=============================================================================
