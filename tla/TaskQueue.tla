------------------------------- MODULE TaskQueue -------------------------------
(***************************************************************************)
(* One TaskQueueImpl (src/src/System/Threading/XTaskQueue.cpp): a work and *)
(* a completion port, and the XTaskQueueTerminate calls that end first the *)
(* one and then the other.                                                 *)
(*                                                                         *)
(* A port is reduced to what module TaskQueuePort shows of it: a callback  *)
(* submitted before the port refuses it is called once, and a termination  *)
(* that was scheduled is delivered once, at any time, also while callbacks *)
(* are still queued.  The suspends keep their steps, for these interleave  *)
(* with the callers of XTaskQueueSuspendTermination.                       *)
(***************************************************************************)
EXTENDS Integers, Sequences

CONSTANT Terminations    \* the XTaskQueueTerminate calls, each on its own thread

Ports == {"Work", "Completion"}

VARIABLES
    status,      \* m_status of the context of each port
    suspends,    \* its m_suspendCount
    queue,       \* the callbacks submitted to the port and not yet called
    parked,      \* the terminations in m_pendingTerminationList
    scheduled,   \* the terminations in m_terminationList
    stage,       \* how far each termination has come at each port
    terminated   \* the terminations that were called back at last

queueVars == <<status, suspends, queue, parked, scheduled, stage, terminated>>

QueueInit ==
    /\ status = [p \in Ports |-> "Active"]
    /\ suspends = [p \in Ports |-> 0]
    /\ queue = [p \in Ports |-> <<>>]
    /\ parked = [p \in Ports |-> {}]
    /\ scheduled = [p \in Ports |-> {}]
    /\ stage = [k \in Terminations |-> [p \in Ports |-> "none"]]
    /\ terminated = {}

\* VerifyNotTerminated fails.
Refuses(p) == status[p] \in {"Terminating", "Terminated"}

\* IsCallCanceled
Cancels(p) == status[p] # "Active"

\* XTaskQueueSubmitCallback, once the port does not refuse
Submit(p, x) == queue' = [queue EXCEPT ![p] = Append(@, x)]

\* XTaskQueueSuspendTermination and XTaskQueueResumeTermination concern the work
\* port: TakeSuspend is AddSuspend, DropSuspend is RemoveSuspend.
TakeSuspend(p) == suspends' = [suspends EXCEPT ![p] = @ + 1]

DropSuspend(p) == suspends' = [suspends EXCEPT ![p] = @ - 1]

LastSuspend(p) == suspends[p] = 1

\* Mutant of CollectParked: what was parked stays parked.
ForgetParked(p) == UNCHANGED <<parked, scheduled>>

\* ResumeTermination's last part: what was parked is scheduled.
CollectParked(p) ==
    /\ scheduled' = [scheduled EXCEPT ![p] = @ \cup parked[p]]
    /\ parked' = [parked EXCEPT ![p] = {}]

-----------------------------------------------------------------------------
(* XTaskQueueTerminate: both ports are prepared, then the work port ends *)

Advance(k, p, from, to) ==
    stage[k][p] = from /\ stage' = [stage EXCEPT ![k][p] = to]

Prepare(p) ==
    status' = [status EXCEPT ![p] = IF @ = "Active" THEN "Canceled" ELSE @]

PrepareWork(k) ==
    /\ Advance(k, "Work", "none", "prepared")
    /\ Prepare("Work")
    /\ UNCHANGED <<suspends, queue, parked, scheduled, terminated>>

PrepareCompletion(k) ==
    /\ stage[k]["Work"] = "prepared" /\ stage[k]["Completion"] = "none"
    /\ stage' = [stage EXCEPT ![k] = [Work |-> "start", Completion |-> "prepared"]]
    /\ Prepare("Completion")
    /\ UNCHANGED <<suspends, queue, parked, scheduled, terminated>>

\* The completion port has no node to reserve: the work port is restored.
CancelTermination(k) ==
    /\ stage[k]["Completion"] = "none"
    /\ Advance(k, "Work", "prepared", "canceled")
    /\ status' = [status EXCEPT !["Work"] = IF @ = "Canceled" THEN "Active" ELSE @]
    /\ UNCHANGED <<suspends, queue, parked, scheduled, terminated>>

-----------------------------------------------------------------------------
(* ITaskQueuePort::Terminate: the work port's on the caller's thread, the   *)
(* completion port's on the thread that delivers the work port's            *)

SetTerminating(k, p) ==
    /\ Advance(k, p, "start", "suspend")
    /\ status' = [status EXCEPT ![p] = "Terminating"]
    /\ UNCHANGED <<suspends, queue, parked, scheduled, terminated>>

\* Mutant of AddSuspend: a termination does not look who suspends it.
AddSuspendAlone(k, p) ==
    /\ Advance(k, p, "suspend", "schedule")
    /\ TakeSuspend(p)
    /\ UNCHANGED <<status, queue, parked, scheduled, terminated>>

AddSuspend(k, p) ==
    /\ Advance(k, p, "suspend", IF suspends[p] = 0 THEN "schedule" ELSE "park")
    /\ TakeSuspend(p)
    /\ UNCHANGED <<status, queue, parked, scheduled, terminated>>

Schedule(k, p) ==
    /\ Advance(k, p, "schedule", "resume")
    /\ scheduled' = [scheduled EXCEPT ![p] = @ \cup {k}]
    /\ UNCHANGED <<status, suspends, queue, parked, terminated>>

Park(k, p) ==
    /\ Advance(k, p, "park", "resume")
    /\ parked' = [parked EXCEPT ![p] = @ \cup {k}]
    /\ UNCHANGED <<status, suspends, queue, scheduled, terminated>>

Resume(k, p) ==
    /\ Advance(k, p, "resume", IF LastSuspend(p) THEN "collect" ELSE "done")
    /\ DropSuspend(p)
    /\ UNCHANGED <<status, queue, parked, scheduled, terminated>>

Collect(k, p) ==
    /\ Advance(k, p, "collect", "done")
    /\ CollectParked(p)
    /\ UNCHANGED <<status, suspends, queue, terminated>>

\* SignalTerminations and OnTerminationCallback: the work port's termination
\* goes on to the completion port, the completion port's calls the caller back.
Deliver(k, p) ==
    /\ k \in scheduled[p]
    /\ scheduled' = [scheduled EXCEPT ![p] = @ \ {k}]
    /\ status' = [status EXCEPT ![p] = "Terminated"]
    /\ IF p = "Work"
       THEN Advance(k, "Completion", "prepared", "start") /\ UNCHANGED terminated
       ELSE terminated' = terminated \cup {k} /\ UNCHANGED stage
    /\ UNCHANGED <<suspends, queue, parked>>

PortTerminate(k, p) ==
    \/ SetTerminating(k, p) \/ AddSuspend(k, p) \/ Schedule(k, p) \/ Park(k, p)
    \/ Resume(k, p) \/ Collect(k, p) \/ Deliver(k, p)

\* What goes on by itself once a call of XTaskQueueTerminate is prepared
TerminationStep(k) ==
    \/ PrepareCompletion(k) \/ CancelTermination(k)
    \/ \E p \in Ports : PortTerminate(k, p)
=============================================================================
