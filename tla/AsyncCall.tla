------------------------------- MODULE AsyncCall -------------------------------
(***************************************************************************)
(* Asynchronous calls (src/src/System/Threading/XAsync.cpp) over one task  *)
(* queue: XAsyncBegin, XAsyncSchedule, XAsyncComplete, XAsyncCancel,       *)
(* XAsyncGetStatus and XAsyncGetResult, with the provider, the client and  *)
(* the threads of the queue around them.                                   *)
(*                                                                         *)
(* Every step is one section under the locks of the async block, one       *)
(* atomic access to the AsyncState, one call to the queue, or one call of  *)
(* the provider or the client.  A thread works for one call at a time;     *)
(* stack[t] holds the places its nested functions return to.  A result is  *)
(* "ok" (no payload), "data" (with one), "fail" or "abort".  Each call has *)
(* a block of its own, and a provider does not touch a call any more once  *)
(* it was told to clean up.                                                *)
(***************************************************************************)
EXTENDS TaskQueue, FiniteSets

CONSTANTS
    Calls,          \* the calls; each is also the client thread that begins it
    HasCallback,    \* the calls whose block has a completion callback
    Workers,        \* the threads that run the work port's callbacks
    Notifiers,      \* the threads that run the completion port's callbacks
    Cancelers,      \* the threads that call XAsyncCancel
    Outsiders,      \* threads of a provider that complete what it started
    ProviderResults,  \* what a provider completes a call with
    MaxSchedules,   \* how often a provider schedules a call
    None            \* no call

Threads == Calls \cup Workers \cup Notifiers \cup Cancelers \cup Outsiders

\* A process has finitely many threads, and each termination is one of them.
ASSUME CallAssumption ==
    /\ IsFiniteSet(Threads) /\ IsFiniteSet(Terminations)
    /\ HasCallback \subseteq Calls
    /\ MaxSchedules \in Nat
    /\ ProviderResults \subseteq {"ok", "data", "fail", "abort"}
    /\ None \notin Calls
    /\ Calls \cap (Workers \cup Notifiers \cup Cancelers \cup Outsiders) = {}
    /\ Workers \cap (Notifiers \cup Cancelers \cup Outsiders) = {}
    /\ Notifiers \cap (Cancelers \cup Outsiders) = {}
    /\ Cancelers \cap Outsiders = {}

VARIABLES
    blockStatus,   \* the status in the block: "none" before XAsyncBegin
    attached,      \* the block points to its AsyncState
    refs,          \* the references to the AsyncState
    cleanup,       \* its providerCleanup
    workScheduled, \* its workScheduled
    valid,         \* its valid
    waitSatisfied, \* its waitSatisfied
    payload,       \* its providerData.bufferSize is not zero
    pc,            \* where each thread is
    stack,         \* the places its functions return to
    call,          \* the call it works for
    arg,           \* the result it passes to XAsyncComplete or gets from a provider
    owed,          \* the provider has started something that will complete the call
    asked,         \* the client has called XAsyncGetResult
    schedules,     \* how often the provider has called XAsyncSchedule
    cleanups,      \* how often the provider was told to clean up
    signals,       \* how often SignalWait was called
    failFast       \* FAIL_FAST_IF_FAILED has ended the process

blockVars == <<blockStatus, attached, payload>>
stateVars == <<workScheduled, valid, waitSatisfied>>
lifeVars == <<refs, cleanup, owed, cleanups>>
threadVars == <<pc, stack, call, arg>>
otherVars == <<asked, schedules, signals, failFast>>

vars == <<queueVars, blockVars, stateVars, lifeVars, threadVars, otherVars>>

Init ==
    /\ QueueInit
    /\ blockStatus = [a \in Calls |-> "none"]
    /\ attached = [a \in Calls |-> FALSE]
    /\ refs = [a \in Calls |-> 0]
    /\ cleanup = [a \in Calls |-> "Destructor"]
    /\ workScheduled = [a \in Calls |-> FALSE]
    /\ valid = [a \in Calls |-> TRUE]
    /\ waitSatisfied = [a \in Calls |-> FALSE]
    /\ payload = [a \in Calls |-> FALSE]
    /\ pc = [t \in Threads |-> "idle"]
    /\ stack = [t \in Threads |-> <<>>]
    /\ call = [t \in Threads |-> IF t \in Calls THEN t ELSE None]
    /\ arg = [t \in Threads |-> "ok"]
    /\ owed = [a \in Calls |-> FALSE]
    /\ asked = [a \in Calls |-> FALSE]
    /\ schedules = [a \in Calls |-> 0]
    /\ cleanups = [a \in Calls |-> 0]
    /\ signals = [a \in Calls |-> 0]
    /\ failFast = FALSE

-----------------------------------------------------------------------------
(* Control: a thread goes to another place, enters a function with a place  *)
(* to return to, or returns.                                                *)

Enter(t, to, back) ==
    /\ pc' = [pc EXCEPT ![t] = to]
    /\ stack' = [stack EXCEPT ![t] = back]

Goto(t, to) == Enter(t, to, stack[t])

Call(t, to, back) == Enter(t, to, <<back>> \o stack[t])

Return(t) == Enter(t, Head(stack[t]), Tail(stack[t]))

AddRef(a) == refs' = [refs EXCEPT ![a] = @ + 1]

\* The provider's Cleanup; it ends whatever the provider had started.
Clean(a) ==
    /\ cleanup' = [cleanup EXCEPT ![a] = "CleanedUp"]
    /\ cleanups' = [cleanups EXCEPT ![a] = @ + 1]
    /\ owed' = [owed EXCEPT ![a] = FALSE]

\* Mutant of Drop: the destructor cleans up only what nobody else has marked.
DropUnmarked(a) ==
    /\ refs' = [refs EXCEPT ![a] = @ - 1]
    /\ IF refs[a] = 1 /\ cleanup[a] = "Destructor"
       THEN Clean(a) ELSE UNCHANGED <<cleanup, cleanups, owed>>

\* Release; the destructor cleans up if nobody has before.
Drop(a) ==
    /\ refs' = [refs EXCEPT ![a] = @ - 1]
    /\ IF refs[a] = 1 /\ cleanup[a] # "CleanedUp"
       THEN Clean(a) ELSE UNCHANGED <<cleanup, cleanups, owed>>

\* A function's own AsyncStateRef goes out of scope.
Release(t) ==
    /\ pc[t] = "release"
    /\ Drop(call[t])
    /\ Return(t)
    /\ UNCHANGED <<queueVars, blockVars, stateVars, call, arg, otherVars>>

-----------------------------------------------------------------------------
(* XAsyncBegin *)

\* AllocState suspends the termination of the queue,
Begin(a) ==
    /\ pc[a] = "idle" /\ blockStatus[a] = "none"
    /\ Enter(a, "verify", <<>>)
    /\ TakeSuspend("Work")
    /\ UNCHANGED <<status, queue, parked, scheduled, stage, terminated, blockVars,
                   stateVars, lifeVars, call, arg, otherVars>>

\* and fails if the queue is terminated by then.
VerifySuspend(a) ==
    /\ pc[a] = "verify"
    /\ IF Refuses("Work")
       THEN /\ blockStatus' = [blockStatus EXCEPT ![a] = "fail"]
            /\ Enter(a, "resume", <<"done">>)
            /\ UNCHANGED <<attached, refs>>
       ELSE /\ blockStatus' = [blockStatus EXCEPT ![a] = "pending"]
            /\ attached' = [attached EXCEPT ![a] = TRUE]
            /\ refs' = [refs EXCEPT ![a] = 2]     \* the block's and XAsyncBegin's
            /\ Enter(a, "begin", <<"begun">>)
    /\ UNCHANGED <<queueVars, payload, stateVars, cleanup, owed, cleanups, call, arg,
                   otherVars>>

\* The provider's Begin and DoWork complete the call, schedule it, start
\* something that will complete it later, or fail.
ProviderOp(t, back) ==
    LET a == call[t] IN
    /\ \/ /\ \E r \in ProviderResults : arg' = [arg EXCEPT ![t] = r]
          /\ Call(t, "complete", back)
          /\ UNCHANGED <<owed, schedules>>
       \/ /\ schedules[a] < MaxSchedules
          /\ schedules' = [schedules EXCEPT ![a] = @ + 1]
          /\ Call(t, "schedule", back)
          /\ UNCHANGED <<arg, owed>>
       \/ /\ owed' = [owed EXCEPT ![a] = TRUE]
          /\ arg' = [arg EXCEPT ![t] = "pending"]
          /\ Goto(t, back)
          /\ UNCHANGED schedules
       \/ /\ arg' = [arg EXCEPT ![t] = "fail"]
          /\ Goto(t, back)
          /\ UNCHANGED <<owed, schedules>>
    /\ UNCHANGED <<queueVars, blockVars, stateVars, refs, cleanup, cleanups, call,
                   asked, signals, failFast>>

ProviderBegin(a) == pc[a] = "begin" /\ ProviderOp(a, "beginning")

\* A Begin that failed completes the call; otherwise XAsyncBegin returns.
EndBegin(a) ==
    /\ pc[a] = "beginning"
    /\ IF arg[a] = "fail"
       THEN Call(a, "complete", "release") /\ UNCHANGED arg
       ELSE Goto(a, "release") /\ arg' = [arg EXCEPT ![a] = "ok"]
    /\ UNCHANGED <<queueVars, blockVars, stateVars, lifeVars, call, otherVars>>

-----------------------------------------------------------------------------
(* XAsyncSchedule: arg[t] becomes "pending" or "fail", what the provider    *)
(* returns after it.                                                        *)

ScheduleCall(t) ==
    LET a == call[t] IN
    /\ pc[t] = "schedule"
    /\ IF attached[a] /\ blockStatus[a] \notin {"fail", "abort"}
       THEN AddRef(a) /\ Goto(t, "claim") /\ UNCHANGED arg
       ELSE Return(t) /\ arg' = [arg EXCEPT ![t] = "fail"] /\ UNCHANGED refs
    /\ UNCHANGED <<queueVars, blockVars, stateVars, cleanup, owed, cleanups, call,
                   otherVars>>

\* compare_exchange_strong on workScheduled
ClaimSchedule(t) ==
    LET a == call[t] IN
    /\ pc[t] = "claim"
    /\ workScheduled' = [workScheduled EXCEPT ![a] = TRUE]
    /\ arg' = [arg EXCEPT ![t] = IF workScheduled[a] THEN "fail" ELSE "pending"]
    /\ Goto(t, IF workScheduled[a] THEN "release" ELSE "submit")
    /\ UNCHANGED <<queueVars, blockVars, valid, waitSatisfied, lifeVars, call,
                   otherVars>>

\* Mutant of SubmitWork: the reference that went with the callback is released too.
SubmitUndetached(t) ==
    /\ pc[t] = "submit"
    /\ Goto(t, "release")
    /\ IF Refuses("Work")
       THEN arg' = [arg EXCEPT ![t] = "fail"] /\ UNCHANGED queue
       ELSE Submit("Work", call[t]) /\ UNCHANGED arg
    /\ UNCHANGED <<status, suspends, parked, scheduled, stage, terminated, blockVars,
                   stateVars, lifeVars, call, otherVars>>

\* The queue takes the reference with the callback, or it refuses.
SubmitWork(t) ==
    /\ pc[t] = "submit"
    /\ IF Refuses("Work")
       THEN /\ arg' = [arg EXCEPT ![t] = "fail"]
            /\ Goto(t, "release")
            /\ UNCHANGED queue
       ELSE Submit("Work", call[t]) /\ Return(t) /\ UNCHANGED arg
    /\ UNCHANGED <<status, suspends, parked, scheduled, stage, terminated, blockVars,
                   stateVars, lifeVars, call, otherVars>>

-----------------------------------------------------------------------------
(* XAsyncComplete *)

\* Mutant of TrySetTerminalStatus: the last result wins.
SetTerminalStatus(a, r) ==
    /\ blockStatus[a] # "none"
    /\ blockStatus' = [blockStatus EXCEPT ![a] = IF r = "data" THEN "ok" ELSE r]

\* The first result is kept.
TrySetTerminalStatus(a, r) ==
    /\ blockStatus[a] = "pending"
    /\ blockStatus' = [blockStatus EXCEPT ![a] = IF r = "data" THEN "ok" ELSE r]

\* The section under the block's locks.  Without a payload the state is extracted
\* from the block, to be cleaned up once the completion is signaled.
CompleteWith(t, a, r, back) ==
    \/ /\ TrySetTerminalStatus(a, r)
       /\ AddRef(a)
       /\ IF r = "data"
          THEN /\ payload' = [payload EXCEPT ![a] = TRUE]
               /\ Enter(t, "signal", <<"release">> \o back)
               /\ UNCHANGED attached
          ELSE /\ attached' = [attached EXCEPT ![a] = FALSE]
               /\ Enter(t, "signal", <<"settle">> \o back)
               /\ UNCHANGED payload
    \/ /\ blockStatus[a] # "pending"
       /\ IF attached[a]
          THEN AddRef(a) /\ Enter(t, "release", back)
          ELSE Enter(t, Head(back), Tail(back)) /\ UNCHANGED refs
       /\ UNCHANGED blockVars

\* Its caller goes on with success.
Complete(t) ==
    /\ pc[t] = "complete"
    /\ CompleteWith(t, call[t], arg[t], stack[t])
    /\ arg' = [arg EXCEPT ![t] = "ok"]
    /\ UNCHANGED <<queueVars, stateVars, cleanup, owed, cleanups, call, otherVars>>

\* Mutant of SignalCompletion: the completion port gets no reference of its own.
SignalUnreferenced(t) ==
    LET a == call[t] IN
    /\ pc[t] = "signal"
    /\ \/ /\ a \in HasCallback /\ ~Refuses("Completion")
          /\ Submit("Completion", a)
          /\ Return(t)
          /\ UNCHANGED <<refs, failFast>>
       \/ /\ a \in HasCallback /\ Refuses("Completion")
          /\ failFast' = TRUE
          /\ Goto(t, "dead")
          /\ UNCHANGED <<refs, queue>>
       \/ /\ a \notin HasCallback
          /\ Goto(t, "satisfy")
          /\ UNCHANGED <<refs, queue, failFast>>
    /\ UNCHANGED <<status, suspends, parked, scheduled, stage, terminated, blockVars,
                   stateVars, cleanup, owed, cleanups, call, arg, asked,
                   schedules, signals>>

\* The completion callback is submitted, which must not fail; a call without one
\* is signaled here.
SignalCompletion(t) ==
    LET a == call[t] IN
    /\ pc[t] = "signal"
    /\ \/ /\ a \in HasCallback /\ ~Refuses("Completion")
          /\ Submit("Completion", a)
          /\ AddRef(a)
          /\ Return(t)
          /\ UNCHANGED failFast
       \/ /\ a \in HasCallback /\ Refuses("Completion")
          /\ failFast' = TRUE
          /\ Goto(t, "dead")
          /\ UNCHANGED <<refs, queue>>
       \/ /\ a \notin HasCallback
          /\ Goto(t, "satisfy")
          /\ UNCHANGED <<refs, queue, failFast>>
    /\ UNCHANGED <<status, suspends, parked, scheduled, stage, terminated, blockVars,
                   stateVars, cleanup, owed, cleanups, call, arg, asked,
                   schedules, signals>>

\* SignalWait: the waiters go on, and the first time the suspend is given back.
SignalWait(t) ==
    LET a == call[t] IN
    /\ pc[t] = "satisfy"
    /\ waitSatisfied' = [waitSatisfied EXCEPT ![a] = TRUE]
    /\ signals' = [signals EXCEPT ![a] = @ + 1]
    /\ IF waitSatisfied[a] THEN Return(t) ELSE Goto(t, "resume")
    /\ UNCHANGED <<queueVars, blockVars, workScheduled, valid, lifeVars, call, arg,
                   asked, schedules, failFast>>

\* XTaskQueueResumeTermination, also SuspendTermination's own when it refuses
ResumeQueue(t) ==
    /\ pc[t] = "resume"
    /\ DropSuspend("Work")
    /\ IF LastSuspend("Work") THEN Goto(t, "collect") ELSE Return(t)
    /\ UNCHANGED <<status, queue, parked, scheduled, stage, terminated, blockVars,
                   stateVars, lifeVars, call, arg, otherVars>>

CollectQueue(t) ==
    /\ pc[t] = "collect"
    /\ CollectParked("Work")
    /\ Return(t)
    /\ UNCHANGED <<status, suspends, queue, stage, terminated, blockVars, stateVars,
                   lifeVars, call, arg, otherVars>>

\* Mutant of Settle: the provider cleans up as soon as the call is complete.
SettleNow(t) ==
    LET a == call[t] IN
    /\ pc[t] = "settle"
    /\ IF cleanup[a] = "Destructor"
       THEN Clean(a)
       ELSE UNCHANGED <<cleanup, cleanups, owed>>
    /\ Goto(t, "free")
    /\ UNCHANGED <<queueVars, blockVars, stateVars, refs, call, arg, otherVars>>

\* TrySetProviderCleanup(AfterDoWork)
Settle(t) ==
    LET a == call[t] IN
    /\ pc[t] = "settle"
    /\ cleanup' = [cleanup EXCEPT ![a] = IF @ = "Destructor" THEN "AfterDoWork" ELSE @]
    /\ Goto(t, "free")
    /\ UNCHANGED <<queueVars, blockVars, stateVars, refs, owed, cleanups, call, arg,
                   otherVars>>

\* CleanupState gives up the reference that was the block's.
CleanupState(t) ==
    LET a == call[t] IN
    /\ pc[t] = "free"
    /\ valid' = [valid EXCEPT ![a] = FALSE]
    /\ Drop(a)
    /\ Goto(t, "release")
    /\ UNCHANGED <<queueVars, blockVars, workScheduled, waitSatisfied, call, arg,
                   otherVars>>

-----------------------------------------------------------------------------
(* XAsyncCancel *)

Cancel(t) ==
    LET a == call[t] IN
    /\ pc[t] = "cancel"
    /\ IF attached[a]
       THEN AddRef(a) /\ Goto(t, "try")
       ELSE Return(t) /\ UNCHANGED refs
    /\ UNCHANGED <<queueVars, blockVars, stateVars, cleanup, owed, cleanups, call, arg,
                   otherVars>>

\* TrySetProviderCleanup(InCancel)
TryCancel(t) ==
    LET a == call[t] IN
    /\ pc[t] = "try"
    /\ IF cleanup[a] = "Destructor"
       THEN cleanup' = [cleanup EXCEPT ![a] = "InCancel"] /\ Goto(t, "canceling")
       ELSE UNCHANGED cleanup /\ Goto(t, "release")
    /\ UNCHANGED <<queueVars, blockVars, stateVars, refs, owed, cleanups, call, arg,
                   otherVars>>

\* The provider's Cancel completes the call, or leaves that to what it has started.
ProviderCancel(t) ==
    /\ pc[t] = "canceling"
    /\ \/ /\ arg' = [arg EXCEPT ![t] = "abort"]
          /\ Call(t, "complete", "revert")
       \/ Goto(t, "revert") /\ UNCHANGED arg
    /\ UNCHANGED <<queueVars, blockVars, stateVars, lifeVars, call, otherVars>>

RevertCancel(t) ==
    LET a == call[t] IN
    /\ pc[t] = "revert"
    /\ cleanup' = [cleanup EXCEPT ![a] = IF @ = "InCancel" THEN "Destructor" ELSE @]
    /\ Goto(t, "release")
    /\ UNCHANGED <<queueVars, blockVars, stateVars, refs, owed, cleanups, call, arg,
                   otherVars>>

-----------------------------------------------------------------------------
(* WorkerCallback *)

\* The work port calls back: canceled is decided when the entry is popped.
RunWork(w) ==
    /\ pc[w] = "idle" /\ queue["Work"] # <<>>
    /\ call' = [call EXCEPT ![w] = Head(queue["Work"])]
    /\ queue' = [queue EXCEPT !["Work"] = Tail(@)]
    /\ Enter(w, IF Cancels("Work") THEN "start canceled" ELSE "start", <<"idle">>)
    /\ UNCHANGED <<status, suspends, parked, scheduled, stage, terminated, blockVars,
                   stateVars, lifeVars, arg, otherVars>>

StartWork(w) ==
    LET a == call[w] IN
    /\ pc[w] \in {"start", "start canceled"}
    /\ workScheduled' = [workScheduled EXCEPT ![a] = FALSE]
    /\ \/ /\ ~valid[a]
          /\ Goto(w, "release")
       \/ /\ pc[w] = "start canceled" /\ valid[a]
          /\ Call(w, "cancel", "aborting")
       \/ /\ pc[w] = "start" /\ valid[a]
          /\ Goto(w, "working")
    /\ UNCHANGED <<queueVars, blockVars, valid, waitSatisfied, lifeVars, call, arg,
                   otherVars>>

\* Mutant of Abort: a canceled call is left to the provider.
AbortNever(w) ==
    /\ pc[w] = "aborting"
    /\ Goto(w, "after")
    /\ UNCHANGED <<queueVars, blockVars, stateVars, lifeVars, call, arg, otherVars>>

\* A canceled call is completed unless its provider has aborted it.
Abort(w) ==
    /\ pc[w] = "aborting"
    /\ IF blockStatus[call[w]] = "abort"
       THEN Goto(w, "after") /\ UNCHANGED arg
       ELSE Call(w, "complete", "after") /\ arg' = [arg EXCEPT ![w] = "abort"]
    /\ UNCHANGED <<queueVars, blockVars, stateVars, lifeVars, call, otherVars>>

ProviderDoWork(w) == pc[w] = "working" /\ ProviderOp(w, "worked")

\* DoWork has returned: any result but E_PENDING completes the call, a success
\* as E_UNEXPECTED.
EndWork(w) ==
    /\ pc[w] = "worked"
    /\ IF arg[w] = "pending"
       THEN Goto(w, "after") /\ arg' = [arg EXCEPT ![w] = "ok"]
       ELSE Call(w, "complete", "after") /\ arg' = [arg EXCEPT ![w] = "fail"]
    /\ UNCHANGED <<queueVars, blockVars, stateVars, lifeVars, call, otherVars>>

\* CleanupProviderForLocation(AfterDoWork)
CleanupAfterWork(w) ==
    LET a == call[w] IN
    /\ pc[w] = "after"
    /\ IF cleanup[a] = "AfterDoWork" THEN Clean(a) ELSE UNCHANGED <<cleanup, cleanups, owed>>
    /\ Goto(w, "release")
    /\ UNCHANGED <<queueVars, blockVars, stateVars, refs, call, arg, otherVars>>

-----------------------------------------------------------------------------
(* CompletionCallback *)

RunCompletion(d) ==
    /\ pc[d] = "idle" /\ queue["Completion"] # <<>>
    /\ call' = [call EXCEPT ![d] = Head(queue["Completion"])]
    /\ queue' = [queue EXCEPT !["Completion"] = Tail(@)]
    /\ Enter(d, "callback", <<"release", "idle">>)
    /\ UNCHANGED <<status, suspends, parked, scheduled, stage, terminated, blockVars,
                   stateVars, lifeVars, arg, otherVars>>

\* The client's callback, which may fetch the result, and then SignalWait
ClientCallback(d) ==
    /\ pc[d] = "callback"
    /\ \/ Goto(d, "satisfy") /\ UNCHANGED asked
       \/ /\ ~asked[call[d]]
          /\ asked' = [asked EXCEPT ![call[d]] = TRUE]
          /\ Call(d, "result", "satisfy")
    /\ UNCHANGED <<queueVars, blockVars, stateVars, lifeVars, call, arg,
                   schedules, signals, failFast>>

-----------------------------------------------------------------------------
(* XAsyncGetResult, XAsyncGetStatus *)

\* Only a call that ended with a payload has something to fetch.
GetResult(t) ==
    LET a == call[t] IN
    /\ pc[t] = "result"
    /\ IF attached[a] /\ blockStatus[a] # "pending"
       THEN AddRef(a) /\ Goto(t, "fetch")
       ELSE Return(t) /\ UNCHANGED refs
    /\ UNCHANGED <<queueVars, blockVars, stateVars, cleanup, owed, cleanups, call, arg,
                   otherVars>>

\* The provider's GetResult has returned: the state is extracted and cleaned up.
ExtractResult(t) ==
    /\ pc[t] = "fetch"
    /\ attached' = [attached EXCEPT ![call[t]] = FALSE]
    /\ Goto(t, "free")
    /\ UNCHANGED <<queueVars, blockStatus, payload, stateVars, lifeVars, call, arg,
                   otherVars>>

\* XAsyncGetStatus with wait: a call whose state has been extracted is over.
GetStatus(a) ==
    /\ pc[a] = "begun"
    /\ IF attached[a]
       THEN AddRef(a) /\ Enter(a, "waiting", <<"waited">>)
       ELSE Enter(a, "waited", <<>>) /\ UNCHANGED refs
    /\ UNCHANGED <<queueVars, blockVars, stateVars, cleanup, owed, cleanups, call, arg,
                   otherVars>>

WaitReturns(a) ==
    /\ pc[a] = "waiting" /\ waitSatisfied[a]
    /\ Goto(a, "release")
    /\ UNCHANGED <<queueVars, blockVars, stateVars, lifeVars, call, arg,
                   otherVars>>

\* The client fetches the result itself, if its callback does not.
FetchResult(a) ==
    /\ pc[a] = "waited"
    /\ \/ /\ ~asked[a]
          /\ asked' = [asked EXCEPT ![a] = TRUE]
          /\ Enter(a, "result", <<"done">>)
       \/ /\ asked[a] \/ a \in HasCallback
          /\ Enter(a, "done", <<>>) /\ UNCHANGED asked
    /\ UNCHANGED <<queueVars, blockVars, stateVars, lifeVars, call, arg,
                   schedules, signals, failFast>>

-----------------------------------------------------------------------------
(* The other threads *)

StartCancel(x, a) ==
    /\ pc[x] = "idle" /\ blockStatus[a] # "none"
    /\ call' = [call EXCEPT ![x] = a]
    /\ Enter(x, "cancel", <<"idle">>)
    /\ UNCHANGED <<queueVars, blockVars, stateVars, lifeVars, arg, otherVars>>

\* What the provider has started comes to its end.
OutsiderCompletes(o, a) ==
    /\ pc[o] = "idle" /\ owed[a]
    /\ owed' = [owed EXCEPT ![a] = FALSE]
    /\ call' = [call EXCEPT ![o] = a]
    /\ \E r \in ProviderResults : CompleteWith(o, a, r, <<"idle">>)
    /\ UNCHANGED <<queueVars, stateVars, cleanup, cleanups, arg, otherVars>>

\* Whatever a thread has begun goes on by itself.
Proceed(t) ==
    \/ Release(t)
    \/ ScheduleCall(t) \/ ClaimSchedule(t) \/ SubmitWork(t)
    \/ Complete(t) \/ SignalCompletion(t) \/ SignalWait(t)
    \/ ResumeQueue(t) \/ CollectQueue(t) \/ Settle(t) \/ CleanupState(t)
    \/ Cancel(t) \/ TryCancel(t) \/ ProviderCancel(t) \/ RevertCancel(t)
    \/ GetResult(t) \/ ExtractResult(t)

ClientStep(a) ==
    \/ VerifySuspend(a) \/ ProviderBegin(a) \/ EndBegin(a)
    \/ GetStatus(a) \/ WaitReturns(a) \/ FetchResult(a)

WorkerStep(w) ==
    \/ RunWork(w) \/ StartWork(w) \/ Abort(w) \/ ProviderDoWork(w) \/ EndWork(w)
    \/ CleanupAfterWork(w)

NotifierStep(d) == RunCompletion(d) \/ ClientCallback(d)

QueueStep(k) ==
    /\ TerminationStep(k)
    /\ UNCHANGED <<blockVars, stateVars, lifeVars, threadVars, otherVars>>

StartTerminate(k) ==
    /\ PrepareWork(k)
    /\ UNCHANGED <<blockVars, stateVars, lifeVars, threadVars, otherVars>>

\* A process that has failed fast takes no more steps.
Next ==
    /\ ~failFast
    /\ \/ \E t \in Threads : Proceed(t)
       \/ \E a \in Calls : Begin(a) \/ ClientStep(a)
       \/ \E w \in Workers : WorkerStep(w)
       \/ \E d \in Notifiers : NotifierStep(d)
       \/ \E x \in Cancelers, a \in Calls : StartCancel(x, a)
       \/ \E o \in Outsiders, a \in Calls : OutsiderCompletes(o, a)
       \/ \E k \in Terminations : StartTerminate(k) \/ QueueStep(k)

Spec == Init /\ [][Next]_vars

\* Every thread runs, the ports call what was submitted, a provider completes
\* what it has started.  Nobody has to begin, cancel or terminate.
Fairness ==
    /\ \A t \in Threads : WF_vars(Proceed(t))
    /\ \A a \in Calls : WF_vars(ClientStep(a))
    /\ \A w \in Workers : WF_vars(WorkerStep(w))
    /\ \A d \in Notifiers : WF_vars(NotifierStep(d))
    /\ \A o \in Outsiders : WF_vars(\E a \in Calls : OutsiderCompletes(o, a))
    /\ \A k \in Terminations : WF_vars(QueueStep(k))

FairSpec == Spec /\ Fairness

-----------------------------------------------------------------------------
(* Properties *)

Labels == {"idle", "verify", "begin", "beginning", "begun", "waiting", "waited",
           "done", "schedule", "claim", "submit", "complete", "signal", "satisfy",
           "resume", "collect", "settle", "free", "release", "cancel", "try",
           "canceling", "revert", "start", "start canceled", "aborting", "working",
           "worked", "after", "callback", "result", "fetch", "dead"}

\* The types of the calls' and the queue's state.
TypeOK ==
    /\ status \in [Ports -> {"Active", "Canceled", "Terminating", "Terminated"}]
    /\ suspends \in [Ports -> Nat]
    /\ queue \in [Ports -> Seq(Calls)]
    /\ parked \in [Ports -> SUBSET Terminations]
    /\ scheduled \in [Ports -> SUBSET Terminations]
    /\ terminated \subseteq Terminations
    /\ blockStatus \in [Calls -> {"none", "pending", "ok", "fail", "abort"}]
    /\ attached \in [Calls -> BOOLEAN] /\ payload \in [Calls -> BOOLEAN]
    /\ refs \in [Calls -> Nat]
    /\ cleanup \in [Calls -> {"Destructor", "AfterDoWork", "InCancel", "CleanedUp"}]
    /\ workScheduled \in [Calls -> BOOLEAN] /\ valid \in [Calls -> BOOLEAN]
    /\ waitSatisfied \in [Calls -> BOOLEAN]
    /\ pc \in [Threads -> Labels] /\ stack \in [Threads -> Seq(Labels)]
    /\ call \in [Threads -> Calls \cup {None}]
    /\ arg \in [Threads -> {"ok", "data", "fail", "abort", "pending"}]
    /\ owed \in [Calls -> BOOLEAN] /\ asked \in [Calls -> BOOLEAN]
    /\ schedules \in [Calls -> Nat] /\ cleanups \in [Calls -> Nat]
    /\ signals \in [Calls -> Nat]
    /\ failFast \in BOOLEAN

Places(t) == {pc[t]} \cup {stack[t][n] : n \in DOMAIN stack[t]}

\* The threads that are inside the provider's DoWork or Cancel for a call
InProvider(a) ==
    {t \in Threads : /\ call[t] = a
                     /\ Places(t) \cap {"working", "worked", "canceling"} # {}}

\* A provider is told to clean up at most once, and never while its DoWork or its
\* Cancel runs or before they start, whoever completes and cancels the call when
\* (ProviderCleanupLocation).
CleanupWaitsForWork ==
    \A a \in Calls : cleanups[a] > 0 => cleanups[a] = 1 /\ InProvider(a) = {}

\* The assertion of the provider in the tests: when it is told to clean up, no DoWork
\* is under way, not counting one that has itself completed the call.
NoWorkAtCleanup ==
    \A a \in Calls : cleanups[a] > 0 =>
        ~ \E t \in Workers : /\ call[t] = a
                             /\ \/ pc[t] = "working"
                                \/ pc[t] = "worked" /\ arg[t] = "pending"

\* The assertion of SignalWait: a call is signaled once, so it gives back the
\* suspend of the queue that XAsyncBegin took, and no other.
SignaledOnce == \A a \in Calls : signals[a] <= 1

\* The assertion of XAsyncComplete: the completion callback is never refused,
\* for the queue cannot terminate before the call is signaled.
CompletionAccepted == ~failFast

\* Nobody uses an AsyncState that was deleted: not the block, not a queued
\* callback, not a thread in one of the functions.
LiveReferences ==
    \A a \in Calls :
        (\/ attached[a]
         \/ \E p \in Ports : \E n \in DOMAIN queue[p] : queue[p][n] = a
         \/ \E t \in Threads : call[t] = a /\ "release" \in Places(t))
        => refs[a] > 0

\* A termination is called back only after every call that was begun on the queue
\* has been signaled (XTaskQueueSuspendTermination in AllocStateNoCompletion).
TerminationWaitsForCalls ==
    terminated # {} => \A a \in Calls : refs[a] > 0 => waitSatisfied[a]

\* Whoever waits for a call returns, however it ended: completed by its provider,
\* canceled, or aborted by the termination of its queue.
WaitersReturn == \A a \in Calls : (pc[a] = "waiting") ~> (pc[a] = "waited")

\* A call without a payload, or whose result was fetched, is cleaned up at last.
CallsAreCleanedUp ==
    \A a \in Calls :
        (blockStatus[a] \notin {"none", "pending"} /\ refs[a] > 0 /\ ~attached[a])
            ~> (cleanups[a] > 0)

\* A termination that was not withdrawn is called back at last, whatever calls were
\* outstanding.
TerminationEnds ==
    \A k \in Terminations :
        (stage[k]["Work"] = "suspend") ~> (k \in terminated)
=============================================================================
