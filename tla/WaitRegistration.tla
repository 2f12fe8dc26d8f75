--------------------------- MODULE WaitRegistration ---------------------------
(***************************************************************************)
(* Wait registrations: XTaskQueueRegisterWaiter and what the port keeps    *)
(* for it.  A handle that is signaled queues the registration's callback,  *)
(* through the thread pool's wait or through a dispatcher that waits, and  *)
(* the wait is set again when the callback has been called.  Unregister    *)
(* takes a registration away, and so does the end of its port context.     *)
(*                                                                         *)
(* Handles are auto-reset events: one waiter consumes a signal.  Sections  *)
(* under m_lock are one step.  Failing allocations are left out, the       *)
(* limits of the arrays are not.                                           *)
(***************************************************************************)
EXTENDS Integers, Sequences, FiniteSets, Functions

CONSTANTS
    Regs,         \* the calls of RegisterWaitHandle, each with its handle
    Contexts,     \* port contexts of one port
    RegContext,   \* the context each is made through
    Signals,      \* how often each handle is signaled
    Ended,        \* the contexts that are terminated
    Clients,      \* threads that register, unregister and terminate
    PoolThreads,  \* threads the pool calls WaitCallback on
    Dispatchers,  \* threads in DrainOneItem
    Waiters,      \* threads in Wait
    PortWaitMax,  \* PORT_WAIT_MAX
    QueueWaitMax, \* QUEUE_WAIT_MAX
    MaxRefs,      \* bound on refs when Wait begins: it does not give all of them back
    None

Threads == Clients \cup PoolThreads \cup Dispatchers \cup Waiters

\* What the constants have to be.
WaitConstants ==
    /\ None \notin Regs \cup Contexts /\ Ended \subseteq Contexts
    /\ RegContext \in [Regs -> Contexts] /\ Signals \in [Regs -> Nat]
    /\ MaxRefs \in Nat \ {0} /\ PortWaitMax \in Nat \ {0} /\ QueueWaitMax \in Nat \ {0}

VARIABLES
    life,      \* each registration: "none", "live" or "deleted"
    refs,      \* its refs
    deleted,   \* the registrations with deleted set
    appended,  \* those with appended set
    armed,     \* those whose pool wait is set
    waits,     \* m_waits
    events,    \* m_events, without the port's own
    registry,  \* m_waitRegistry of the queue
    queue,     \* the entries of m_queueList made for registrations
    signaled,  \* the handles that are signaled
    signals,   \* how often each may still be
    status,    \* m_status of each context
    pc, reg,   \* where each thread is, the registration (or context) it works on
    snap,      \* its copy of m_waits
    heard      \* its copy of m_events

regVars == <<life, refs, deleted, appended, armed>>
portVars == <<waits, events, queue>>
signalVars == <<signaled, signals>>
localVars == <<reg, snap, heard>>
vars == <<regVars, portVars, registry, signalVars, status, pc, localVars>>

Set(f, t, v) == [f EXCEPT ![t] = v]

Goto(t, from, to) == pc[t] = from /\ pc' = [pc EXCEPT ![t] = to]

\* The call returns; its locals are gone.
Return(t) ==
    /\ pc' = Set(pc, t, "idle") /\ reg' = Set(reg, t, None)
    /\ snap' = Set(snap, t, {}) /\ heard' = Set(heard, t, {})

\* ReleaseWaitRegistration: the last reference deletes.
Release(released) ==
    /\ refs' = [r \in Regs |-> refs[r] - (IF r \in released THEN 1 ELSE 0)]
    /\ life' = [r \in Regs |-> IF r \in released /\ refs[r] = 1 THEN "deleted" ELSE life[r]]

Init ==
    /\ life = [r \in Regs |-> "none"] /\ refs = [r \in Regs |-> 0]
    /\ deleted = {} /\ appended = {} /\ armed = {}
    /\ waits = {} /\ events = {} /\ registry = {} /\ queue = <<>>
    /\ signaled = {} /\ signals = Signals
    /\ status = [c \in Contexts |-> "Active"]
    /\ pc = [t \in Threads |-> "idle"] /\ reg = [t \in Threads |-> None]
    /\ snap = [t \in Threads |-> {}] /\ heard = [t \in Threads |-> {}]

\* SetEvent by the application.
Signal(r) ==
    /\ signals[r] > 0 /\ r \notin signaled
    /\ signals' = Set(signals, r, signals[r] - 1)
    /\ signaled' = signaled \cup {r}
    /\ UNCHANGED <<regVars, portVars, registry, status, pc, localVars>>

-----------------------------------------------------------------------------
(* RegisterWaitHandle of the queue and of its port *)

\* A terminated context is refused; the status is not looked at again.
Register(t, r) ==
    /\ t \in Clients /\ life[r] = "none"
    /\ status[RegContext[r]] \in {"Active", "Canceled"}
    /\ Goto(t, "idle", "add")
    /\ reg' = Set(reg, t, r)
    /\ life' = Set(life, r, "live") /\ refs' = Set(refs, r, 1)
    /\ UNCHANGED <<deleted, appended, armed, portVars, registry, signalVars, status,
                   snap, heard>>

\* InitializeWaitRegistration sets the pool's wait; both arrays take the registration.
Add(t) ==
    LET r == reg[t] IN
    /\ Cardinality(events) < PortWaitMax /\ Cardinality(waits) < PortWaitMax
    /\ Goto(t, "add", "token")
    /\ armed' = armed \cup {r}
    /\ waits' = waits \cup {r} /\ events' = events \cup {r}
    /\ UNCHANGED <<life, refs, deleted, appended, queue, registry, signalVars, status, localVars>>

\* An array is full: E_OUTOFMEMORY.
AddFails(t) ==
    /\ pc[t] = "add"
    /\ Cardinality(events) = PortWaitMax \/ Cardinality(waits) = PortWaitMax
    /\ Return(t)
    /\ life' = Set(life, reg[t], "deleted")
    /\ UNCHANGED <<refs, deleted, appended, armed, portVars, registry, signalVars, status>>

\* The queue keeps the port's token, or takes the registration back.
Token(t) ==
    /\ pc[t] = "token"
    /\ IF Cardinality(registry) < QueueWaitMax
       THEN Return(t) /\ registry' = registry \cup {reg[t]}
       ELSE pc' = Set(pc, t, "remove") /\ UNCHANGED <<registry, localVars>>
    /\ UNCHANGED <<regVars, portVars, signalVars, status>>

-----------------------------------------------------------------------------
(* UnregisterWaitHandle *)

Unregister(t, r) ==
    /\ t \in Clients /\ r \in registry
    /\ Goto(t, "idle", "remove")
    /\ reg' = Set(reg, t, r)
    /\ registry' = registry \ {r}
    /\ UNCHANGED <<regVars, portVars, signalVars, status, snap, heard>>

\* A registration that m_waits does not hold is left as it is.
Remove(t) ==
    LET r == reg[t] IN
    /\ pc[t] = "remove"
    /\ IF r \in waits
       THEN /\ Goto(t, "remove", "disarm")
            /\ deleted' = deleted \cup {r}
            /\ waits' = waits \ {r} /\ events' = events \ {r}
            /\ UNCHANGED localVars
       ELSE Return(t) /\ UNCHANGED <<deleted, waits, events>>
    /\ UNCHANGED <<life, refs, appended, armed, queue, registry, signalVars, status>>

Disarm(t) ==
    /\ Goto(t, "disarm", "close")
    /\ armed' = armed \ {reg[t]}
    /\ UNCHANGED <<life, refs, deleted, appended, portVars, registry, signalVars, status,
                   localVars>>

InWaitCallback(r) ==
    \E p \in PoolThreads : pc[p] \in {"append", "push"} /\ reg[p] = r

\* Mutant of Close: the pool's callbacks are not waited for.
CloseAtOnce(t) ==
    /\ pc[t] = "close"
    /\ Release({reg[t]})
    /\ Return(t)
    /\ UNCHANGED <<deleted, appended, armed, portVars, registry, signalVars, status>>

\* WaitForThreadpoolWaitCallbacks comes before the wait is closed.
Close(t) ==
    /\ pc[t] = "close" /\ ~InWaitCallback(reg[t])
    /\ Release({reg[t]})
    /\ Return(t)
    /\ UNCHANGED <<deleted, appended, armed, portVars, registry, signalVars, status>>

-----------------------------------------------------------------------------
(* A handle is signaled: the pool's WaitCallback, or a dispatcher's Wait *)

Fire(p, r) ==
    /\ p \in PoolThreads /\ r \in armed /\ r \in signaled
    /\ Goto(p, "idle", "append")
    /\ armed' = armed \ {r} /\ signaled' = signaled \ {r}
    /\ reg' = Set(reg, p, r)
    /\ UNCHANGED <<life, refs, deleted, appended, portVars, registry, signals, status,
                   snap, heard>>

\* After its entry is appended a pool thread is done, a waiter has a copy to release.
Done(t) ==
    IF t \in PoolThreads THEN Return(t)
    ELSE pc' = Set(pc, t, "release") /\ UNCHANGED localVars

\* Mutant of TestAndSet: the entry holds no reference.
SetUnreferenced(t) ==
    /\ pc[t] = "append"
    /\ IF reg[t] \in appended
       THEN Done(t) /\ UNCHANGED appended
       ELSE /\ pc' = Set(pc, t, "push")
            /\ appended' = appended \cup {reg[t]}
            /\ UNCHANGED localVars
    /\ UNCHANGED <<life, refs, deleted, armed, portVars, registry, signalVars, status>>

\* Mutant of TestAndSet: the flag is not looked at.
SetBlindly(t) ==
    /\ Goto(t, "append", "push")
    /\ appended' = appended \cup {reg[t]} /\ refs' = Set(refs, reg[t], refs[reg[t]] + 1)
    /\ UNCHANGED <<life, deleted, armed, portVars, registry, signalVars, status, localVars>>

\* AppendWaitRegistrationEntry: one entry at a time, and it holds a reference.
TestAndSet(t) ==
    /\ pc[t] = "append"
    /\ IF reg[t] \in appended
       THEN Done(t) /\ UNCHANGED <<refs, appended>>
       ELSE /\ pc' = Set(pc, t, "push")
            /\ appended' = appended \cup {reg[t]}
            /\ refs' = Set(refs, reg[t], refs[reg[t]] + 1)
            /\ UNCHANGED localVars
    /\ UNCHANGED <<life, deleted, armed, portVars, registry, signalVars, status>>

\* An entry is of a registration and points to it.
Entry(r) == [of |-> r, registration |-> r]

Push(t) ==
    /\ pc[t] = "push"
    /\ queue' = Append(queue, Entry(reg[t]))
    /\ Done(t)
    /\ UNCHANGED <<regVars, waits, events, registry, signalVars, status>>

\* Wait copies the arrays, with a reference on each registration.
Wait(v) ==
    /\ v \in Waiters /\ queue = <<>> /\ \A r \in waits : refs[r] < MaxRefs
    /\ Goto(v, "idle", "waiting")
    /\ snap' = Set(snap, v, waits) /\ heard' = Set(heard, v, events)
    /\ refs' = [r \in Regs |-> refs[r] + (IF r \in waits THEN 1 ELSE 0)]
    /\ UNCHANGED <<life, deleted, appended, armed, portVars, registry, signalVars, status, reg>>

\* The copy of m_waits may lack the registration of a handle in the copy of m_events.
Wake(v, r) ==
    /\ r \in heard[v] /\ r \in signaled
    /\ Goto(v, "waiting", IF r \in snap[v] THEN "append" ELSE "release")
    /\ signaled' = signaled \ {r}
    /\ reg' = Set(reg, v, r)
    /\ UNCHANGED <<regVars, portVars, registry, signals, status, snap, heard>>

\* The port's own event or the timeout: the references of the copy are not released.
WakeOther(v) ==
    /\ pc[v] = "waiting"
    /\ Return(v)
    /\ UNCHANGED <<regVars, portVars, registry, signalVars, status>>

ReleaseCopy(v) ==
    /\ pc[v] = "release"
    /\ Release(snap[v])
    /\ Return(v)
    /\ UNCHANGED <<deleted, appended, armed, portVars, registry, signalVars, status>>

-----------------------------------------------------------------------------
(* DrainOneItem, for an entry of a registration *)

\* The entry is popped and its callback called.
Pop(d) ==
    /\ d \in Dispatchers /\ queue # <<>>
    /\ pc[d] = "idle"
    /\ IF Head(queue).registration = None
       THEN UNCHANGED <<pc, reg>>
       ELSE /\ pc' = Set(pc, d, "called")
            /\ reg' = Set(reg, d, Head(queue).registration)
    /\ queue' = Tail(queue)
    /\ UNCHANGED <<regVars, waits, events, registry, signalVars, status, snap, heard>>

\* Mutant of Rearm: the pool's wait is set again before the flag is cleared.
RearmOnly(d) ==
    /\ pc[d] = "called"
    /\ Release({reg[d]})
    /\ armed' = IF reg[d] \in deleted THEN armed ELSE armed \cup {reg[d]}
    /\ Return(d)
    /\ UNCHANGED <<deleted, appended, portVars, registry, signalVars, status>>

\* Under the lock the reference is released and, unless it is unregistered, the
\* registration made ready for another signal.
Rearm(d) ==
    LET ready == IF reg[d] \in deleted THEN {} ELSE {reg[d]} IN
    /\ pc[d] = "called"
    /\ Release({reg[d]})
    /\ appended' = appended \ ready /\ armed' = armed \cup ready
    /\ Return(d)
    /\ UNCHANGED <<deleted, portVars, registry, signalVars, status>>

-----------------------------------------------------------------------------
(* Termination: the waits' part of CancelPendingEntries *)

Cancel(t, c) ==
    /\ t \in Clients /\ c \in Ended /\ status[c] = "Active"
    /\ Goto(t, "idle", "take")
    /\ status' = Set(status, c, "Terminating")
    /\ reg' = Set(reg, t, c)
    /\ UNCHANGED <<regVars, portVars, registry, signalVars, snap, heard>>

\* The array is emptied; what is not the context's own is dropped from the copy.
TakeWaits(t) ==
    /\ snap' = Set(snap, t, {r \in waits : RegContext[r] = reg[t]})
    /\ waits' = {}
    /\ Goto(t, "take", "cancel")
    /\ UNCHANGED <<regVars, events, queue, registry, signalVars, status, reg, heard>>

\* The pool's wait is closed, a last entry queued that points to no registration, and
\* the registration deleted whatever references it has.
CancelWait(t) ==
    /\ pc[t] = "cancel"
    /\ \E r \in snap[t] :
          /\ armed' = armed \ {r} /\ appended' = appended \cup {r}
          /\ queue' = IF r \in appended THEN queue
                      ELSE Append(queue, [of |-> r, registration |-> None])
          /\ life' = Set(life, r, "deleted")
          /\ snap' = Set(snap, t, snap[t] \ {r})
    /\ UNCHANGED <<refs, deleted, waits, events, registry, signalVars, status, pc, reg, heard>>

EndCancel(t) ==
    /\ pc[t] = "cancel" /\ snap[t] = {}
    /\ Return(t)
    /\ UNCHANGED <<regVars, portVars, registry, signalVars, status>>

-----------------------------------------------------------------------------

Next ==
    \/ \E r \in Regs : Signal(r)
    \/ \E t \in Threads, r \in Regs :
          Register(t, r) \/ Unregister(t, r) \/ Fire(t, r) \/ Wake(t, r)
    \/ \E t \in Threads :
          \/ Add(t) \/ AddFails(t) \/ Token(t)
          \/ Remove(t) \/ Disarm(t) \/ Close(t)
          \/ TestAndSet(t) \/ Push(t)
          \/ Wait(t) \/ WakeOther(t) \/ ReleaseCopy(t)
          \/ Pop(t) \/ Rearm(t)
          \/ TakeWaits(t) \/ CancelWait(t) \/ EndCancel(t)
    \/ \E t \in Threads, c \in Contexts : Cancel(t, c)

Spec == Init /\ [][Next]_vars

-----------------------------------------------------------------------------
(* Properties *)

TypeOK ==
    /\ life \in [Regs -> {"none", "live", "deleted"}] /\ refs \in [Regs -> Nat]
    /\ deleted \cup appended \cup armed \cup waits \cup events \cup registry \cup signaled \subseteq Regs
    /\ queue \in Seq([of : Regs, registration : Regs \cup {None}])
    /\ signals \in [Regs -> Nat] /\ status \in [Contexts -> {"Active", "Terminating"}]
    /\ reg \in [Threads -> Regs \cup Contexts \cup {None}]
    /\ {snap, heard} \subseteq [Threads -> SUBSET Regs]

Entries == Range(queue)

\* Where a thread follows its pointer to a registration.
Following == {"add", "disarm", "close", "append", "push", "called"}

\* The registrations that entries point to and that threads have pointers to and follow.
Followed ==
    {e.registration : e \in Entries} \cup {reg[t] : t \in {u \in Threads : pc[u] \in Following}}
      \cup UNION {snap[t] : t \in {u \in Threads : pc[u] # "waiting"}}

\* No registration is deleted while someone still follows a pointer to it: references,
\* the deleted mark and the wait for the pool's callbacks hold it together.
LiveRegistrations ==
    \A r \in Regs \cap Followed : life[r] = "live"

\* Someone has an entry of the registration to queue, to call or to finish with.
Outstanding(r) ==
    \/ r \in {e.of : e \in Entries}
    \/ \E t \in Threads : pc[t] \in {"push", "called"} /\ reg[t] = r

\* A registration never goes deaf: while it is registered a signal will queue an entry,
\* or an entry on its way will make it ready again.
RegistrationHears ==
    \A r \in waits :
        \/ r \in armed /\ r \notin appended
        \/ r \notin appended /\ InWaitCallback(r)
        \/ Outstanding(r)

\* The callback of a registration has at most one entry at a time, so that it is not
\* called by two dispatchers at once.
OneEntryPerRegistration ==
    \A r \in Regs :
        Cardinality({k \in DOMAIN queue : queue[k].of = r})
          + Cardinality({t \in Threads : pc[t] \in {"push", "called"} /\ reg[t] = r}) <= 1

\* What a test says of two queues on one port: after one of them is terminated the
\* registrations of the other remain.
RegistrationsRemain ==
    (\A t \in Clients : pc[t] = "idle") =>
        \A r \in registry : status[RegContext[r]] = "Active" => r \in waits
=============================================================================
