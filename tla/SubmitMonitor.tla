----------------------------- MODULE SubmitMonitor -----------------------------
(***************************************************************************)
(* Who is told that an item was queued: NotifyItemQueued of the port       *)
(* visits the attached contexts (AtomicVector), and each calls the         *)
(* monitors registered with its queue (SubmitCallback).  Both keep two     *)
(* buffers: a writer fills the one not in use, then swaps once the word    *)
(* m_indexAndRef counts no reader; both hold a mutex besides.              *)
(*                                                                         *)
(* A writer holds the mutex from its copy to its swap and a reader for its *)
(* whole visit, so a writer's section is one step, and a reader's one step *)
(* for each thing it calls.  Monitors do not call the queue back (the      *)
(* mutex is not recursive: they would wait for themselves).                *)
(***************************************************************************)
EXTENDS Integers, Sequences, FiniteSets, Functions

CONSTANTS
    Queues,          \* queues with contexts on the port
    QueueContexts,   \* the contexts each queue attaches to it, one or both
    Monitors,        \* the calls of RegisterSubmitCallback
    MonitorQueue,    \* the queue each is made on
    Notifiers,       \* threads in NotifyItemQueued
    Visits,          \* how often each of them calls it
    SubmitCallbackMax,
    None

Contexts == UNION {QueueContexts[q] : q \in Queues}
QueueOf(c) == CHOOSE q \in Queues : c \in QueueContexts[q]
Slots == 1 .. SubmitCallbackMax

\* What the constants have to be.
MonitorConstants ==
    /\ SubmitCallbackMax \in Nat \ {0} /\ Visits \in Nat
    /\ MonitorQueue \in [Monitors -> Queues] /\ None \notin Monitors \cup Notifiers
    /\ "vector" \notin Queues
    /\ \A p, q \in Queues : p # q => QueueContexts[p] \cap QueueContexts[q] = {}

VARIABLES
    contexts,  \* the two buffers of m_attachedContexts
    current,   \* the index it reads from
    visitors,  \* the readers it counts
    attached,  \* the contexts between Attach and Detach
    slots,     \* the two buffers of each queue's monitors, [Token, Callback]
    index,     \* the index each reads from
    callers,   \* the readers each counts
    held,      \* the registrations between Register and Unregister
    refused,   \* those that found no free slot
    lock,      \* who holds the mutex of the vector and of each queue's monitors
    pc,
    left,      \* the contexts a notifier has still to visit
    slot,      \* the slot it calls next
    called,    \* the monitors it has called for the context
    visits

vectorVars == <<contexts, current, visitors, attached>>
monitorVars == <<slots, index, callers, held, refused>>
threadVars == <<pc, left, slot, called, visits>>
vars == <<vectorVars, monitorVars, lock, threadVars>>

Empty == [Token |-> None, Callback |-> FALSE]

Init ==
    /\ contexts = [b \in 0 .. 1 |-> <<>>] /\ current = 0 /\ visitors = 0 /\ attached = {}
    /\ slots = [q \in Queues |-> [b \in 0 .. 1 |-> [s \in Slots |-> Empty]]]
    /\ index = [q \in Queues |-> 0] /\ callers = [q \in Queues |-> 0]
    /\ held = {} /\ refused = {}
    /\ lock = [l \in Queues \cup {"vector"} |-> None]
    /\ pc = [t \in Notifiers |-> "idle"] /\ left = [t \in Notifiers |-> <<>>]
    /\ slot = [t \in Notifiers |-> 0] /\ called = [t \in Notifiers |-> {}]
    /\ visits = [t \in Notifiers |-> 0]

-----------------------------------------------------------------------------
(* AtomicVector: Attach, Detach *)

\* The new contents are written to the other buffer, which readers then find.
SwapVector(contents) ==
    /\ lock["vector"] = None /\ visitors = 0
    /\ contexts' = [b \in 0 .. 1 |-> IF b = current THEN <<>> ELSE contents]
    /\ current' = 1 - current
    /\ UNCHANGED <<visitors, monitorVars, lock, threadVars>>

Attach(c) ==
    /\ c \notin attached
    /\ SwapVector(Append(contexts[current], c))
    /\ attached' = attached \cup {c}

\* The first entry that is the context's is erased.
Detach(c) ==
    LET read == contexts[current] IN
    /\ c \in attached
    /\ \E i \in DOMAIN read :
          /\ read[i] = c /\ \A k \in 1 .. i - 1 : read[k] # c
          /\ SwapVector(SubSeq(read, 1, i - 1) \o SubSeq(read, i + 1, Len(read)))
    /\ attached' = attached \ {c}

-----------------------------------------------------------------------------
(* SubmitCallback: Register, Unregister *)

HasSlot(q) == \E s \in Slots : ~slots[q][index[q]][s].Callback

\* The first slot without a callback in the buffer that is read.
FreeSlot(q) ==
    CHOOSE s \in Slots : /\ ~slots[q][index[q]][s].Callback
                         /\ \A r \in 1 .. s - 1 : slots[q][index[q]][r].Callback

\* The other buffer is written whole, and swapped for the one that is read.
SwapSlots(q, contents) ==
    /\ lock[q] = None /\ callers[q] = 0
    /\ slots' = [slots EXCEPT ![q][1 - index[q]] = contents]
    /\ index' = [index EXCEPT ![q] = 1 - @]
    /\ UNCHANGED <<callers, vectorVars, lock, threadVars>>

Register(m) ==
    LET q == MonitorQueue[m] IN
    /\ m \notin held \cup refused /\ HasSlot(q)
    /\ SwapSlots(q, [slots[q][index[q]] EXCEPT
                        ![FreeSlot(q)] = [Token |-> m, Callback |-> TRUE]])
    /\ held' = held \cup {m}
    /\ UNCHANGED refused

\* All slots are taken: the buffer is written, but not swapped.
RegisterFails(m) ==
    LET q == MonitorQueue[m] IN
    /\ m \notin held \cup refused /\ ~HasSlot(q) /\ lock[q] = None
    /\ slots' = [slots EXCEPT ![q][1 - index[q]] = slots[q][index[q]]]
    /\ refused' = refused \cup {m}
    /\ UNCHANGED <<index, callers, held, vectorVars, lock, threadVars>>

\* Mutant of Unregister: only the slot of the token is written.
UnregisterAlone(m) ==
    LET q == MonitorQueue[m] IN
    /\ m \in held
    /\ SwapSlots(q, [s \in Slots |->
                        IF slots[q][index[q]][s].Token = m
                        THEN [slots[q][1 - index[q]][s] EXCEPT !.Callback = FALSE]
                        ELSE slots[q][1 - index[q]][s]])
    /\ held' = held \ {m}
    /\ UNCHANGED refused

\* The slot of the token loses its callback, and keeps what else it had long ago.
Unregister(m) ==
    LET q == MonitorQueue[m] IN
    /\ m \in held
    /\ SwapSlots(q, [s \in Slots |->
                        IF slots[q][index[q]][s].Token = m
                        THEN [slots[q][1 - index[q]][s] EXCEPT !.Callback = FALSE]
                        ELSE slots[q][index[q]][s]])
    /\ held' = held \ {m}
    /\ UNCHANGED refused

-----------------------------------------------------------------------------
(* NotifyItemQueued: Visit, ItemQueued, Invoke *)

\* Mutant of Notify: the buffer is read without the mutex and the count.
NotifyFreely(t) ==
    /\ pc[t] = "idle" /\ visits[t] < Visits
    /\ left' = [left EXCEPT ![t] = contexts[current]]
    /\ visits' = [visits EXCEPT ![t] = @ + 1]
    /\ pc' = [pc EXCEPT ![t] = "visit"]
    /\ UNCHANGED <<vectorVars, monitorVars, lock, slot, called>>

Notify(t) ==
    /\ pc[t] = "idle" /\ visits[t] < Visits /\ lock["vector"] = None
    /\ lock' = [lock EXCEPT !["vector"] = t]
    /\ visitors' = visitors + 1
    /\ left' = [left EXCEPT ![t] = contexts[current]]
    /\ visits' = [visits EXCEPT ![t] = @ + 1]
    /\ pc' = [pc EXCEPT ![t] = "visit"]
    /\ UNCHANGED <<contexts, current, attached, monitorVars, slot, called>>

\* Mutant of Invoke: the readers are neither locked nor counted.
InvokeFreely(t) ==
    /\ pc[t] = "visit" /\ left[t] # <<>>
    /\ slot' = [slot EXCEPT ![t] = 1] /\ called' = [called EXCEPT ![t] = {}]
    /\ pc' = [pc EXCEPT ![t] = "invoke"]
    /\ UNCHANGED <<vectorVars, monitorVars, lock, left, visits>>

Invoke(t) ==
    LET q == QueueOf(Head(left[t])) IN
    /\ pc[t] = "visit" /\ left[t] # <<>> /\ lock[q] = None
    /\ lock' = [lock EXCEPT ![q] = t]
    /\ callers' = [callers EXCEPT ![q] = @ + 1]
    /\ slot' = [slot EXCEPT ![t] = 1] /\ called' = [called EXCEPT ![t] = {}]
    /\ pc' = [pc EXCEPT ![t] = "invoke"]
    /\ UNCHANGED <<vectorVars, slots, index, held, refused, left, visits>>

\* A slot with a callback is called; the others are passed over.
CallMonitor(t) ==
    LET q == QueueOf(Head(left[t]))
        monitor == slots[q][index[q]][slot[t]]
    IN  /\ pc[t] = "invoke" /\ slot[t] \in Slots
        /\ called' = [called EXCEPT ![t] =
                         @ \cup (IF monitor.Callback THEN {monitor.Token} ELSE {})]
        /\ slot' = [slot EXCEPT ![t] = @ + 1]
        /\ UNCHANGED <<vectorVars, monitorVars, lock, pc, left, visits>>

EndInvoke(t) ==
    LET q == QueueOf(Head(left[t])) IN
    /\ pc[t] = "invoke" /\ slot[t] \notin Slots
    /\ lock' = [lock EXCEPT ![q] = None]
    /\ callers' = [callers EXCEPT ![q] = @ - 1]
    /\ left' = [left EXCEPT ![t] = Tail(@)]
    /\ slot' = [slot EXCEPT ![t] = 0] /\ called' = [called EXCEPT ![t] = {}]
    /\ pc' = [pc EXCEPT ![t] = "visit"]
    /\ UNCHANGED <<vectorVars, slots, index, held, refused, visits>>

EndVisit(t) ==
    /\ pc[t] = "visit" /\ left[t] = <<>>
    /\ lock' = [lock EXCEPT !["vector"] = None]
    /\ visitors' = visitors - 1
    /\ pc' = [pc EXCEPT ![t] = "idle"]
    /\ UNCHANGED <<contexts, current, attached, monitorVars, left, slot, called, visits>>

Next ==
    \/ \E c \in Contexts : Attach(c) \/ Detach(c)
    \/ \E m \in Monitors : Register(m) \/ RegisterFails(m) \/ Unregister(m)
    \/ \E t \in Notifiers :
          Notify(t) \/ Invoke(t) \/ CallMonitor(t) \/ EndInvoke(t) \/ EndVisit(t)

Spec == Init /\ [][Next]_vars

-----------------------------------------------------------------------------
(* Properties *)

TypeOK ==
    /\ contexts \in [0 .. 1 -> Seq(Contexts)] /\ attached \subseteq Contexts
    /\ slots \in [Queues -> [0 .. 1 -> [Slots -> [Token : Monitors \cup {None}, Callback : BOOLEAN]]]]
    /\ current \in 0 .. 1 /\ index \in [Queues -> 0 .. 1]
    /\ visitors \in Nat /\ callers \in [Queues -> Nat]
    /\ held \cup refused \subseteq Monitors
    /\ lock \in [Queues \cup {"vector"} -> Notifiers \cup {None}]
    /\ left \in [Notifiers -> Seq(Contexts)] /\ called \in [Notifiers -> SUBSET Monitors]
    /\ pc \in [Notifiers -> {"idle", "visit", "invoke"}]
    /\ slot \in [Notifiers -> 0 .. SubmitCallbackMax + 1] /\ visits \in [Notifiers -> 0 .. Visits]

\* The callbacks in the buffer of a queue that is read.
Active(q) == {s \in Slots : slots[q][index[q]][s].Callback}

\* No registration is lost or comes back over the swaps of the two buffers: the one that
\* is read has a slot for every monitor still registered, and for no other.
MonitorsAreActive ==
    \A q \in Queues :
        /\ {slots[q][index[q]][s].Token : s \in Active(q)}
             = {m \in held : MonitorQueue[m] = q}
        /\ Cardinality(Active(q)) = Cardinality({m \in held : MonitorQueue[m] = q})

\* A visit of a queue's monitors calls those that are registered, all of them and none
\* that Unregister has returned for.
MonitorsAreCalled ==
    \A t \in Notifiers :
        pc[t] = "invoke" =>
            LET own == {m \in held : MonitorQueue[m] = QueueOf(Head(left[t]))} IN
            /\ called[t] \subseteq own
            /\ slot[t] \notin Slots => called[t] = own

\* A context is told of an item only while it is attached: Detach waits for the visit in
\* which the context, which its queue is about to free, is still to come.
VisitedAreAttached ==
    \A t \in Notifiers : pc[t] # "idle" => Range(left[t]) \subseteq attached
=============================================================================
