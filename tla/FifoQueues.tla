------------------------------ MODULE FifoQueues ------------------------------
(***************************************************************************)
(* What LocklessQueue.h promises of the queues that share a heap of nodes, *)
(* to threads that call them concurrently: each queue is a FIFO, a push    *)
(* takes effect at one instant of its call or is refused, a pop takes the  *)
(* front at one instant, and a pop that comes back with nothing, or an     *)
(* empty() that answers true, met an empty queue during the call.          *)
(***************************************************************************)
EXTENDS Sequences

CONSTANTS Queues, Threads, Values

VARIABLES
    contents,  \* what each queue holds
    call       \* how far each thread's call has come

fifoVars == <<contents, call>>

At(t, state) == call[t][1] = state

Become(t, to) == call' = [call EXCEPT ![t] = to]

Init ==
    /\ contents = [q \in Queues |-> <<>>]
    /\ call = [t \in Threads |-> <<"idle">>]

BeginPush(t) ==
    /\ At(t, "idle")
    /\ \E q \in Queues, v \in Values : Become(t, <<"push", q, v>>)
    /\ UNCHANGED contents

Push(t) ==
    /\ At(t, "push") /\ Become(t, <<"idle">>)
    /\ contents' = [contents EXCEPT ![call[t][2]] = Append(@, call[t][3])]

\* No memory for a node: push_back returns false.
Refuse(t) == At(t, "push") /\ Become(t, <<"idle">>) /\ UNCHANGED contents

BeginPop(t) ==
    /\ At(t, "idle")
    /\ \E q \in Queues : Become(t, <<"pop", q>>)
    /\ UNCHANGED contents

\* The head moves: whoever has met the queue empty before it has to look again.
Pop(t) ==
    LET q == call[t][2] IN
    /\ At(t, "pop") /\ contents[q] # <<>>
    /\ contents' = [contents EXCEPT ![q] = Tail(@)]
    /\ call' = [u \in Threads |->
                  IF u = t THEN <<"popped", Head(contents[q])>>
                  ELSE IF call[u] = <<"sawEmpty", q>> THEN <<"pop", q>> ELSE call[u]]

EndPop(t) == At(t, "popped") /\ Become(t, <<"idle">>) /\ UNCHANGED contents

\* push_back with the address that pop_front gave: it needs no node.
Forward(t) ==
    /\ At(t, "popped")
    /\ \E q \in Queues : Become(t, <<"push", q, call[t][2]>>)
    /\ UNCHANGED contents

\* The call meets an empty queue.
Observe(t) ==
    /\ At(t, "pop") /\ contents[call[t][2]] = <<>>
    /\ Become(t, <<"sawEmpty", call[t][2]>>)
    /\ UNCHANGED contents

\* pop_front returns false, or empty() answers true.
AnswerEmpty(t) ==
    /\ At(t, "sawEmpty")
    /\ Become(t, <<"idle">>) \/ Become(t, <<"empty">>)
    /\ UNCHANGED contents

\* empty() answers false, which promises nothing.
AnswerOther(t) ==
    /\ At(t, "pop") /\ Become(t, <<"other">>)
    /\ UNCHANGED contents

EndAnswer(t) ==
    /\ At(t, "empty") \/ At(t, "other")
    /\ Become(t, <<"idle">>)
    /\ UNCHANGED contents

Step(t) ==
    \/ BeginPush(t) \/ Push(t) \/ Refuse(t)
    \/ BeginPop(t) \/ Pop(t) \/ EndPop(t) \/ Forward(t)
    \/ Observe(t) \/ AnswerEmpty(t) \/ AnswerOther(t) \/ EndAnswer(t)

Next == \E t \in Threads : Step(t)

Spec == Init /\ [][Next]_fifoVars
=============================================================================
