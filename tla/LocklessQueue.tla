---------------------------- MODULE LocklessQueue ----------------------------
(***************************************************************************)
(* LocklessQueue.h, one access to shared memory at a time: the queues that *)
(* share a heap, its list of free nodes (a list of the same kind), and the *)
(* blocks of nodes the heap grows by.                                      *)
(*                                                                         *)
(* A list is a chain of nodes from its dummy (m_head) to the node whose    *)
(* next is the list's end marker; m_tail may lag behind.  An address is a  *)
(* node's block and index with a tag that push increments; the end marker  *)
(* carries no tag and is the same for all queues of a heap.  Only steps on *)
(* memory a thread has for itself are merged.  Each thread makes calls of   *)
(* its Jobs: the temporary queues of remove_if and of the port are other   *)
(* queues of the heap.                                                     *)
(***************************************************************************)
EXTENDS Integers, Sequences, FiniteSets, Functions

CONSTANTS
    QueueCount,  \* how many queues share the heap
    Threads,
    Jobs,        \* the calls each thread may make: [op, from, to]
    Times,       \* how many calls each thread makes, at most
    BlockSize,   \* m_blockSize
    MaxBlocks,   \* the blocks there is memory for (0xFFFF of them at most)
    TagSpace,    \* 2^16, the tags an address has
    None

Heap == 0
Queues == 1 .. QueueCount
Lists == {Heap} \cup Queues

\* What the constants have to be.
QueueConstants ==
    /\ QueueCount \in Nat \ {0}
    /\ BlockSize \in Nat /\ BlockSize > QueueCount
    /\ MaxBlocks \in 1 .. 65535 /\ TagSpace \in Nat \ {0}
    /\ Jobs \in [Threads -> SUBSET [op : {"push", "pop", "move", "empty"},
                                     from : Lists, to : Lists]]
    /\ Times \in [Threads -> Nat]

VARIABLES
    head,        \* m_head of each list
    tail,        \* m_tail of each list
    next,        \* next of each node
    data,        \* data of each node
    blockCount,  \* m_blockCount
    linked,      \* the blocks in m_blockList
    pc,          \* where each thread is
    job,         \* the call it makes
    list,        \* the list it works on
    first,       \* the address it pushes or has popped (beginAddress)
    last,        \* the end of the range it pushes (tailAddress)
    value,       \* the data it carries
    rHead, rTail, rNext,  \* what it has read
    calls        \* the calls it has begun

sharedVars == <<head, tail, next, data, blockCount, linked>>
readVars == <<rHead, rTail, rNext>>
handVars == <<first, last, value>>
vars == <<sharedVars, pc, job, list, handVars, readVars, calls>>

Nodes == (1 .. MaxBlocks) \X (0 .. BlockSize - 1)

Address(block, index, aba) == [block |-> block, index |-> index, aba |-> aba]

Node(a) == <<a.block, a.index>>

\* m_end: the heap's is zero, and Initialize takes the one after it for every queue.
End(l) == Address(0, IF l = Heap THEN 0 ELSE 1, 0)

NoAddress == Address(0, 0, 0)

NoJob == [op |-> "none", from |-> Heap, to |-> Heap]

Set(f, t, v) == [f EXCEPT ![t] = v]

Goto(t, from, to) == pc[t] = from /\ pc' = [pc EXCEPT ![t] = to]

\* The chain of a new block: every node is followed by the one before it.
Chained(b) == [k \in 0 .. BlockSize - 1 |->
                  IF k = 0 THEN End(Heap) ELSE Address(b, k - 1, 0)]

\* Each constructor has taken the node at the front of the free list for its dummy.
Dummy(q) == IF q = 1 THEN 0 ELSE BlockSize - q + 1

Init ==
    /\ head = [l \in Lists |-> Address(1, IF l = Heap THEN BlockSize - QueueCount
                                          ELSE Dummy(l), 0)]
    /\ tail = [l \in Lists |-> IF l = Heap THEN Address(1, IF QueueCount = BlockSize - 1
                                                           THEN BlockSize - QueueCount
                                                           ELSE 1, 0)
                               ELSE head[l]]
    /\ next = [n \in Nodes |->
                  CASE n[1] = 1 /\ \E q \in Queues : n[2] = Dummy(q) -> End(1)
                    [] n = <<1, 1>> -> End(Heap)
                    [] OTHER -> Chained(n[1])[n[2]]]
    /\ data = [n \in Nodes |-> None]
    /\ blockCount = 1 /\ linked = {1}
    /\ pc = [t \in Threads |-> "idle"]
    /\ job = [t \in Threads |-> NoJob]
    /\ list = [t \in Threads |-> Heap]
    /\ first = [t \in Threads |-> NoAddress]
    /\ last = [t \in Threads |-> NoAddress]
    /\ value = [t \in Threads |-> None]
    /\ rHead = [t \in Threads |-> NoAddress]
    /\ rTail = [t \in Threads |-> NoAddress]
    /\ rNext = [t \in Threads |-> NoAddress]
    /\ calls = [t \in Threads |-> 0]

-----------------------------------------------------------------------------
(* A call begins with a pop: of the queue, or of the free list for a node. *)

Begin(t, j) ==
    /\ calls[t] < Times[t]
    /\ job' = Set(job, t, j)
    /\ calls' = Set(calls, t, calls[t] + 1)
    /\ Goto(t, "idle", "head")
    /\ list' = Set(list, t, IF j.op = "push" THEN Heap ELSE j.from)
    /\ value' = Set(value, t, IF j.op = "push" THEN t ELSE None)
    /\ UNCHANGED <<sharedVars, first, last, readVars>>

\* A call returns; its locals are gone.
Finish(t) ==
    /\ pc' = Set(pc, t, "idle")
    /\ first' = Set(first, t, NoAddress) /\ last' = Set(last, t, NoAddress)
    /\ value' = Set(value, t, None)
    /\ job' = Set(job, t, NoJob) /\ list' = Set(list, t, Heap)
    /\ rHead' = Set(rHead, t, NoAddress) /\ rTail' = Set(rTail, t, NoAddress)
    /\ rNext' = Set(rNext, t, NoAddress)

-----------------------------------------------------------------------------
(* List::pop and List::empty *)

ReadHead(t) ==
    /\ Goto(t, "head", "tail")
    /\ rHead' = Set(rHead, t, head[list[t]])
    /\ UNCHANGED <<sharedVars, job, list, handVars, rTail, rNext, calls>>

ReadTail(t) ==
    /\ Goto(t, "tail", "next")
    /\ rTail' = Set(rTail, t, tail[list[t]])
    /\ UNCHANGED <<sharedVars, job, list, handVars, rHead, rNext, calls>>

ReadNext(t) ==
    /\ Goto(t, "next", "check")
    /\ rNext' = Set(rNext, t, next[Node(rHead[t])])
    /\ UNCHANGED <<sharedVars, job, list, handVars, rHead, rTail, calls>>

\* Mutant of MetEmpty: the next of the dummy is not looked at.
MetTail(t) == rHead[t] = rTail[t]

\* The list had its head and tail at one node that nothing follows.
MetEmpty(t) == rHead[t] = rTail[t] /\ rNext[t] = End(list[t])

ReadAgain(t) == rHead[t] = head[list[t]]

\* The list was empty: alloc needs a block, the other calls return.
FindEmpty(t) ==
    /\ pc[t] = "check" /\ ReadAgain(t) /\ MetEmpty(t)
    /\ IF job[t].op \in {"push", "empty"}
       THEN /\ Goto(t, "check", IF job[t].op = "push" THEN "grow" ELSE "empty")
            /\ UNCHANGED <<job, list, handVars, readVars>>
       ELSE Finish(t)
    /\ UNCHANGED <<sharedVars, calls>>

\* A tail that lags behind is helped; a head that has moved means another try.
FindOther(t) ==
    /\ pc[t] = "check" /\ ~(ReadAgain(t) /\ MetEmpty(t))
    /\ IF job[t].op = "empty"
       THEN Goto(t, "check", "other")
       ELSE Goto(t, "check", IF ~ReadAgain(t) THEN "head"
                             ELSE IF rHead[t] = rTail[t] THEN "help" ELSE "data")
    /\ UNCHANGED <<sharedVars, job, list, handVars, readVars, calls>>

Answer(t) ==
    /\ pc[t] \in {"empty", "other"}
    /\ Finish(t)
    /\ UNCHANGED <<sharedVars, calls>>

HelpTail(t) ==
    /\ \/ Goto(t, "help", "head")
       \/ Goto(t, "phelp", "ptail")
    /\ tail' = IF tail[list[t]] = rTail[t] THEN Set(tail, list[t], rNext[t]) ELSE tail
    /\ UNCHANGED <<head, next, data, blockCount, linked, job, list, handVars, readVars, calls>>

ReadData(t) ==
    /\ Goto(t, "data", "swap")
    /\ value' = IF list[t] = Heap THEN value ELSE Set(value, t, data[Node(rNext[t])])
    /\ UNCHANGED <<sharedVars, job, list, first, last, readVars, calls>>

\* The old dummy leaves the list with the data of the node that takes its place.
SwapHead(t) ==
    /\ pc[t] = "swap"
    /\ IF head[list[t]] = rHead[t]
       THEN /\ head' = Set(head, list[t], rNext[t])
            /\ first' = Set(first, t, rHead[t]) /\ last' = Set(last, t, rHead[t])
            /\ list' = Set(list, t, IF job[t].op = "pop" THEN Heap ELSE job[t].to)
            /\ pc' = Set(pc, t, "seal")
       ELSE pc' = Set(pc, t, "head") /\ UNCHANGED <<head, first, last, list>>
    /\ UNCHANGED <<tail, next, data, blockCount, linked, job, value, readVars, calls>>

-----------------------------------------------------------------------------
(* List::push and push_range *)

Tagged(a) == [a EXCEPT !.aba = (@ + 1) % TagSpace]

\* The node is the thread's own: its data, its end marker and the next tag.
Seal(t) ==
    /\ Goto(t, "seal", "ptail")
    /\ data' = [data EXCEPT ![Node(first[t])] = IF list[t] = Heap THEN None ELSE value[t]]
    /\ next' = [next EXCEPT ![Node(first[t])] = End(list[t])]
    /\ first' = Set(first, t, Tagged(first[t])) /\ last' = Set(last, t, Tagged(first[t]))
    /\ UNCHANGED <<head, tail, blockCount, linked, job, list, value, readVars, calls>>

PushReadTail(t) ==
    /\ Goto(t, "ptail", "pnext")
    /\ rTail' = Set(rTail, t, tail[list[t]])
    /\ UNCHANGED <<sharedVars, job, list, handVars, rHead, rNext, calls>>

PushReadNext(t) ==
    /\ Goto(t, "pnext", "pcheck")
    /\ rNext' = Set(rNext, t, next[Node(rTail[t])])
    /\ UNCHANGED <<sharedVars, job, list, handVars, rHead, rTail, calls>>

PushCheck(t) ==
    /\ Goto(t, "pcheck", IF rTail[t] # tail[list[t]] THEN "ptail"
                         ELSE IF rNext[t] = End(list[t]) THEN "link" ELSE "phelp")
    /\ UNCHANGED <<sharedVars, job, list, handVars, readVars, calls>>

\* Mutant of LinkNode: next is written without comparing.
LinkBlindly(t) ==
    /\ Goto(t, "link", "swing")
    /\ next' = [next EXCEPT ![Node(rTail[t])] = first[t]]
    /\ UNCHANGED <<head, tail, data, blockCount, linked, job, list, handVars, readVars, calls>>

\* The CAS on the last node's next is the instant of the push.
LinkNode(t) ==
    LET n == Node(rTail[t]) IN
    /\ Goto(t, "link", IF next[n] = rNext[t] THEN "swing" ELSE "ptail")
    /\ next' = IF next[n] = rNext[t] THEN [next EXCEPT ![n] = first[t]] ELSE next
    /\ UNCHANGED <<head, tail, data, blockCount, linked, job, list, handVars, readVars, calls>>

\* The tail follows, unless it was helped; a block pushed on the free list was for a node.
SwingTail(t) ==
    /\ pc[t] = "swing"
    /\ tail' = IF tail[list[t]] = rTail[t] THEN Set(tail, list[t], last[t]) ELSE tail
    /\ IF list[t] = Heap /\ job[t].op = "push"
       THEN pc' = Set(pc, t, "head") /\ UNCHANGED <<job, list, handVars, readVars>>
       ELSE Finish(t)
    /\ UNCHANGED <<head, next, data, blockCount, linked, calls>>

-----------------------------------------------------------------------------
(* Heap::allocate_block *)

\* No block id or no memory left: push_back returns false.
OutOfMemory(t) ==
    /\ pc[t] = "grow"
    /\ blockCount' = blockCount + 1
    /\ Finish(t)
    /\ UNCHANGED <<head, tail, next, data, linked, calls>>

AllocateBlock(t) ==
    /\ blockCount < MaxBlocks
    /\ Goto(t, "grow", "publish")
    /\ blockCount' = blockCount + 1
    /\ first' = Set(first, t, Address(blockCount + 1, BlockSize - 1, 0))
    /\ last' = Set(last, t, Address(blockCount + 1, 0, 0))
    /\ UNCHANGED <<head, tail, next, data, linked, job, list, value, readVars, calls>>

\* The block is in m_blockList before any of its addresses is in a list.
LinkBlock(t) ==
    /\ Goto(t, "publish", "ptail")
    /\ linked' = linked \cup {first[t].block}
    /\ UNCHANGED <<head, tail, next, data, blockCount, job, list, handVars, readVars, calls>>

-----------------------------------------------------------------------------

Next ==
    \E t \in Threads :
        \/ \E j \in Jobs[t] : Begin(t, j)
        \/ ReadHead(t) \/ ReadTail(t) \/ ReadNext(t)
        \/ FindEmpty(t) \/ FindOther(t) \/ Answer(t) \/ HelpTail(t)
        \/ ReadData(t) \/ SwapHead(t) \/ Seal(t)
        \/ PushReadTail(t) \/ PushReadNext(t) \/ PushCheck(t) \/ LinkNode(t) \/ SwingTail(t)
        \/ OutOfMemory(t) \/ AllocateBlock(t) \/ LinkBlock(t)

Spec == Init /\ [][Next]_vars

-----------------------------------------------------------------------------
(* Properties *)

Addresses == [block : 0 .. MaxBlocks, index : 0 .. BlockSize - 1, aba : 0 .. TagSpace - 1]

TypeOK ==
    /\ {head, tail} \subseteq [Lists -> Addresses] /\ next \in [Nodes -> Addresses]
    /\ data \in [Nodes -> Threads \cup {None}] /\ value \in [Threads -> Threads \cup {None}]
    /\ blockCount \in Nat \ {0} /\ linked \subseteq 1 .. MaxBlocks
    /\ {first, last, rHead, rTail, rNext} \subseteq [Threads -> Addresses]
    /\ list \in [Threads -> Lists]

\* The nodes from address a to the end of its list, without those in seen.
RECURSIVE From(_, _)
From(a, seen) ==
    IF Node(a) \in Nodes \ seen
    THEN <<Node(a)>> \o From(next[Node(a)], seen \cup {Node(a)})
    ELSE <<>>

\* The chain of a list, dummy first.
Chain(l) == From(head[l], {})

Contents(q) == LET chain == Tail(Chain(q)) IN [k \in DOMAIN chain |-> data[chain[k]]]

\* The nodes a thread has for itself: popped and not yet pushed, or of a new block.
InHand(t) ==
    CASE pc[t] = "seal" -> {Node(first[t])}
      [] pc[t] \in {"publish", "ptail", "pnext", "pcheck", "phelp", "link"} ->
            {n \in Nodes : n[1] = first[t].block
                             /\ n[2] \in last[t].index .. first[t].index}
      [] OTHER -> {}

\* A pusher has read the tail and its next, and the node has left the list meanwhile:
\* it was popped behind another push, and relinked or is about to be relinked as the
\* end of another queue.  Every queue of the heap has the same untagged end, so the
\* compare-exchange of the pusher (line 327) succeeds.
LateLink(t) ==
    LET n == Node(rTail[t]) IN
    /\ pc[t] = "link" /\ next[n] = End(list[t])
    /\ n \notin Range(Chain(list[t]))

\* Every node is in one place, the free list, one queue or the hands of one
\* thread, and is never lost, unless a late link hangs it behind a node that a thread
\* has in hand: the ABA tags, the helped tails and the growth of the heap hand no
\* node to two owners.
NodeInOnePlace ==
    LET chains == [l \in Lists |-> Range(Chain(l))]
        grown == linked \cup {first[t].block : t \in {u \in Threads : pc[u] = "publish"}}
    IN  \A n \in Nodes :
            Cardinality({l \in Lists : n \in chains[l]})
              + Cardinality({t \in Threads : n \in InHand(t)})
            = IF n[1] \in grown THEN 1 ELSE 0

\* How far a call has come, as the FIFO specification counts it.
CallOf(t) ==
    LET op == job[t].op
        popping == pc[t] \in {"head", "tail", "next", "check", "help", "data", "swap"}
    IN  CASE pc[t] = "idle" -> <<"idle">>
          [] pc[t] \in {"empty", "other"} -> <<pc[t]>>
          [] op = "push" -> IF pc[t] = "swing" /\ list[t] # Heap THEN <<"idle">>
                                ELSE <<"push", job[t].to, t>>
          [] popping -> IF pc[t] = "check" /\ MetEmpty(t) /\ ReadAgain(t)
                        THEN <<"sawEmpty", list[t]>>
                        ELSE <<"pop", list[t]>>
          [] op = "pop" \/ pc[t] = "seal" -> <<"popped", value[t]>>
          [] pc[t] = "swing" -> <<"idle">>
          [] OTHER -> <<"push", list[t], value[t]>>

FifoContents == [q \in Queues |-> Contents(q)]
FifoCalls == [t \in Threads |-> CallOf(t)]

Fifo == INSTANCE FifoQueues WITH
            Values <- Threads, contents <- FifoContents, call <- FifoCalls

\* The thread that moves makes a step of its call as the FIFO specification counts
\* it, or none.
FifoStep ==
    \/ /\ FifoCalls' = FifoCalls
       /\ UNCHANGED <<head, next, data>> \/ FifoContents' = FifoContents
    \/ \E t \in Threads : pc'[t] # pc[t] /\ Fifo!Step(t)

\* The queues of a heap are concurrent FIFO queues: every call takes effect at one
\* instant between its begin and its return (LocklessQueue.h's push and pop).  A late
\* link breaks it.
ImplementsFifo == Fifo!Spec
=============================================================================
