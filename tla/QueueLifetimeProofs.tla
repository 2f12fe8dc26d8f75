-------------------------- MODULE QueueLifetimeProofs --------------------------
(***************************************************************************)
(* Whoever follows a pointer to a task queue or a port finds it alive, for *)
(* any number of queues, handles, threads and submissions.                 *)
(*                                                                         *)
(* The invariant is that a count is the number of references that lead to  *)
(* the object: a set of handles, threads, contexts or terminations has so  *)
(* many members, and the entries of the ports and what the threads are     *)
(* still to give up so many places in their sequences (Total).  A step     *)
(* moves a reference from one of them to another, or adds or takes one.    *)
(***************************************************************************)
EXTENDS QueueLifetime, FiniteSetTheorems, SequenceTheorems, TLAPS

-----------------------------------------------------------------------------
(* Counting *)

One(b) == IF b THEN 1 ELSE 0

\* A set that differs from another in one element
LEMMA SetUpdate ==
  ASSUME NEW A, NEW B, NEW x, IsFiniteSet(A), A \ {x} = B \ {x}
  PROVE  /\ IsFiniteSet(B) /\ Cardinality(A) \in Nat /\ Cardinality(B) \in Nat
         /\ Cardinality(B) = Cardinality(A) + One(x \in B) - One(x \in A)
  <1> DEFINE C == A \ {x}
  <1>1. IsFiniteSet(C) /\ x \notin C /\ Cardinality(C) \in Nat
    BY FS_Subset, FS_CardinalityType
  <1>2. /\ IsFiniteSet(C \cup {x}) /\ Cardinality(C \cup {x}) = Cardinality(C) + 1
    BY <1>1, FS_AddElement
  <1>3. A = (IF x \in A THEN C \cup {x} ELSE C) /\ B = (IF x \in B THEN C \cup {x} ELSE C)
    OBVIOUS
  <1> HIDE DEF C
  <1> QED BY <1>1, <1>2, <1>3 DEF One

\* The positions of a sequence that hold one of K, and how many there are
Positions(K, s) == {k \in 1 .. Len(s) : s[k] \in K}

Weight(K, s) == Cardinality(Positions(K, s))

\* A weight is a number: none for the empty sequence, one or none for one element.
LEMMA WeightType ==
  ASSUME NEW K, NEW S, NEW s \in Seq(S)
  PROVE  IsFiniteSet(Positions(K, s)) /\ Weight(K, s) \in Nat
  <1>1. IsFiniteSet(1 .. Len(s))
    BY FS_Interval
  <1>2. IsFiniteSet(Positions(K, s))
    BY <1>1, FS_Subset DEF Positions
  <1> QED BY <1>2, FS_CardinalityType DEF Weight

LEMMA WeightNone ==
  ASSUME NEW K
  PROVE  Weight(K, <<>>) = 0
  <1>1. Positions(K, <<>>) = {}
    BY DEF Positions
  <1> QED BY <1>1, FS_EmptySet DEF Weight

LEMMA WeightOne ==
  ASSUME NEW K, NEW e
  PROVE  Weight(K, <<e>>) = One(e \in K)
  <1>1. Positions(K, <<e>>) = IF e \in K THEN {1} ELSE {}
    <2>1. Len(<<e>>) = 1 /\ <<e>>[1] = e
      OBVIOUS
    <2> QED BY <2>1 DEF Positions
  <1> QED BY <1>1, FS_EmptySet, FS_Singleton DEF Weight, One

\* Of two sequences in a row
LEMMA WeightConcat ==
  ASSUME NEW K, NEW S, NEW s \in Seq(S), NEW r \in Seq(S)
  PROVE  Weight(K, s \o r) = Weight(K, s) + Weight(K, r)
  <1> DEFINE n == Len(s)
             P == Positions(K, s)
             R == Positions(K, r)
             Q == {k + n : k \in R}
  <1>1. /\ s \o r \in Seq(S) /\ n \in Nat /\ Len(r) \in Nat /\ Len(s \o r) = n + Len(r)
        /\ \A k \in 1 .. n + Len(r) : (s \o r)[k] = IF k <= n THEN s[k] ELSE r[k - n]
    BY ConcatProperties
  <1>2. R \subseteq 1 .. Len(r) /\ P \subseteq 1 .. n
    BY DEF Positions
  <1>3. Positions(K, s \o r) = P \cup Q
    <2>1. ASSUME NEW k \in Positions(K, s \o r)
          PROVE  k \in P \cup Q
      <3>1. k \in 1 .. n + Len(r) /\ (s \o r)[k] \in K
        BY <1>1 DEF Positions
      <3>2. CASE k <= n
        BY <1>1, <3>1, <3>2 DEF Positions
      <3>3. CASE ~(k <= n)
        <4>1. k - n \in 1 .. Len(r) /\ r[k - n] \in K /\ (k - n) + n = k
          BY <1>1, <3>1, <3>3
        <4> QED BY <4>1 DEF Positions
      <3> QED BY <3>2, <3>3
    <2>2. ASSUME NEW k \in P
          PROVE  k \in Positions(K, s \o r)
      BY <1>1, <1>2, <2>2 DEF Positions
    <2>3. ASSUME NEW k \in R
          PROVE  k + n \in Positions(K, s \o r)
      <3>1. k \in 1 .. Len(r) /\ r[k] \in K
        BY DEF Positions
      <3>2. k + n \in 1 .. n + Len(r) /\ ~(k + n <= n) /\ (k + n) - n = k
        BY <1>1, <3>1
      <3> QED BY <1>1, <3>1, <3>2 DEF Positions
    <2> QED BY <2>1, <2>2, <2>3
  <1>4. IsFiniteSet(P) /\ IsFiniteSet(R)
    BY WeightType
  <1>5. IsFiniteSet(Q) /\ Cardinality(Q) = Cardinality(R)
    <2> DEFINE f == [k \in R |-> k + n]
    <2>1. f \in [R -> Q] /\ \A q \in Q : \E k \in R : f[k] = q
      OBVIOUS
    <2>2. ASSUME NEW j \in R, NEW k \in R, f[j] = f[k]
          PROVE  j = k
      BY <1>1, <1>2, <2>2
    <2> HIDE DEF f, Q, R
    <2>3. f \in Bijection(R, Q)
      BY <2>1, <2>2 DEF Bijection, Injection, Surjection, IsInjective
    <2> QED BY <1>4, <2>3, FS_Bijection DEF ExistsBijection
  <1>6. P \cap Q = {}
    BY <1>1, <1>2
  <1> HIDE DEF P, Q, R, n
  <1>7. Cardinality(P \cup Q) = Cardinality(P) + Cardinality(Q)
    <2>1. Cardinality(P \cup Q) = Cardinality(P) + Cardinality(Q) - Cardinality(P \cap Q)
      BY <1>4, <1>5, FS_Union
    <2>2. Cardinality(P \cap Q) = 0 /\ Cardinality(P) \in Nat /\ Cardinality(Q) \in Nat
      BY <1>4, <1>5, <1>6, FS_EmptySet, FS_CardinalityType
    <2> QED BY <2>1, <2>2
  <1> QED BY <1>3, <1>5, <1>7 DEF Weight, P, R

\* A sequence is its head and its tail.
LEMMA WeightTail ==
  ASSUME NEW K, NEW S, NEW s \in Seq(S), s # <<>>
  PROVE  /\ Head(s) \in S /\ Tail(s) \in Seq(S) /\ Weight(K, Tail(s)) \in Nat
         /\ Weight(K, s) = Weight(K, Tail(s)) + One(Head(s) \in K)
  <1> DEFINE h == <<Head(s)>>
             r == Tail(s)
  <1>1. /\ Head(s) \in S /\ Head(s) = s[1]
        /\ r \in Seq(S) /\ Len(r) = Len(s) - 1 /\ Len(s) \in Nat \ {0}
        /\ \A n \in 1 .. Len(r) : r[n] = s[n + 1]
    OBVIOUS
  <1>2. h \in Seq(S) /\ Len(h) = 1 /\ h[1] = s[1] /\ Weight(K, h) = One(Head(s) \in K)
    BY <1>1, WeightOne
  <1> HIDE DEF h, r
  <1>3. /\ h \o r \in Seq(S) /\ Len(h \o r) = Len(h) + Len(r)
        /\ \A n \in 1 .. Len(h) + Len(r) :
              (h \o r)[n] = IF n <= Len(h) THEN h[n] ELSE r[n - Len(h)]
    BY <1>1, <1>2, ConcatProperties
  <1>4. Len(h \o r) = Len(s) /\ \A n \in 1 .. Len(s) : (h \o r)[n] = s[n]
    BY <1>1, <1>2, <1>3
  <1>5. s = h \o r
    BY <1>3, <1>4, SeqEqual
  <1>6. Weight(K, s) = Weight(K, h) + Weight(K, r) /\ Weight(K, r) \in Nat
    BY <1>1, <1>2, <1>5, WeightConcat, WeightType
  <1>7. One(Head(s) \in K) \in Nat
    BY DEF One
  <1> QED BY <1>1, <1>2, <1>6, <1>7 DEF r

LEMMA WeightAppend ==
  ASSUME NEW K, NEW S, NEW s \in Seq(S), NEW e \in S
  PROVE  Weight(K, Append(s, e)) = Weight(K, s) + One(e \in K)
  <1>1. Append(s, e) = s \o <<e>> /\ <<e>> \in Seq(S)
    BY AppendIsConcat
  <1>2. Weight(K, s \o <<e>>) = Weight(K, s) + Weight(K, <<e>>)
    BY <1>1, WeightConcat
  <1>3. Weight(K, <<e>>) = One(e \in K)
    BY WeightOne
  <1> QED BY <1>1, <1>2, <1>3

\* The positions of a family of sequences that hold one of K
Spots(K, f, D) == UNION {{x} \X Positions(K, f[x]) : x \in D}

Total(K, f, D) == Cardinality(Spots(K, f, D))

\* Only the sequence of x is another.
LEMMA TotalUpdate ==
  ASSUME NEW K, NEW D, IsFiniteSet(D), NEW f, NEW g, NEW x \in D,
         \A y \in D : IsFiniteSet(Positions(K, f[y])), IsFiniteSet(Positions(K, g[x])),
         \A y \in D \ {x} : g[y] = f[y]
  PROVE  /\ IsFiniteSet(Spots(K, f, D))
         /\ Total(K, f, D) \in Nat /\ Total(K, g, D) \in Nat
         /\ Weight(K, f[x]) \in Nat /\ Weight(K, g[x]) \in Nat
         /\ Total(K, g, D) + Weight(K, f[x]) = Total(K, f, D) + Weight(K, g[x])
  <1> DEFINE rest == UNION {{y} \X Positions(K, f[y]) : y \in D \ {x}}
             A == {x} \X Positions(K, f[x])
             B == {x} \X Positions(K, g[x])
  <1>1. IsFiniteSet(rest)
    <2> DEFINE E == D \ {x}
               T == {{y} \X Positions(K, f[y]) : y \in E}
               m == [y \in E |-> {y} \X Positions(K, f[y])]
    <2>1. IsFiniteSet(E)
      BY FS_Subset
    <2>2. m \in Surjection(E, T)
      BY DEF Surjection
    <2>3. \A y \in E : IsFiniteSet({y} \X Positions(K, f[y]))
      BY FS_Singleton, FS_Product
    <2>4. \A M \in T : IsFiniteSet(M)
      BY <2>3
    <2> HIDE DEF m, T, E
    <2>5. IsFiniteSet(T)
      BY <2>1, <2>2, FS_Surjection
    <2>6. IsFiniteSet(UNION T)
      BY <2>4, <2>5, FS_UNION
    <2> QED BY <2>6 DEF T, E
  <1>2. /\ IsFiniteSet(A) /\ Cardinality(A) = Weight(K, f[x]) /\ Weight(K, f[x]) \in Nat
        /\ IsFiniteSet(B) /\ Cardinality(B) = Weight(K, g[x]) /\ Weight(K, g[x]) \in Nat
    <2>1. ASSUME NEW s, IsFiniteSet(Positions(K, s))
          PROVE  /\ IsFiniteSet({x} \X Positions(K, s)) /\ Weight(K, s) \in Nat
                 /\ Cardinality({x} \X Positions(K, s)) = Weight(K, s)
      <3>1. /\ IsFiniteSet({x}) /\ Cardinality({x}) = 1
            /\ IsFiniteSet(Positions(K, s)) /\ Weight(K, s) \in Nat
        BY <2>1, FS_Singleton, FS_CardinalityType DEF Weight
      <3>2. /\ IsFiniteSet({x} \X Positions(K, s))
            /\ Cardinality({x} \X Positions(K, s)) = Cardinality({x}) * Cardinality(Positions(K, s))
        BY <3>1, FS_Product
      <3> QED BY <3>1, <3>2 DEF Weight
    <2> QED BY <2>1
  <1>3. Spots(K, f, D) = rest \cup A /\ Spots(K, g, D) = rest \cup B
    BY DEF Spots
  <1>4. rest \cap A = {} /\ rest \cap B = {}
    OBVIOUS
  <1> HIDE DEF rest, A, B
  <1>5. /\ Cardinality(rest \cup A) = Cardinality(rest) + Cardinality(A) - Cardinality(rest \cap A)
        /\ Cardinality(rest \cup B) = Cardinality(rest) + Cardinality(B) - Cardinality(rest \cap B)
    BY <1>1, <1>2, FS_Union
  <1>6. Cardinality(rest \cap A) = 0 /\ Cardinality(rest \cap B) = 0 /\ Cardinality(rest) \in Nat
    BY <1>1, <1>4, FS_EmptySet, FS_CardinalityType
  <1>7. IsFiniteSet(rest \cup A)
    BY <1>1, <1>2, FS_Union
  <1> QED BY <1>2, <1>3, <1>5, <1>6, <1>7 DEF Total

LEMMA TotalChange ==
  ASSUME NEW K, NEW D, IsFiniteSet(D), NEW f, NEW g, NEW x \in D,
         \A y \in D : IsFiniteSet(Positions(K, f[y])), IsFiniteSet(Positions(K, g[x])),
         \A y \in D \ {x} : g[y] = f[y]
  PROVE  Total(K, g, D) + Weight(K, f[x]) = Total(K, f, D) + Weight(K, g[x])
  BY TotalUpdate

\* A position that holds one of K is counted.
LEMMA TotalSeen ==
  ASSUME NEW K, NEW D, IsFiniteSet(D), NEW f,
         \A y \in D : IsFiniteSet(Positions(K, f[y])), NEW x \in D, NEW k \in Positions(K, f[x])
  PROVE  Total(K, f, D) > 0 /\ Total(K, f, D) \in Nat
  <1>1. Total(K, f, D) \in Nat /\ IsFiniteSet(Spots(K, f, D))
    BY TotalUpdate
  <1>2. <<x, k>> \in {x} \X Positions(K, f[x])
    OBVIOUS
  <1>3. <<x, k>> \in Spots(K, f, D)
    BY <1>2 DEF Spots
  <1>4. Total(K, f, D) # 0
    BY <1>1, <1>3, FS_EmptySet DEF Total
  <1> QED BY <1>1, <1>4

-----------------------------------------------------------------------------
(* The invariant *)

Item(kind, of) == [kind |-> kind, of |-> of]

Things ==
    [kind : {"queue", "delete"}, of : Queues]
      \cup [kind : {"port", "erase", "signal", "complete", "pool", "ended"}, of : Ports]

Labels == {"idle", "submit", "terminate", "call", "default", "duplicate"}

QueuesOK ==
    /\ queueRefs \in [Queues -> Int] /\ queueLife \in [Queues -> {"none", "live", "deleted"}]
    /\ ports \in [Queues -> [Types -> Ports \cup {None}]]
    /\ sources \in [Queues -> [Types -> Queues \cup {None}]]
    /\ attached \in [Ports -> SUBSET Ports]

PortsOK ==
    /\ portRefs \in [Ports -> Int] /\ portLife \in [Ports -> {"none", "live", "deleted"}]
    /\ entries \in [Ports -> Seq(Queues)] /\ submitted \in [Ports -> Nat]
    /\ poolRefs \in [Ports -> Int] /\ items \in 0 .. MaxItems

OthersOK ==
    /\ handles \in [Handles -> [queue : Queues \cup {None}, user : Clients \cup {None}]]
    /\ ending \subseteq Ports /\ ended \subseteq Queues
    /\ process \in Handles \cup {"invalid", None} /\ default \in Queues \cup {None}

\* A thread has a queue in hand while it submits, terminates or calls, and one that
\* duplicates has read the handle that g_processQueue still has, or the default one.
ThreadsOK ==
    /\ pc \in [Threads -> Labels] /\ todo \in [Threads -> Seq(Things)]
    /\ own \in [Threads -> Queues \cup Handles \cup {"default", None}]
    /\ \A t \in Threads :
          /\ pc[t] \in {"submit", "terminate", "call"} <=> own[t] \in Queues
          /\ pc[t] = "idle" <=> own[t] = None
          /\ pc[t] = "default" => own[t] = "default"
          /\ pc[t] \in {"default", "duplicate"} => t \in Clients
          /\ pc[t] = "duplicate" =>
                (own[t] = "default" /\ default \in Queues) \/ (own[t] \in Handles /\ own[t] = process)
    /\ process \in Handles =>
          handles[process].queue \in Queues /\ handles[process].user = None

TypeInv == QueuesOK /\ PortsOK /\ OthersOK /\ ThreadsOK

\* The references to a queue: of handles, of the default queue, of calls under way, of entries,
\* of composites, of terminations, and those that threads are about to give up
HandleRefs(q) == {h \in Handles : handles[h].queue = q}

OwnRefs(q) == {t \in Threads : own[t] = q}

SourceRefs(q) == {c \in Ports : queueLife[c[1]] = "live" /\ sources[c[1]][c[2]] = q}

EndRefs(q) == {e \in ending : e[1] = q}

Number(K) == Total(K, todo, Threads)

EndItems(q) == {Item("ended", <<q, y>>) : y \in Types}

QueueItems(q) == {Item("queue", q)} \cup EndItems(q)

Direct(q) ==
    One(default = q) + Cardinality(HandleRefs(q)) + Cardinality(OwnRefs(q))
      + Total({q}, entries, Ports) + Cardinality(SourceRefs(q)) + Cardinality(EndRefs(q))

Holders(q) == Direct(q) + Number(QueueItems(q))

\* The references to a port: of contexts, of submissions to the pool, and those that threads
\* are about to give up
ContextRefs(p) == {c \in Ports : queueLife[c[1]] = "live" /\ ports[c[1]][c[2]] = p}

Users(p) == Cardinality(ContextRefs(p)) + submitted[p] + Number({Item("port", p)})

\* The last reference leaves one thread that deletes.
QueueCount(q) ==
    /\ queueRefs[q] = Holders(q)
    /\ queueRefs[q] > 0 => queueLife[q] = "live"
    /\ Number({Item("delete", q)}) > 0 => queueLife[q] = "live" /\ queueRefs[q] = 0
    /\ Number({Item("delete", q)}) <= 1

PortCount(p) ==
    /\ portRefs[p] = Users(p)
    /\ portRefs[p] > 0 => portLife[p] = "live"
    /\ Number({Item("erase", p)}) > 0 => portLife[p] = "live" /\ portRefs[p] = 0
    /\ Number({Item("erase", p)}) <= 1

PoolCount(p) ==
    /\ poolRefs[p] = One(portLife[p] = "live") + Number({Item("pool", p)})
    /\ portLife[p] = "none" => poolRefs[p] = 0

\* A queue is terminated once.
EndingRefs(q) == {t \in Threads : pc[t] = "terminate" /\ own[t] = q}

EndCount(q) ==
    Cardinality(EndingRefs(q)) + Cardinality(EndRefs(q)) + Number(EndItems(q)) <= One(q \in ended)

\* What a call has still to do at a port comes before it gives up its reference to it.
Ordered(s) ==
    \A k \in DOMAIN s :
        s[k].kind \in {"signal", "complete"} =>
            \E j \in DOMAIN s : j > k /\ s[j] = Item("port", s[k].of)

OrderOK == \A t \in Threads : Ordered(todo[t])

\* A queue has the ports it made, or a reference to the queue that did.
LinksOK ==
    /\ \A q \in Queues :
          /\ queueLife[q] = "live" =>
                \A y \in Types : /\ ports[q][y] \in Ports
                                 /\ ports[q][y][1] \in {q, sources[q][y]}
          /\ queueLife[q] = "none" =>
                \A y \in Types : sources[q][y] = None /\ portLife[<<q, y>>] = "none"
    /\ \A p \in Ports : \A c \in attached[p] : queueLife[c[1]] = "live"

CountsOK ==
    /\ \A q \in Queues : QueueCount(q) /\ EndCount(q)
    /\ \A p \in Ports : PortCount(p) /\ PoolCount(p)

LifeInv == TypeInv /\ CountsOK /\ OrderOK /\ LinksOK

\* No thread closes the process's handle while another is about to duplicate it: Set waits for
\* those in Get, or nobody calls it.  The code does not see to it.
SetIsApart == ExclusiveSet \/ \A t \in Clients : "Set" \notin Calls[t]

-----------------------------------------------------------------------------
(* Lemmas about the counts *)

LEMMA TotalType ==
  ASSUME NEW K, NEW D, IsFiniteSet(D), NEW f,
         \A y \in D : IsFiniteSet(Positions(K, f[y]))
  PROVE  IsFiniteSet(Spots(K, f, D)) /\ Total(K, f, D) \in Nat
  <1>1. CASE D = {}
    <2>1. Spots(K, f, D) = {}
      BY <1>1 DEF Spots
    <2> QED BY <2>1, FS_EmptySet DEF Total
  <1>2. ASSUME NEW x \in D
        PROVE  IsFiniteSet(Spots(K, f, D)) /\ Total(K, f, D) \in Nat
    BY TotalUpdate
  <1> QED BY <1>1, <1>2

LEMMA FinitePorts ==
  ASSUME LifetimeConstants
  PROVE  IsFiniteSet(Ports) /\ IsFiniteSet(Queues) /\ IsFiniteSet(Handles) /\ IsFiniteSet(Threads)
  <1>1. IsFiniteSet(Types)
    <2>1. Types = {"Work"} \cup {"Completion"}
      BY DEF Types
    <2> QED BY <2>1, FS_Singleton, FS_Union
  <1> QED BY <1>1, FS_Product DEF LifetimeConstants, Ports

\* The counts are numbers.
LEMMA CountTypes ==
  ASSUME LifetimeConstants, TypeInv
  PROVE  /\ \A K : Number(K) \in Nat
         /\ \A q \in Queues :
               /\ IsFiniteSet(HandleRefs(q)) /\ Cardinality(HandleRefs(q)) \in Nat
               /\ IsFiniteSet(OwnRefs(q)) /\ Cardinality(OwnRefs(q)) \in Nat
               /\ IsFiniteSet(SourceRefs(q)) /\ Cardinality(SourceRefs(q)) \in Nat
               /\ IsFiniteSet(EndRefs(q)) /\ Cardinality(EndRefs(q)) \in Nat
               /\ IsFiniteSet(EndingRefs(q)) /\ Cardinality(EndingRefs(q)) \in Nat
               /\ Total({q}, entries, Ports) \in Nat
               /\ Direct(q) \in Nat
         /\ \A p \in Ports : IsFiniteSet(ContextRefs(p)) /\ Cardinality(ContextRefs(p)) \in Nat
         /\ \A b : One(b) \in {0, 1}
  <1>1. \A b : One(b) \in {0, 1}
    BY DEF One
  <1>2. /\ todo \in [Threads -> Seq(Things)] /\ entries \in [Ports -> Seq(Queues)]
        /\ ending \subseteq Ports
    BY DEF TypeInv, ThreadsOK, PortsOK, OthersOK
  <1>3. /\ IsFiniteSet(Ports) /\ IsFiniteSet(Queues) /\ IsFiniteSet(Handles)
        /\ IsFiniteSet(Threads)
    BY FinitePorts
  <1>4. \A K : Number(K) \in Nat
    <2> SUFFICES ASSUME NEW K
                 PROVE  Total(K, todo, Threads) \in Nat
      BY DEF Number
    <2>1. \A u \in Threads : IsFiniteSet(Positions(K, todo[u]))
      BY <1>2, WeightType
    <2> QED BY <1>3, <2>1, TotalType
  <1>5. ASSUME NEW q \in Queues
        PROVE  /\ IsFiniteSet(HandleRefs(q)) /\ Cardinality(HandleRefs(q)) \in Nat
               /\ IsFiniteSet(OwnRefs(q)) /\ Cardinality(OwnRefs(q)) \in Nat
               /\ IsFiniteSet(SourceRefs(q)) /\ Cardinality(SourceRefs(q)) \in Nat
               /\ IsFiniteSet(EndRefs(q)) /\ Cardinality(EndRefs(q)) \in Nat
               /\ IsFiniteSet(EndingRefs(q)) /\ Cardinality(EndingRefs(q)) \in Nat
               /\ Total({q}, entries, Ports) \in Nat
               /\ Direct(q) \in Nat
    <2>1. /\ HandleRefs(q) \subseteq Handles /\ OwnRefs(q) \subseteq Threads
          /\ SourceRefs(q) \subseteq Ports /\ EndRefs(q) \subseteq Ports
          /\ EndingRefs(q) \subseteq Threads
      BY <1>2 DEF HandleRefs, OwnRefs, SourceRefs, EndRefs, EndingRefs
    <2>2. IsFiniteSet(HandleRefs(q)) /\ Cardinality(HandleRefs(q)) \in Nat
      BY <1>3, <2>1, FS_Subset, FS_CardinalityType
    <2>3. IsFiniteSet(OwnRefs(q)) /\ Cardinality(OwnRefs(q)) \in Nat
      BY <1>3, <2>1, FS_Subset, FS_CardinalityType
    <2>4. IsFiniteSet(SourceRefs(q)) /\ Cardinality(SourceRefs(q)) \in Nat
      BY <1>3, <2>1, FS_Subset, FS_CardinalityType
    <2>5. IsFiniteSet(EndRefs(q)) /\ Cardinality(EndRefs(q)) \in Nat
      BY <1>3, <2>1, FS_Subset, FS_CardinalityType
    <2>6. IsFiniteSet(EndingRefs(q)) /\ Cardinality(EndingRefs(q)) \in Nat
      BY <1>3, <2>1, FS_Subset, FS_CardinalityType
    <2>7. Total({q}, entries, Ports) \in Nat
      <3>1. \A p \in Ports : IsFiniteSet(Positions({q}, entries[p]))
        BY <1>2, WeightType
      <3> QED BY <1>3, <3>1, TotalType
    <2>8. Direct(q) \in Nat
      BY <1>1, <2>2, <2>3, <2>4, <2>5, <2>7 DEF Direct
    <2> QED BY <2>2, <2>3, <2>4, <2>5, <2>6, <2>7, <2>8
  <1>6. ASSUME NEW p \in Ports
        PROVE  IsFiniteSet(ContextRefs(p)) /\ Cardinality(ContextRefs(p)) \in Nat
    <2>1. ContextRefs(p) \in SUBSET Ports
      BY DEF ContextRefs
    <2> QED BY <1>3, <2>1, FS_Subset, FS_CardinalityType
  <1> QED BY <1>1, <1>4, <1>5, <1>6

\* A set of contexts changes at those of one queue.
LEMMA PairUpdate ==
  ASSUME NEW A, NEW B, IsFiniteSet(A), NEW q,
         A \ ({q} \X Types) = B \ ({q} \X Types)
  PROVE  /\ IsFiniteSet(B) /\ Cardinality(A) \in Nat /\ Cardinality(B) \in Nat
         /\ Cardinality(B) = Cardinality(A)
               + One(<<q, "Work">> \in B) - One(<<q, "Work">> \in A)
               + One(<<q, "Completion">> \in B) - One(<<q, "Completion">> \in A)
  <1> DEFINE w == <<q, "Work">>
             c == <<q, "Completion">>
             C == (A \ {w}) \cup (B \cap {w})
  <1>1. {q} \X Types = {w, c} /\ w # c
    BY DEF Types
  <1>2. A \ {w} = C \ {w} /\ C \ {c} = B \ {c} /\ (w \in C <=> w \in B) /\ (c \in C <=> c \in A)
    BY <1>1
  <1> HIDE DEF w, c, C
  <1>3. /\ IsFiniteSet(C) /\ Cardinality(A) \in Nat /\ Cardinality(C) \in Nat
        /\ Cardinality(C) = Cardinality(A) + One(w \in C) - One(w \in A)
    BY <1>2, SetUpdate
  <1>4. /\ IsFiniteSet(B) /\ Cardinality(B) \in Nat
        /\ Cardinality(B) = Cardinality(C) + One(c \in B) - One(c \in C)
    BY <1>2, <1>3, SetUpdate
  <1> QED BY <1>2, <1>3, <1>4 DEF One, w, c

\* A set of levels has at most two.
LEMMA TypesCount ==
  ASSUME NEW Y \in SUBSET Types
  PROVE  Cardinality(Y) = One("Work" \in Y) + One("Completion" \in Y)
  <1>1. Y = {} \/ Y = {"Work"} \/ Y = {"Completion"} \/ Y = {"Work"} \cup {"Completion"}
    BY DEF Types
  <1>2. CASE Y = {}
    BY <1>2, FS_EmptySet DEF One
  <1>3. CASE Y = {"Work"} \/ Y = {"Completion"}
    BY <1>3, FS_Singleton DEF One
  <1>4. CASE Y = {"Work"} \cup {"Completion"}
    <2>1. IsFiniteSet({"Work"}) /\ Cardinality({"Work"}) = 1 /\ "Completion" \notin {"Work"}
      BY FS_Singleton
    <2>2. Cardinality(Y) = 2
      BY <1>4, <2>1, FS_AddElement
    <2> QED BY <1>4, <2>2 DEF One
  <1> QED BY <1>1, <1>2, <1>3, <1>4

\* What the sets of steps hold
LEMMA ItemSets ==
  ASSUME NEW kind, NEW of, NEW q
  PROVE  /\ Item(kind, of) \in EndItems(q) <=>
               kind = "ended" /\ (of = <<q, "Work">> \/ of = <<q, "Completion">>)
         /\ Item(kind, of) \in QueueItems(q) <=>
               \/ kind = "queue" /\ of = q
               \/ kind = "ended" /\ (of = <<q, "Work">> \/ of = <<q, "Completion">>)
         /\ \A k, o : Item(kind, of) \in {Item(k, o)} <=> kind = k /\ of = o
         /\ Item(kind, of).kind = kind /\ Item(kind, of).of = of
  BY DEF Item, EndItems, QueueItems, Types

\* A step is a kind and what it is about.
LEMMA ItemTypes ==
  ASSUME NEW e \in Things
  PROVE  /\ e = Item(e.kind, e.of)
         /\ e.kind \in {"queue", "delete", "port", "erase", "signal", "complete", "pool", "ended"}
         /\ e.kind \in {"queue", "delete"} => e.of \in Queues
         /\ e.kind \notin {"queue", "delete"} => e.of \in Ports
  BY DEF Things, Item

\* Two ordered sequences in a row are ordered, and so is the tail of one.
LEMMA OrderedConcat ==
  ASSUME NEW s \in Seq(Things), NEW r \in Seq(Things), Ordered(s), Ordered(r)
  PROVE  Ordered(s \o r)
  <1>1. /\ s \o r \in Seq(Things) /\ Len(s) \in Nat /\ Len(r) \in Nat
        /\ Len(s \o r) = Len(s) + Len(r)
        /\ \A k \in 1 .. Len(s) + Len(r) : (s \o r)[k] = IF k <= Len(s) THEN s[k] ELSE r[k - Len(s)]
    BY ConcatProperties
  <1> SUFFICES ASSUME NEW k \in 1 .. Len(s) + Len(r), (s \o r)[k].kind \in {"signal", "complete"}
               PROVE  \E j \in 1 .. Len(s) + Len(r) : j > k /\ (s \o r)[j] = Item("port", (s \o r)[k].of)
    <2>1. DOMAIN (s \o r) = 1 .. Len(s) + Len(r)
      BY <1>1
    <2> QED BY <2>1 DEF Ordered
  <1>2. CASE k <= Len(s)
    <2>1. (s \o r)[k] = s[k] /\ k \in DOMAIN s
      BY <1>1, <1>2
    <2>2. PICK j \in DOMAIN s : j > k /\ s[j] = Item("port", s[k].of)
      BY <2>1 DEF Ordered
    <2>3. j \in 1 .. Len(s) + Len(r) /\ j <= Len(s)
      BY <1>1
    <2>4. (s \o r)[j] = s[j]
      BY <1>1, <2>3
    <2> QED BY <2>1, <2>2, <2>3, <2>4
  <1>3. CASE ~(k <= Len(s))
    <2>1. (s \o r)[k] = r[k - Len(s)] /\ k - Len(s) \in DOMAIN r
      BY <1>1, <1>3
    <2>2. PICK j \in DOMAIN r : j > k - Len(s) /\ r[j] = Item("port", r[k - Len(s)].of)
      BY <2>1 DEF Ordered
    <2>3. /\ j + Len(s) \in 1 .. Len(s) + Len(r) /\ ~(j + Len(s) <= Len(s)) /\ j + Len(s) > k
          /\ (j + Len(s)) - Len(s) = j
      BY <1>1, <2>2
    <2>4. (s \o r)[j + Len(s)] = r[j]
      BY <1>1, <2>3
    <2> QED BY <2>1, <2>2, <2>3, <2>4
  <1> QED BY <1>2, <1>3

LEMMA OrderedTail ==
  ASSUME NEW s \in Seq(Things), s # <<>>, Ordered(s)
  PROVE  Ordered(Tail(s))
  <1> DEFINE r == Tail(s)
  <1>1. /\ r \in Seq(Things) /\ Len(r) = Len(s) - 1 /\ Len(s) \in Nat \ {0}
        /\ \A k \in 1 .. Len(r) : r[k] = s[k + 1]
    OBVIOUS
  <1> HIDE DEF r
  <1>2. ASSUME NEW k \in DOMAIN r, r[k].kind \in {"signal", "complete"}
        PROVE  \E j \in DOMAIN r : j > k /\ r[j] = Item("port", r[k].of)
    <2>1. k \in 1 .. Len(r) /\ r[k] = s[k + 1] /\ k + 1 \in DOMAIN s
      BY <1>1
    <2>2. PICK j \in DOMAIN s : j > k + 1 /\ s[j] = Item("port", s[k + 1].of)
      BY <1>2, <2>1 DEF Ordered
    <2>3. j - 1 \in 1 .. Len(r) /\ j - 1 > k /\ (j - 1) + 1 = j
      BY <1>1, <2>1, <2>2
    <2>4. r[j - 1] = s[j] /\ j - 1 \in DOMAIN r
      BY <1>1, <2>3
    <2> QED BY <2>1, <2>2, <2>3, <2>4
  <1>3. Ordered(r)
    BY <1>2 DEF Ordered
  <1> QED BY <1>3 DEF r

\* A list without calls' steps is in order.
LEMMA OrderedPlain ==
  ASSUME NEW s \in Seq(Things), \A k \in DOMAIN s : s[k].kind \notin {"signal", "complete"}
  PROVE  Ordered(s)
  BY DEF Ordered

\* The steps of one thread are others.
LEMMA TodoUpdate ==
  ASSUME LifetimeConstants, NEW f \in [Threads -> Seq(Things)],
         NEW g \in [Threads -> Seq(Things)], NEW t \in Threads,
         \A u \in Threads \ {t} : g[u] = f[u], NEW K
  PROVE  /\ Total(K, f, Threads) \in Nat /\ Total(K, g, Threads) \in Nat
         /\ Total(K, g, Threads) + Weight(K, f[t]) = Total(K, f, Threads) + Weight(K, g[t])
  <1>1. IsFiniteSet(Threads)
    BY FinitePorts
  <1>2. \A u \in Threads : IsFiniteSet(Positions(K, f[u])) /\ IsFiniteSet(Positions(K, g[u]))
    BY WeightType
  <1>3. Total(K, f, Threads) \in Nat
    BY <1>1, <1>2, TotalUpdate
  <1>4. Total(K, g, Threads) \in Nat
    BY <1>1, <1>2, TotalUpdate
  <1>5. Total(K, g, Threads) + Weight(K, f[t]) = Total(K, f, Threads) + Weight(K, g[t])
    BY <1>1, <1>2, TotalChange
  <1> QED BY <1>3, <1>4, <1>5

LEMMA TodoType ==
  ASSUME LifetimeConstants, NEW f \in [Threads -> Seq(Things)], NEW K
  PROVE  Total(K, f, Threads) \in Nat
  <1>1. IsFiniteSet(Threads)
    BY FinitePorts
  <1>2. \A u \in Threads : IsFiniteSet(Positions(K, f[u]))
    BY WeightType
  <1> QED BY <1>1, <1>2, TotalType

\* A thread puts steps before those it has.
LEMMA Pushed ==
  ASSUME LifetimeConstants, todo \in [Threads -> Seq(Things)], todo' \in [Threads -> Seq(Things)],
         NEW t \in Threads, NEW steps \in Seq(Things), todo'[t] = steps \o todo[t],
         \A u \in Threads \ {t} : todo'[u] = todo[u], NEW K
  PROVE  Total(K, todo', Threads) = Total(K, todo, Threads) + Weight(K, steps)
  <1> DEFINE before == Weight(K, todo[t])
             after == Weight(K, todo'[t])
             new == Weight(K, steps)
             tf == Total(K, todo, Threads)
             tg == Total(K, todo', Threads)
  <1>1. todo[t] \in Seq(Things) /\ todo'[t] \in Seq(Things)
    OBVIOUS
  <1>2. after = new + before
    BY <1>1, WeightConcat
  <1>3. new \in Nat /\ before \in Nat /\ after \in Nat
    BY <1>1, WeightType
  <1>4. tf \in Nat /\ tg \in Nat
    BY TodoType
  <1>5. tg + before = tf + after
    BY TodoUpdate
  <1> HIDE DEF before, after, new, tf, tg
  <1>6. tg = tf + new
    BY <1>2, <1>3, <1>4, <1>5
  <1> QED BY <1>6 DEF new, tf, tg

\* A thread has done its first step, and goes on with others.
LEMMA Popped ==
  ASSUME LifetimeConstants, todo \in [Threads -> Seq(Things)], todo' \in [Threads -> Seq(Things)],
         NEW t \in Threads, todo[t] # <<>>,
         NEW steps \in Seq(Things), todo'[t] = steps \o Tail(todo[t]),
         \A u \in Threads \ {t} : todo'[u] = todo[u], NEW K
  PROVE  Total(K, todo', Threads) + One(Head(todo[t]) \in K)
            = Total(K, todo, Threads) + Weight(K, steps)
  <1> DEFINE before == Weight(K, todo[t])
             after == Weight(K, todo'[t])
             left == Weight(K, Tail(todo[t]))
             new == Weight(K, steps)
             tf == Total(K, todo, Threads)
             tg == Total(K, todo', Threads)
             first == One(Head(todo[t]) \in K)
  <1>1. todo[t] \in Seq(Things) /\ todo'[t] \in Seq(Things) /\ Tail(todo[t]) \in Seq(Things)
    OBVIOUS
  <1>2. after = new + left
    BY <1>1, WeightConcat
  <1>3. before = left + first
    BY <1>1, WeightTail
  <1>4. new \in Nat /\ left \in Nat /\ before \in Nat /\ after \in Nat /\ first \in Nat
    BY <1>1, WeightType DEF One
  <1>5. tf \in Nat /\ tg \in Nat
    BY TodoType
  <1>6. tg + before = tf + after
    BY TodoUpdate
  <1> HIDE DEF before, after, left, new, tf, tg, first
  <1>7. tg + first = tf + new
    BY <1>2, <1>3, <1>4, <1>5, <1>6
  <1> QED BY <1>7 DEF new, tf, tg, first

\* A thread has done its first step.
LEMMA Dropped ==
  ASSUME LifetimeConstants, todo \in [Threads -> Seq(Things)], todo' \in [Threads -> Seq(Things)],
         NEW t \in Threads, todo[t] # <<>>, todo'[t] = Tail(todo[t]),
         \A u \in Threads \ {t} : todo'[u] = todo[u], NEW K
  PROVE  Total(K, todo', Threads) + One(Head(todo[t]) \in K) = Total(K, todo, Threads)
  <1> DEFINE s == <<>>
  <1>1. Tail(todo[t]) \in Seq(Things)
    OBVIOUS
  <1>2. s \in Seq(Things) /\ todo'[t] = s \o Tail(todo[t])
    BY <1>1, ConcatEmptySeq
  <1>3. Weight(K, s) = 0
    BY WeightNone
  <1> HIDE DEF s
  <1>4. Total(K, todo', Threads) + One(Head(todo[t]) \in K) = Total(K, todo, Threads) + Weight(K, s)
    BY <1>2, Popped
  <1>5. Total(K, todo, Threads) \in Nat
    BY TodoType
  <1> QED BY <1>3, <1>4, <1>5

LEMMA StillOrdered ==
  ASSUME OrderOK, NEW t \in Threads, Ordered(todo'[t]), \A u \in Threads \ {t} : todo'[u] = todo[u]
  PROVE  OrderOK'
  <1>1. ASSUME NEW u \in Threads
        PROVE  Ordered(todo'[u])
    BY DEF OrderOK
  <1> QED BY <1>1 DEF OrderOK

\* One step, and none
LEMMA DoWeights ==
  ASSUME NEW kind, NEW of, Item(kind, of) \in Things
  PROVE  /\ Do(kind, of) \in Seq(Things)
         /\ \A K : Weight(K, Do(kind, of)) = One(Item(kind, of) \in K)
         /\ kind \notin {"signal", "complete"} => Ordered(Do(kind, of))
  <1>1. Do(kind, of) = <<Item(kind, of)>> /\ Item(kind, of).kind = kind
    BY DEF Do, Item
  <1>2. Do(kind, of) \in Seq(Things)
    BY <1>1
  <1>3. \A K : Weight(K, Do(kind, of)) = One(Item(kind, of) \in K)
    BY <1>1, WeightOne
  <1>4. kind \notin {"signal", "complete"} => Ordered(Do(kind, of))
    BY <1>1 DEF Ordered
  <1> QED BY <1>2, <1>3, <1>4

LEMMA NoWeight ==
  /\ <<>> \in Seq(Things) /\ Ordered(<<>>)
  /\ \A K : Weight(K, <<>>) = 0
  BY WeightNone DEF Ordered

\* A step of a thread is counted.
LEMMA StepSeen ==
  ASSUME LifetimeConstants, TypeInv, NEW t \in Threads, NEW k \in DOMAIN todo[t], NEW K,
         todo[t][k] \in K
  PROVE  Number(K) > 0
  <1>1. \A u \in Threads : IsFiniteSet(Positions(K, todo[u]))
    BY WeightType DEF TypeInv, ThreadsOK
  <1>2. k \in Positions(K, todo[t])
    BY DEF Positions, TypeInv, ThreadsOK
  <1> QED BY <1>1, <1>2, FinitePorts, TotalSeen DEF Number

\* A queue that something leads to is alive, and nobody deletes it.
LEMMA Held ==
  ASSUME LifetimeConstants, TypeInv, CountsOK, NEW q \in Queues,
         \/ default = q
         \/ \E h \in Handles : handles[h].queue = q
         \/ \E t \in Threads : own[t] = q
         \/ \E p \in Ports : q \in Range(entries[p])
         \/ \E c \in Ports : queueLife[c[1]] = "live" /\ sources[c[1]][c[2]] = q
         \/ \E e \in ending : e[1] = q
         \/ \E t \in Threads : \E k \in DOMAIN todo[t] : todo[t][k] \in QueueItems(q)
  PROVE  /\ queueRefs[q] \in Nat /\ queueRefs[q] > 0 /\ queueLife[q] = "live"
         /\ Number({Item("delete", q)}) = 0
  <1> DEFINE hs == HandleRefs(q)
             os == OwnRefs(q)
             ss == SourceRefs(q)
             es == EndRefs(q)
             te == Total({q}, entries, Ports)
             n == Number(QueueItems(q))
             d == One(default = q)
  <1>1. /\ IsFiniteSet(hs) /\ Cardinality(hs) \in Nat /\ IsFiniteSet(os) /\ Cardinality(os) \in Nat
        /\ IsFiniteSet(ss) /\ Cardinality(ss) \in Nat /\ IsFiniteSet(es) /\ Cardinality(es) \in Nat
        /\ te \in Nat /\ n \in Nat /\ d \in {0, 1}
    BY CountTypes
  <1>2. queueRefs[q] = d + Cardinality(hs) + Cardinality(os) + te + Cardinality(ss) + Cardinality(es) + n
    BY DEF CountsOK, QueueCount, Holders, Direct
  <1>3. default = q => d > 0
    BY DEF One
  <1>4. (\E h \in Handles : handles[h].queue = q) => hs # {}
    BY DEF HandleRefs
  <1>5. (\E t \in Threads : own[t] = q) => os # {}
    BY DEF OwnRefs
  <1>6. (\E p \in Ports : q \in Range(entries[p])) => te > 0
    <2>1. SUFFICES ASSUME NEW p \in Ports, NEW k \in DOMAIN entries[p], entries[p][k] = q
                   PROVE  te > 0
      BY DEF Range
    <2>2. \A o \in Ports : IsFiniteSet(Positions({q}, entries[o]))
      BY WeightType DEF TypeInv, PortsOK
    <2>3. k \in Positions({q}, entries[p])
      BY <2>1 DEF Positions, TypeInv, PortsOK
    <2> QED BY <2>2, <2>3, FinitePorts, TotalSeen
  <1>7. (\E c \in Ports : queueLife[c[1]] = "live" /\ sources[c[1]][c[2]] = q) => ss # {}
    BY DEF SourceRefs
  <1>8. (\E e \in ending : e[1] = q) => es # {}
    BY DEF EndRefs
  <1>9. (\E t \in Threads : \E k \in DOMAIN todo[t] : todo[t][k] \in QueueItems(q)) => n > 0
    BY StepSeen
  <1> HIDE DEF hs, os, ss, es, te, n, d
  <1>10. \A S : IsFiniteSet(S) /\ S # {} => Cardinality(S) # 0
    BY FS_EmptySet
  <1>11. \/ d > 0 \/ Cardinality(hs) # 0 \/ Cardinality(os) # 0 \/ te > 0 \/ Cardinality(ss) # 0
         \/ Cardinality(es) # 0 \/ n > 0
    BY <1>1, <1>3, <1>4, <1>5, <1>6, <1>7, <1>8, <1>9, <1>10
  <1>12. queueRefs[q] \in Nat /\ queueRefs[q] > 0
    BY <1>1, <1>2, <1>11
  <1>13. Number({Item("delete", q)}) \in Nat
    BY CountTypes
  <1> QED BY <1>12, <1>13 DEF CountsOK, QueueCount

\* A port that something leads to is alive, and nobody deletes it.
LEMMA PortHeld ==
  ASSUME LifetimeConstants, TypeInv, CountsOK, NEW p \in Ports,
         \/ \E c \in Ports : queueLife[c[1]] = "live" /\ ports[c[1]][c[2]] = p
         \/ submitted[p] > 0
         \/ \E t \in Threads : \E k \in DOMAIN todo[t] : todo[t][k] = Item("port", p)
  PROVE  /\ portRefs[p] \in Nat /\ portRefs[p] > 0 /\ portLife[p] = "live"
         /\ Number({Item("erase", p)}) = 0
  <1> DEFINE cs == ContextRefs(p)
             n == Number({Item("port", p)})
             s == submitted[p]
  <1>1. IsFiniteSet(cs) /\ Cardinality(cs) \in Nat /\ n \in Nat /\ s \in Nat
    BY CountTypes DEF TypeInv, PortsOK
  <1>2. portRefs[p] = Cardinality(cs) + s + n
    BY DEF CountsOK, PortCount, Users
  <1>3. (\E c \in Ports : queueLife[c[1]] = "live" /\ ports[c[1]][c[2]] = p) => cs # {}
    BY DEF ContextRefs
  <1>4. (\E t \in Threads : \E k \in DOMAIN todo[t] : todo[t][k] = Item("port", p)) => n > 0
    BY StepSeen
  <1>5. s > 0 \/ cs # {} \/ n > 0
    BY <1>3, <1>4
  <1> HIDE DEF cs, n, s
  <1>6. cs # {} => Cardinality(cs) # 0
    BY <1>1, FS_EmptySet
  <1>7. portRefs[p] \in Nat /\ portRefs[p] > 0
    BY <1>1, <1>2, <1>5, <1>6
  <1>8. Number({Item("erase", p)}) \in Nat
    BY CountTypes
  <1> QED BY <1>7, <1>8 DEF CountsOK, PortCount

\* The ports of a queue that is alive
LEMMA LivePorts ==
  ASSUME LifetimeConstants, LifeInv, NEW q \in Queues, queueLife[q] = "live", NEW y \in Types
  PROVE  /\ ports[q][y] \in Ports /\ ports[q][y][1] \in Queues
         /\ queueLife[ports[q][y][1]] = "live"
         /\ portRefs[ports[q][y]] > 0 /\ portLife[ports[q][y]] = "live"
         /\ Number({Item("erase", ports[q][y])}) = 0
  <1> DEFINE p == ports[q][y]
             s == sources[q][y]
  <1>1. p \in Ports /\ p[1] \in {q, s} /\ p[1] \in Queues
    BY DEF LifeInv, LinksOK, Ports
  <1>2. <<q, y>> \in Ports /\ <<q, y>>[1] = q /\ <<q, y>>[2] = y
    BY DEF Ports
  <1>3. portRefs[p] > 0 /\ portLife[p] = "live" /\ Number({Item("erase", p)}) = 0
    BY <1>1, <1>2, PortHeld DEF LifeInv
  <1>4. queueLife[p[1]] = "live"
    <2>1. CASE p[1] = q
      BY <2>1
    <2>2. CASE p[1] = s
      <3> DEFINE r == p[1]
      <3>1. r \in Queues /\ queueLife[<<q, y>>[1]] = "live" /\ sources[<<q, y>>[1]][<<q, y>>[2]] = r
        BY <1>1, <1>2, <2>2
      <3> HIDE DEF r
      <3>2. queueLife[r] = "live"
        BY <1>2, <3>1, Held DEF LifeInv
      <3> QED BY <3>2 DEF r
    <2> QED BY <1>1, <2>1, <2>2
  <1> QED BY <1>1, <1>3, <1>4

\* Nothing leads to a queue that has not been made, or to its ports.
LEMMA Unmade ==
  ASSUME LifetimeConstants, LifeInv, NEW q \in Queues, queueLife[q] = "none"
  PROVE  /\ queueRefs[q] = 0 /\ Holders(q) = 0 /\ Direct(q) = 0
         /\ Number(QueueItems(q)) = 0 /\ Number({Item("delete", q)}) = 0
         /\ default # q /\ Cardinality(SourceRefs(q)) = 0
         /\ \A c \in Ports : queueLife[c[1]] = "live" => sources[c[1]][c[2]] # q
         /\ \A y \in Types :
               /\ sources[q][y] = None /\ portLife[<<q, y>>] = "none"
               /\ portRefs[<<q, y>>] = 0 /\ Users(<<q, y>>) = 0 /\ submitted[<<q, y>>] = 0
               /\ ContextRefs(<<q, y>>) = {} /\ Number({Item("port", <<q, y>>)}) = 0
               /\ Number({Item("erase", <<q, y>>)}) = 0 /\ Number({Item("pool", <<q, y>>)}) = 0
               /\ poolRefs[<<q, y>>] = 0
  <1>1. queueRefs[q] \in Int /\ queueRefs[q] = Holders(q) /\ ~(queueRefs[q] > 0)
        /\ ~(Number({Item("delete", q)}) > 0)
    BY DEF LifeInv, CountsOK, QueueCount, TypeInv, QueuesOK
  <1>2. Direct(q) \in Nat /\ Number(QueueItems(q)) \in Nat /\ Number({Item("delete", q)}) \in Nat
        /\ Cardinality(SourceRefs(q)) \in Nat
    BY CountTypes DEF LifeInv
  <1>3. Holders(q) = Direct(q) + Number(QueueItems(q))
    BY DEF Holders
  <1>4. /\ queueRefs[q] = 0 /\ Holders(q) = 0 /\ Direct(q) = 0
        /\ Number(QueueItems(q)) = 0 /\ Number({Item("delete", q)}) = 0
    BY <1>1, <1>2, <1>3
  <1>5. default # q /\ \A c \in Ports : queueLife[c[1]] = "live" => sources[c[1]][c[2]] # q
    BY Held DEF LifeInv
  <1>6. Cardinality(SourceRefs(q)) = 0
    BY <1>5, FS_EmptySet DEF SourceRefs
  <1>7. ASSUME NEW y \in Types
        PROVE  /\ sources[q][y] = None /\ portLife[<<q, y>>] = "none"
               /\ portRefs[<<q, y>>] = 0 /\ Users(<<q, y>>) = 0 /\ submitted[<<q, y>>] = 0
               /\ ContextRefs(<<q, y>>) = {} /\ Number({Item("port", <<q, y>>)}) = 0
               /\ Number({Item("erase", <<q, y>>)}) = 0 /\ Number({Item("pool", <<q, y>>)}) = 0
               /\ poolRefs[<<q, y>>] = 0
    <2> DEFINE p == <<q, y>>
    <2>1. p \in Ports
      BY DEF Ports
    <2>2. sources[q][y] = None /\ portLife[p] = "none"
      BY DEF LifeInv, LinksOK
    <2> HIDE DEF p
    <2>3. /\ IsFiniteSet(ContextRefs(p)) /\ Cardinality(ContextRefs(p)) \in Nat
          /\ submitted[p] \in Nat /\ Number({Item("port", p)}) \in Nat
          /\ Number({Item("erase", p)}) \in Nat /\ Number({Item("pool", p)}) \in Nat
          /\ portRefs[p] \in Int
      BY <2>1, CountTypes DEF LifeInv, TypeInv, PortsOK
    <2>4. portRefs[p] = Users(p) /\ ~(portRefs[p] > 0) /\ ~(Number({Item("erase", p)}) > 0)
      BY <2>1, <2>2 DEF LifeInv, CountsOK, PortCount
    <2>5. Users(p) = Cardinality(ContextRefs(p)) + submitted[p] + Number({Item("port", p)})
      BY DEF Users
    <2>6. poolRefs[p] = 0 /\ poolRefs[p] = One(portLife[p] = "live") + Number({Item("pool", p)})
      BY <2>1, <2>2 DEF LifeInv, CountsOK, PoolCount
    <2>7. /\ portRefs[p] = 0 /\ Users(p) = 0 /\ submitted[p] = 0 /\ Cardinality(ContextRefs(p)) = 0
          /\ Number({Item("port", p)}) = 0 /\ Number({Item("erase", p)}) = 0
      BY <2>3, <2>4, <2>5
    <2>8. Number({Item("pool", p)}) = 0
      BY <2>2, <2>3, <2>6 DEF One
    <2>9. ContextRefs(p) = {}
      BY <2>3, <2>7, FS_EmptySet
    <2> QED BY <2>2, <2>6, <2>7, <2>8, <2>9 DEF p
  <1> QED BY <1>4, <1>5, <1>6, <1>7

-----------------------------------------------------------------------------
(* What the invariant says *)

\* The invariant is strong enough.
LEMMA LifeInvImplies ==
  ASSUME LifetimeConstants, LifeInv
  PROVE  NothingDangles
  <1> DEFINE live == {q \in Queues : queueLife[q] = "live"}
             livePorts == {p \in Ports : portLife[p] = "live"}
  <1> USE DEF LifeInv
  <1>1. ASSUME NEW h \in Handles
        PROVE  handles[h].queue \in live \cup {None}
    BY Held DEF TypeInv, OthersOK
  <1>2. ASSUME NEW p \in Ports, NEW q \in Range(entries[p])
        PROVE  q \in live
    <2>1. q \in Queues
      BY DEF Range, TypeInv, PortsOK
    <2> QED BY <2>1, Held
  <1>3. ASSUME NEW e \in ending
        PROVE  e[1] \in live
    <2>1. e[1] \in Queues
      BY DEF TypeInv, OthersOK, Ports
    <2> QED BY <2>1, Held
  <1>4. default \in live \cup {None}
    BY Held DEF TypeInv, OthersOK
  <1>5. ASSUME NEW t \in Threads, own[t] \in Queues
        PROVE  own[t] \in live
    BY <1>5, Held
  <1>6. ASSUME NEW t \in Threads, own[t] \in Handles
        PROVE  ~Free(own[t])
    <2>1. own[t] = process /\ process \in Handles
      <3>1. own[t] \notin Queues \cup {"default", None}
        BY <1>6 DEF LifetimeConstants
      <3> QED BY <1>6, <3>1 DEF TypeInv, ThreadsOK, Labels
    <2>2. handles[process].queue \in Queues /\ None \notin Queues
      BY <2>1 DEF TypeInv, ThreadsOK, LifetimeConstants
    <2> QED BY <2>1, <2>2 DEF Free, NoHandle
  <1>7. \A p \in livePorts : attached[p] \subseteq live \X Types
    BY DEF LinksOK, TypeInv, QueuesOK, Ports
  <1>8. \A p \in Ports : submitted[p] > 0 => p \in livePorts
    BY PortHeld
  <1>9. \A q \in live : \A y \in Types : ports[q][y] \in livePorts /\ ports[q][y][1] \in live
    BY LivePorts
  <1>10. ASSUME NEW t \in Threads, NEW k \in DOMAIN todo[t]
         PROVE  LET of == todo[t][k].of IN
                CASE todo[t][k].kind \in {"queue", "delete"} -> of \in live
                  [] todo[t][k].kind = "ended" -> of[1] \in live
                  [] todo[t][k].kind = "pool" -> poolRefs[of] > 0
                  [] OTHER -> of \in livePorts
    <2> DEFINE e == todo[t][k]
               of == e.of
    <2>1. e \in Things
      BY DEF TypeInv, ThreadsOK
    <2>2. /\ e = Item(e.kind, of)
          /\ e.kind \in {"queue", "delete", "port", "erase", "signal", "complete", "pool", "ended"}
          /\ e.kind \in {"queue", "delete"} => of \in Queues
          /\ e.kind \notin {"queue", "delete"} => of \in Ports
      BY <2>1, ItemTypes
    <2>3. CASE e.kind = "queue"
      <3>1. e \in QueueItems(of)
        BY <2>2, <2>3, ItemSets
      <3> QED BY <2>2, <2>3, <3>1, Held
    <2>4. CASE e.kind = "delete"
      <3>1. Number({Item("delete", of)}) > 0
        BY <2>2, <2>4, StepSeen
      <3> QED BY <2>2, <2>4, <3>1 DEF CountsOK, QueueCount
    <2>5. CASE e.kind = "ended"
      <3>1. of[1] \in Queues /\ (of = <<of[1], "Work">> \/ of = <<of[1], "Completion">>)
        BY <2>2, <2>5 DEF Ports, Types
      <3> DEFINE q == of[1]
      <3>2. e = Item("ended", <<q, "Work">>) \/ e = Item("ended", <<q, "Completion">>)
        BY <2>2, <2>5, <3>1
      <3>3. e \in QueueItems(q)
        BY <3>2 DEF QueueItems, EndItems, Types
      <3>4. of[1] \in live
        BY <3>1, <3>3, Held
      <3> QED BY <2>5, <3>4
    <2>6. CASE e.kind = "pool"
      <3>1. Number({Item("pool", of)}) > 0 /\ Number({Item("pool", of)}) \in Nat
        BY <2>2, <2>6, StepSeen, CountTypes
      <3>2. poolRefs[of] = One(portLife[of] = "live") + Number({Item("pool", of)})
        BY <2>2, <2>6 DEF CountsOK, PoolCount
      <3>3. poolRefs[of] > 0
        BY <3>1, <3>2 DEF One
      <3> QED BY <2>6, <3>3
    <2>7. CASE e.kind = "port"
      <3>1. of \in livePorts
        BY <2>2, <2>7, PortHeld
      <3> QED BY <2>7, <3>1
    <2>8. CASE e.kind = "erase"
      <3>1. Number({Item("erase", of)}) > 0
        BY <2>2, <2>8, StepSeen
      <3>2. of \in livePorts
        BY <2>2, <2>8, <3>1 DEF CountsOK, PortCount
      <3> QED BY <2>8, <3>2
    <2>9. CASE e.kind \in {"signal", "complete"}
      <3>1. PICK j \in DOMAIN todo[t] : todo[t][j] = Item("port", of)
        BY <2>9 DEF OrderOK, Ordered
      <3>2. of \in livePorts
        BY <2>2, <2>9, <3>1, PortHeld
      <3> QED BY <2>9, <3>2
    <2> QED BY <2>2, <2>3, <2>4, <2>5, <2>6, <2>7, <2>8, <2>9
  <1>11. {handles[h].queue : h \in Handles} \cup (UNION {Range(entries[p]) : p \in Ports})
             \cup {e[1] : e \in ending} \cup {default} \subseteq live \cup {None}
    <2> SUFFICES ASSUME NEW x \in {handles[h].queue : h \in Handles}
                                   \cup (UNION {Range(entries[p]) : p \in Ports})
                                   \cup {e[1] : e \in ending} \cup {default}
                 PROVE  x \in live \cup {None}
      OBVIOUS
    <2>1. CASE x \in {handles[h].queue : h \in Handles}
      BY <1>1, <2>1
    <2>2. CASE x \in UNION {Range(entries[p]) : p \in Ports}
      BY <1>2, <2>2
    <2>3. CASE x \in {e[1] : e \in ending}
      BY <1>3, <2>3
    <2> QED BY <1>4, <2>1, <2>2, <2>3
  <1>12. /\ {own[t] : t \in Threads} \cap Queues \subseteq live
         /\ {own[t] : t \in Threads} \cap Handles \subseteq {h \in Handles : ~Free(h)}
    BY <1>5, <1>6
  <1> QED BY <1>7, <1>8, <1>9, <1>10, <1>11, <1>12 DEF NothingDangles

-----------------------------------------------------------------------------
(* What a step leaves alone *)

\* The sets that each kind of step is counted in
LEMMA QueueStep ==
  ASSUME NEW o, NEW x
  PROVE  /\ One(Item("queue", o) \in QueueItems(x)) = One(o = x)
         /\ One(Item("queue", o) \in EndItems(x)) = 0
         /\ \A k : k # "queue" => One(Item("queue", o) \in {Item(k, x)}) = 0
  BY ItemSets DEF One

LEMMA PlainStep ==
  ASSUME NEW kind, kind \notin {"queue", "ended"}, NEW o, NEW x
  PROVE  /\ One(Item(kind, o) \in QueueItems(x)) = 0
         /\ One(Item(kind, o) \in EndItems(x)) = 0
         /\ \A k : One(Item(kind, o) \in {Item(k, x)}) = One(kind = k /\ o = x)
  BY ItemSets DEF One

LEMMA EndedStep ==
  ASSUME NEW a, NEW y \in Types, NEW x
  PROVE  /\ One(Item("ended", <<a, y>>) \in QueueItems(x)) = One(a = x)
         /\ One(Item("ended", <<a, y>>) \in EndItems(x)) = One(a = x)
         /\ \A k, o : k # "ended" => One(Item("ended", <<a, y>>) \in {Item(k, o)}) = 0
  <1>1. Item("ended", <<a, y>>) \in EndItems(x) <=> a = x
    BY ItemSets DEF Types
  <1>2. Item("ended", <<a, y>>) \in QueueItems(x) <=> a = x
    BY ItemSets DEF Types
  <1>3. \A k, o : k # "ended" => Item("ended", <<a, y>>) \notin {Item(k, o)}
    BY ItemSets
  <1> QED BY <1>1, <1>2, <1>3 DEF One

\* One counts a condition.
LEMMA OneType == \A b : One(b) \in {0, 1} /\ (One(b) = 1 <=> b)
  BY DEF One

\* What a step that changes none of these leaves right
LEMMA QueuesKept ==
  ASSUME CountsOK, UNCHANGED <<queueLife, queueRefs, default, handles, own, entries, sources, ending>>,
         \A x \in Queues :
            /\ Total(QueueItems(x), todo', Threads) = Total(QueueItems(x), todo, Threads)
            /\ Total({Item("delete", x)}, todo', Threads) = Total({Item("delete", x)}, todo, Threads)
  PROVE  \A q \in Queues : QueueCount(q)'
  <1> SUFFICES ASSUME NEW q \in Queues
               PROVE  QueueCount(q)'
    OBVIOUS
  <1>1. Direct(q)' = Direct(q)
    BY DEF Direct, HandleRefs, OwnRefs, SourceRefs, EndRefs
  <1>2. QueueCount(q)
    BY DEF CountsOK
  <1> QED BY <1>1, <1>2 DEF QueueCount, Holders, Number

LEMMA EndsKept ==
  ASSUME CountsOK, UNCHANGED <<ending, ended, pc, own>>,
         \A x \in Queues : Total(EndItems(x), todo', Threads) = Total(EndItems(x), todo, Threads)
  PROVE  \A q \in Queues : EndCount(q)'
  BY DEF CountsOK, EndCount, EndingRefs, EndRefs, Number

LEMMA PortsKept ==
  ASSUME CountsOK, UNCHANGED <<queueLife, ports, portRefs, portLife, submitted>>,
         \A x \in Ports :
            /\ Total({Item("port", x)}, todo', Threads) = Total({Item("port", x)}, todo, Threads)
            /\ Total({Item("erase", x)}, todo', Threads) = Total({Item("erase", x)}, todo, Threads)
  PROVE  \A p \in Ports : PortCount(p)'
  BY DEF CountsOK, PortCount, Users, ContextRefs, Number

LEMMA PoolsKept ==
  ASSUME CountsOK, UNCHANGED <<portLife, poolRefs>>,
         \A x \in Ports :
            Total({Item("pool", x)}, todo', Threads) = Total({Item("pool", x)}, todo, Threads)
  PROVE  \A p \in Ports : PoolCount(p)'
  BY DEF CountsOK, PoolCount, Number

LEMMA LinksKept ==
  ASSUME LinksOK, UNCHANGED <<queueLife, ports, sources, portLife, attached>>
  PROVE  LinksOK'
  BY DEF LinksOK

\* A thread has its next step.
LEMMA NextStep ==
  ASSUME TypeInv, NEW t \in Threads, NEW what, Doing(t, what)
  PROVE  /\ todo \in [Threads -> Seq(Things)] /\ todo[t] # <<>> /\ Head(todo[t]) \in Things
         /\ Head(todo[t]) = Item(what, Head(todo[t]).of)
         /\ what \in {"queue", "delete"} => Head(todo[t]).of \in Queues
         /\ what \notin {"queue", "delete"} => Head(todo[t]).of \in Ports
         /\ 1 \in DOMAIN todo[t] /\ todo[t][1] = Head(todo[t])
  <1>1. todo \in [Threads -> Seq(Things)] /\ todo[t] # <<>> /\ Head(todo[t]).kind = what
    BY DEF TypeInv, ThreadsOK, Doing
  <1>2. Head(todo[t]) \in Things /\ 1 \in DOMAIN todo[t] /\ todo[t][1] = Head(todo[t])
    BY <1>1
  <1> QED BY <1>1, <1>2, ItemTypes

\* What the counts of a queue, a port and a pool are
LEMMA QueueFacts ==
  ASSUME LifetimeConstants, TypeInv, CountsOK, NEW x \in Queues
  PROVE  /\ queueRefs[x] \in Int /\ Direct(x) \in Nat
         /\ Total(QueueItems(x), todo, Threads) \in Nat
         /\ Total({Item("delete", x)}, todo, Threads) \in Nat
         /\ queueRefs[x] = Direct(x) + Total(QueueItems(x), todo, Threads)
         /\ queueRefs[x] > 0 => queueLife[x] = "live"
         /\ Total({Item("delete", x)}, todo, Threads) > 0 => queueLife[x] = "live" /\ queueRefs[x] = 0
         /\ Total({Item("delete", x)}, todo, Threads) <= 1
  <1>1. queueRefs[x] \in Int
    BY DEF TypeInv, QueuesOK
  <1>2. /\ Direct(x) \in Nat /\ Total(QueueItems(x), todo, Threads) \in Nat
        /\ Total({Item("delete", x)}, todo, Threads) \in Nat
    BY CountTypes DEF Number
  <1> QED BY <1>1, <1>2 DEF CountsOK, QueueCount, Holders, Number

LEMMA PortFacts ==
  ASSUME LifetimeConstants, TypeInv, CountsOK, NEW x \in Ports
  PROVE  /\ portRefs[x] \in Int /\ submitted[x] \in Nat
         /\ IsFiniteSet(ContextRefs(x)) /\ Cardinality(ContextRefs(x)) \in Nat
         /\ Total({Item("port", x)}, todo, Threads) \in Nat
         /\ Total({Item("erase", x)}, todo, Threads) \in Nat
         /\ portRefs[x] = Cardinality(ContextRefs(x)) + submitted[x]
                             + Total({Item("port", x)}, todo, Threads)
         /\ portRefs[x] > 0 => portLife[x] = "live"
         /\ Total({Item("erase", x)}, todo, Threads) > 0 => portLife[x] = "live" /\ portRefs[x] = 0
         /\ Total({Item("erase", x)}, todo, Threads) <= 1
  <1>1. portRefs[x] \in Int /\ submitted[x] \in Nat
    BY DEF TypeInv, PortsOK
  <1>2. /\ IsFiniteSet(ContextRefs(x)) /\ Cardinality(ContextRefs(x)) \in Nat
        /\ Total({Item("port", x)}, todo, Threads) \in Nat
        /\ Total({Item("erase", x)}, todo, Threads) \in Nat
    BY CountTypes DEF Number
  <1> QED BY <1>1, <1>2 DEF CountsOK, PortCount, Users, Number

LEMMA PoolFacts ==
  ASSUME LifetimeConstants, TypeInv, CountsOK, NEW x \in Ports
  PROVE  /\ poolRefs[x] \in Int /\ Total({Item("pool", x)}, todo, Threads) \in Nat
         /\ One(portLife[x] = "live") \in {0, 1}
         /\ poolRefs[x] = One(portLife[x] = "live") + Total({Item("pool", x)}, todo, Threads)
         /\ portLife[x] = "none" => poolRefs[x] = 0
  <1>1. poolRefs[x] \in Int /\ One(portLife[x] = "live") \in {0, 1}
    BY DEF TypeInv, PortsOK, One
  <1>2. Total({Item("pool", x)}, todo, Threads) \in Nat
    BY CountTypes DEF Number
  <1> QED BY <1>1, <1>2 DEF CountsOK, PoolCount, Number

\* One thread, one handle, one port or one termination is another.
LEMMA OwnChange ==
  ASSUME LifetimeConstants, TypeInv, NEW t \in Threads,
         \A u \in Threads \ {t} : own'[u] = own[u], NEW x \in Queues
  PROVE  /\ Cardinality(OwnRefs(x)') \in Nat
         /\ Cardinality(OwnRefs(x)') + One(own[t] = x) = Cardinality(OwnRefs(x)) + One(own'[t] = x)
  <1> DEFINE A == OwnRefs(x)
             B == OwnRefs(x)'
  <1>1. B = {u \in Threads : own'[u] = x} /\ A = {u \in Threads : own[u] = x}
    BY DEF OwnRefs
  <1>2. A \ {t} = B \ {t} /\ (t \in A <=> own[t] = x) /\ (t \in B <=> own'[t] = x)
    BY <1>1
  <1>3. IsFiniteSet(A)
    BY CountTypes
  <1> HIDE DEF A, B
  <1>4. /\ Cardinality(A) \in Nat /\ Cardinality(B) \in Nat
        /\ Cardinality(B) = Cardinality(A) + One(t \in B) - One(t \in A)
    BY <1>2, <1>3, SetUpdate
  <1>5. Cardinality(B) + One(own[t] = x) = Cardinality(A) + One(own'[t] = x)
    BY <1>2, <1>4 DEF One
  <1> QED BY <1>4, <1>5 DEF A, B

LEMMA HandleChange ==
  ASSUME LifetimeConstants, TypeInv, NEW h \in Handles,
         \A k \in Handles \ {h} : handles'[k] = handles[k], NEW x \in Queues
  PROVE  /\ Cardinality(HandleRefs(x)') \in Nat
         /\ Cardinality(HandleRefs(x)') + One(handles[h].queue = x)
               = Cardinality(HandleRefs(x)) + One(handles'[h].queue = x)
  <1> DEFINE A == HandleRefs(x)
             B == HandleRefs(x)'
  <1>1. B = {k \in Handles : handles'[k].queue = x} /\ A = {k \in Handles : handles[k].queue = x}
    BY DEF HandleRefs
  <1>2. /\ A \ {h} = B \ {h} /\ (h \in A <=> handles[h].queue = x)
        /\ (h \in B <=> handles'[h].queue = x)
    BY <1>1
  <1>3. IsFiniteSet(A)
    BY CountTypes
  <1> HIDE DEF A, B
  <1>4. /\ Cardinality(A) \in Nat /\ Cardinality(B) \in Nat
        /\ Cardinality(B) = Cardinality(A) + One(h \in B) - One(h \in A)
    BY <1>2, <1>3, SetUpdate
  <1>5. Cardinality(B) + One(handles[h].queue = x) = Cardinality(A) + One(handles'[h].queue = x)
    BY <1>2, <1>4 DEF One
  <1> QED BY <1>4, <1>5 DEF A, B

LEMMA EndAdded ==
  ASSUME LifetimeConstants, TypeInv, NEW q \in Queues, NEW y \in Types, <<q, y>> \notin ending,
         ending' = ending \cup {<<q, y>>}, NEW x \in Queues
  PROVE  /\ Cardinality(EndRefs(x)') \in Nat
         /\ Cardinality(EndRefs(x)') = Cardinality(EndRefs(x)) + One(q = x)
  <1> DEFINE A == EndRefs(x)
             B == EndRefs(x)'
             e == <<q, y>>
  <1>1. B = {c \in ending' : c[1] = x} /\ A = {c \in ending : c[1] = x} /\ e[1] = q
    BY DEF EndRefs
  <1> HIDE DEF e
  <1>2. A \ {e} = B \ {e} /\ e \notin A /\ (e \in B <=> q = x)
    BY <1>1 DEF e
  <1>3. IsFiniteSet(A)
    BY CountTypes
  <1> HIDE DEF A, B
  <1>4. /\ Cardinality(A) \in Nat /\ Cardinality(B) \in Nat
        /\ Cardinality(B) = Cardinality(A) + One(e \in B) - One(e \in A)
    BY <1>2, <1>3, SetUpdate
  <1>5. Cardinality(B) = Cardinality(A) + One(q = x)
    BY <1>2, <1>4 DEF One
  <1> QED BY <1>4, <1>5 DEF A, B

LEMMA EndingChange ==
  ASSUME LifetimeConstants, TypeInv, NEW t \in Threads,
         \A u \in Threads \ {t} : own'[u] = own[u] /\ pc'[u] = pc[u], NEW x \in Queues
  PROVE  /\ Cardinality(EndingRefs(x)') \in Nat
         /\ Cardinality(EndingRefs(x)') + One(pc[t] = "terminate" /\ own[t] = x)
               = Cardinality(EndingRefs(x)) + One(pc'[t] = "terminate" /\ own'[t] = x)
  <1> DEFINE A == EndingRefs(x)
             B == EndingRefs(x)'
             was == pc[t] = "terminate" /\ own[t] = x
             is == pc'[t] = "terminate" /\ own'[t] = x
  <1>1. /\ B = {u \in Threads : pc'[u] = "terminate" /\ own'[u] = x}
        /\ A = {u \in Threads : pc[u] = "terminate" /\ own[u] = x}
    BY DEF EndingRefs
  <1>2. A \ {t} = B \ {t} /\ (t \in A <=> was) /\ (t \in B <=> is)
    BY <1>1
  <1>3. IsFiniteSet(A)
    BY CountTypes
  <1> HIDE DEF A, B, was, is
  <1>4. /\ Cardinality(A) \in Nat /\ Cardinality(B) \in Nat
        /\ Cardinality(B) = Cardinality(A) + One(t \in B) - One(t \in A)
    BY <1>2, <1>3, SetUpdate
  <1>5. Cardinality(B) + One(was) = Cardinality(A) + One(is)
    BY <1>2, <1>4 DEF One
  <1> QED BY <1>4, <1>5 DEF A, B, was, is

LEMMA EntryChange ==
  ASSUME LifetimeConstants, TypeInv, NEW p \in Ports, entries'[p] \in Seq(Queues),
         \A o \in Ports \ {p} : entries'[o] = entries[o], NEW K
  PROVE  /\ Total(K, entries', Ports) \in Nat /\ Total(K, entries, Ports) \in Nat
         /\ Total(K, entries', Ports) + Weight(K, entries[p])
               = Total(K, entries, Ports) + Weight(K, entries'[p])
  <1>1. \A o \in Ports : entries[o] \in Seq(Queues) /\ entries'[o] \in Seq(Queues)
    BY DEF TypeInv, PortsOK
  <1>2. \A o \in Ports : /\ IsFiniteSet(Positions(K, entries[o]))
                         /\ IsFiniteSet(Positions(K, entries'[o]))
    BY <1>1, WeightType
  <1>3. IsFiniteSet(Ports)
    BY FinitePorts
  <1>4. Total(K, entries', Ports) \in Nat /\ Total(K, entries, Ports) \in Nat
    BY <1>2, <1>3, TotalType
  <1>5. Total(K, entries', Ports) + Weight(K, entries[p])
           = Total(K, entries, Ports) + Weight(K, entries'[p])
    BY <1>2, <1>3, TotalChange
  <1> QED BY <1>4, <1>5

LEMMA EntryAdded ==
  ASSUME LifetimeConstants, TypeInv, NEW p \in Ports, NEW q \in Queues,
         entries' = [entries EXCEPT ![p] = Append(@, q)], NEW x \in Queues
  PROVE  /\ Total({x}, entries', Ports) \in Nat
         /\ Total({x}, entries', Ports) = Total({x}, entries, Ports) + One(q = x)
  <1> DEFINE a == Total({x}, entries', Ports)
             b == Total({x}, entries, Ports)
             before == Weight({x}, entries[p])
             after == Weight({x}, entries'[p])
             new == One(q \in {x})
  <1>1. /\ \A o \in Ports : entries[o] \in Seq(Queues) /\ entries'[o] \in Seq(Queues)
        /\ entries'[p] = Append(entries[p], q) /\ \A o \in Ports \ {p} : entries'[o] = entries[o]
    BY DEF TypeInv, PortsOK
  <1>2. entries'[p] \in Seq(Queues)
    BY <1>1
  <1>3. \A o \in Ports \ {p} : entries'[o] = entries[o]
    BY <1>1
  <1>4. a + before = b + after
    BY <1>2, <1>3, EntryChange
  <1>5. a \in Nat /\ b \in Nat
    BY <1>2, <1>3, EntryChange
  <1>6. before \in Nat /\ after \in Nat
    BY <1>1, WeightType
  <1>7. after = before + new
    BY <1>1, WeightAppend
  <1>8. new = One(q = x) /\ new \in Nat
    BY DEF One
  <1> HIDE DEF a, b, before, after, new
  <1>9. a = b + new
    BY <1>4, <1>5, <1>6, <1>7, <1>8
  <1> QED BY <1>5, <1>8, <1>9 DEF a, b

LEMMA EntryTaken ==
  ASSUME LifetimeConstants, TypeInv, NEW p \in Ports, entries[p] # <<>>,
         entries' = [entries EXCEPT ![p] = Tail(@)], NEW x \in Queues
  PROVE  /\ Total({x}, entries', Ports) \in Nat
         /\ Total({x}, entries', Ports) + One(Head(entries[p]) = x) = Total({x}, entries, Ports)
  <1> DEFINE a == Total({x}, entries', Ports)
             b == Total({x}, entries, Ports)
             before == Weight({x}, entries[p])
             after == Weight({x}, entries'[p])
             old == One(Head(entries[p]) \in {x})
  <1>1. /\ \A o \in Ports : entries[o] \in Seq(Queues) /\ entries'[o] \in Seq(Queues)
        /\ entries'[p] = Tail(entries[p]) /\ \A o \in Ports \ {p} : entries'[o] = entries[o]
    BY DEF TypeInv, PortsOK
  <1>2. entries'[p] \in Seq(Queues)
    BY <1>1
  <1>3. \A o \in Ports \ {p} : entries'[o] = entries[o]
    BY <1>1
  <1>4. a + before = b + after
    BY <1>2, <1>3, EntryChange
  <1>5. a \in Nat /\ b \in Nat
    BY <1>2, <1>3, EntryChange
  <1>6. before \in Nat /\ after \in Nat
    BY <1>1, WeightType
  <1>7. before = after + old
    BY <1>1, WeightTail
  <1>8. old = One(Head(entries[p]) = x) /\ old \in Nat
    BY DEF One
  <1> HIDE DEF a, b, before, after, old
  <1>9. a + old = b
    BY <1>4, <1>5, <1>6, <1>7, <1>8
  <1> QED BY <1>5, <1>8, <1>9 DEF a, b

\* A queue whose termination is on its way has no other one.
LEMMA OneEnd ==
  ASSUME LifetimeConstants, TypeInv, CountsOK, NEW q \in Queues,
         \/ \E t \in Threads : pc[t] = "terminate" /\ own[t] = q
         \/ Total(EndItems(q), todo, Threads) > 0
  PROVE  \A e \in ending : e[1] # q
  <1> DEFINE a == Cardinality(EndingRefs(q))
             b == Cardinality(EndRefs(q))
             c == Total(EndItems(q), todo, Threads)
  <1>1. a \in Nat /\ b \in Nat /\ c \in Nat /\ IsFiniteSet(EndingRefs(q)) /\ IsFiniteSet(EndRefs(q))
    BY CountTypes DEF Number
  <1>2. a + b + c <= 1
    <2>1. One(q \in ended) \in {0, 1} /\ EndCount(q)
      BY OneType DEF CountsOK
    <2> QED BY <1>1, <2>1 DEF EndCount, Number
  <1>3. (\E t \in Threads : pc[t] = "terminate" /\ own[t] = q) => a # 0
    <2>1. (\E t \in Threads : pc[t] = "terminate" /\ own[t] = q) => EndingRefs(q) # {}
      BY DEF EndingRefs
    <2> QED BY <1>1, <2>1, FS_EmptySet
  <1>4. b = 0
    BY <1>1, <1>2, <1>3
  <1>5. EndRefs(q) = {}
    BY <1>1, <1>4, FS_EmptySet
  <1> QED BY <1>5 DEF EndRefs

-----------------------------------------------------------------------------
(* References that are given up *)

\* Complete: no count is another.
LEMMA CompleteKeeps ==
  ASSUME LifetimeConstants, LifeInv, NEW t \in Threads, Complete(t)
  PROVE  LifeInv'
  <1> DEFINE p == Head(todo[t]).of
  <1>1. TypeInv /\ CountsOK /\ OrderOK /\ LinksOK
    BY DEF LifeInv
  <1>2. UNCHANGED <<queueVars, portVars, handles, ending, ended, process, default, pc, own>>
    BY DEF Complete
  <1>3. /\ todo \in [Threads -> Seq(Things)] /\ todo[t] # <<>> /\ Head(todo[t]) = Item("complete", p)
        /\ todo' = [todo EXCEPT ![t] = Tail(@)]
    BY <1>1, NextStep DEF Complete
  <1> HIDE DEF p
  <1>4. /\ todo' \in [Threads -> Seq(Things)] /\ todo'[t] = Tail(todo[t])
        /\ \A u \in Threads \ {t} : todo'[u] = todo[u]
    BY <1>3
  <1>5. Ordered(todo'[t])
    BY <1>1, <1>3, <1>4, OrderedTail DEF OrderOK
  <1>6. \A K : /\ Total(K, todo', Threads) + One(Item("complete", p) \in K) = Total(K, todo, Threads)
               /\ Total(K, todo', Threads) \in Nat /\ Total(K, todo, Threads) \in Nat
    <2>1. \A K : Total(K, todo', Threads) + One(Item("complete", p) \in K) = Total(K, todo, Threads)
      BY <1>3, <1>4, Dropped
    <2>2. \A K : Total(K, todo', Threads) \in Nat /\ Total(K, todo, Threads) \in Nat
      BY <1>3, <1>4, TodoType
    <2> QED BY <2>1, <2>2
  <1>7. TypeInv'
    BY <1>1, <1>2, <1>4
       DEF TypeInv, QueuesOK, PortsOK, OthersOK, ThreadsOK, queueVars, portVars
  <1>8. ASSUME NEW x \in Queues
        PROVE  /\ Total(QueueItems(x), todo', Threads) = Total(QueueItems(x), todo, Threads)
               /\ Total(EndItems(x), todo', Threads) = Total(EndItems(x), todo, Threads)
               /\ Total({Item("delete", x)}, todo', Threads) = Total({Item("delete", x)}, todo, Threads)
    <2>1. /\ One(Item("complete", p) \in QueueItems(x)) = 0
          /\ One(Item("complete", p) \in EndItems(x)) = 0
          /\ One(Item("complete", p) \in {Item("delete", x)}) = 0
      BY PlainStep DEF One
    <2> QED BY <1>6, <2>1
  <1>9. ASSUME NEW x \in Ports
        PROVE  /\ Total({Item("port", x)}, todo', Threads) = Total({Item("port", x)}, todo, Threads)
               /\ Total({Item("erase", x)}, todo', Threads) = Total({Item("erase", x)}, todo, Threads)
               /\ Total({Item("pool", x)}, todo', Threads) = Total({Item("pool", x)}, todo, Threads)
    <2>1. /\ One(Item("complete", p) \in {Item("port", x)}) = 0
          /\ One(Item("complete", p) \in {Item("erase", x)}) = 0
          /\ One(Item("complete", p) \in {Item("pool", x)}) = 0
      BY PlainStep DEF One
    <2> QED BY <1>6, <2>1
  <1>10. CountsOK'
    BY <1>1, <1>2, <1>8, <1>9, QueuesKept, EndsKept, PortsKept, PoolsKept
       DEF CountsOK, queueVars, portVars
  <1>11. OrderOK' /\ LinksOK'
    BY <1>1, <1>2, <1>4, <1>5, StillOrdered, LinksKept DEF queueVars, portVars
  <1> QED BY <1>7, <1>10, <1>11 DEF LifeInv

\* The reference to the pool object and the step that gives it up are gone.
LEMMA ReleasePoolKeeps ==
  ASSUME LifetimeConstants, LifeInv, NEW t \in Threads, ReleasePool(t)
  PROVE  LifeInv'
  <1> DEFINE p == Head(todo[t]).of
  <1>1. TypeInv /\ CountsOK /\ OrderOK /\ LinksOK
    BY DEF LifeInv
  <1>2. /\ UNCHANGED <<queueVars, portRefs, portLife, entries, submitted, items, handles, ending,
                       ended, process, default, pc, own>>
        /\ poolRefs' = [poolRefs EXCEPT ![p] = @ - 1]
    BY DEF ReleasePool
  <1>3. /\ todo \in [Threads -> Seq(Things)] /\ todo[t] # <<>> /\ Head(todo[t]) = Item("pool", p)
        /\ todo' = [todo EXCEPT ![t] = Tail(@)] /\ p \in Ports
    BY <1>1, NextStep DEF ReleasePool
  <1> HIDE DEF p
  <1>4. /\ todo' \in [Threads -> Seq(Things)] /\ todo'[t] = Tail(todo[t])
        /\ \A u \in Threads \ {t} : todo'[u] = todo[u]
    BY <1>3
  <1>5. Ordered(todo'[t])
    BY <1>1, <1>3, <1>4, OrderedTail DEF OrderOK
  <1>6. \A K : /\ Total(K, todo', Threads) + One(Item("pool", p) \in K) = Total(K, todo, Threads)
               /\ Total(K, todo', Threads) \in Nat /\ Total(K, todo, Threads) \in Nat
    <2>1. \A K : Total(K, todo', Threads) + One(Item("pool", p) \in K) = Total(K, todo, Threads)
      BY <1>3, <1>4, Dropped
    <2>2. \A K : Total(K, todo', Threads) \in Nat /\ Total(K, todo, Threads) \in Nat
      BY <1>3, <1>4, TodoType
    <2> QED BY <2>1, <2>2
  <1>7. TypeInv'
    BY <1>1, <1>2, <1>3, <1>4
       DEF TypeInv, QueuesOK, PortsOK, OthersOK, ThreadsOK, queueVars
  <1>8. ASSUME NEW x \in Queues
        PROVE  /\ Total(QueueItems(x), todo', Threads) = Total(QueueItems(x), todo, Threads)
               /\ Total(EndItems(x), todo', Threads) = Total(EndItems(x), todo, Threads)
               /\ Total({Item("delete", x)}, todo', Threads)
                     = Total({Item("delete", x)}, todo, Threads)
    <2>1. /\ One(Item("pool", p) \in QueueItems(x)) = 0
          /\ One(Item("pool", p) \in EndItems(x)) = 0
          /\ One(Item("pool", p) \in {Item("delete", x)}) = 0
      BY PlainStep DEF One
    <2> QED BY <1>6, <2>1, OneType
  <1>9. ASSUME NEW x \in Ports
        PROVE  /\ Total({Item("port", x)}, todo', Threads) = Total({Item("port", x)}, todo, Threads)
               /\ Total({Item("erase", x)}, todo', Threads)
                     = Total({Item("erase", x)}, todo, Threads)
               /\ Total({Item("pool", x)}, todo', Threads) + One(p = x)
                     = Total({Item("pool", x)}, todo, Threads)
    <2>1. /\ One(Item("pool", p) \in {Item("port", x)}) = 0
          /\ One(Item("pool", p) \in {Item("erase", x)}) = 0
          /\ One(Item("pool", p) \in {Item("pool", x)}) = One(p = x)
      BY PlainStep DEF One
    <2> QED BY <1>6, <2>1, OneType
  <1>10. ASSUME NEW x \in Ports
         PROVE  PoolCount(x)'
    <2>1. /\ poolRefs[x] \in Int /\ One(portLife[x] = "live") \in {0, 1}
          /\ poolRefs[x] = One(portLife[x] = "live") + Total({Item("pool", x)}, todo, Threads)
          /\ portLife[x] = "none" => poolRefs[x] = 0
      BY <1>1, PoolFacts
    <2>2. poolRefs'[x] = poolRefs[x] - One(p = x) /\ portLife'[x] = portLife[x]
      BY <1>1, <1>2, <1>3, <2>1 DEF TypeInv, PortsOK, One
    <2>3. /\ Total({Item("pool", x)}, todo', Threads) + One(p = x) = Total({Item("pool", x)}, todo, Threads)
          /\ One(p = x) \in {0, 1} /\ Total({Item("pool", x)}, todo', Threads) \in Nat
      BY <1>6, <1>9, OneType
    <2>4. poolRefs'[x] = One(portLife[x] = "live") + Total({Item("pool", x)}, todo', Threads)
      BY <1>6, <2>1, <2>2, <2>3
    <2>5. portLife[x] = "none" => poolRefs'[x] = 0
      <3>1. portLife[x] = "none" => One(portLife[x] = "live") = 0
        BY DEF One
      <3> QED BY <2>1, <2>2, <2>3, <2>4, <3>1
    <2> QED BY <2>2, <2>4, <2>5 DEF PoolCount, Number
  <1>11. CountsOK'
    BY <1>1, <1>2, <1>8, <1>9, <1>10, QueuesKept, EndsKept, PortsKept DEF CountsOK, queueVars
  <1>12. OrderOK' /\ LinksOK'
    BY <1>1, <1>2, <1>4, <1>5, StillOrdered, LinksKept DEF queueVars
  <1> QED BY <1>7, <1>11, <1>12 DEF LifeInv

\* The reference and the step are gone; the last one leaves the step that deletes.
LEMMA ReleaseQueueKeeps ==
  ASSUME LifetimeConstants, LifeInv, NEW t \in Threads, ReleaseQueue(t)
  PROVE  LifeInv'
  <1> DEFINE q == Head(todo[t]).of
             last == queueRefs[q] = 1
             steps == IF last THEN Do("delete", q) ELSE <<>>
  <1>1. TypeInv /\ CountsOK /\ OrderOK /\ LinksOK
    BY DEF LifeInv
  <1>2. /\ UNCHANGED <<queueLife, ports, sources, attached, portVars, handles, ending, ended,
                       process, default, pc, own>>
        /\ queueRefs' = [queueRefs EXCEPT ![q] = @ - 1]
    BY DEF ReleaseQueue
  <1>3. /\ todo \in [Threads -> Seq(Things)] /\ todo[t] # <<>> /\ Head(todo[t]) = Item("queue", q)
        /\ todo' = [todo EXCEPT ![t] = steps \o Tail(@)] /\ q \in Queues
        /\ 1 \in DOMAIN todo[t] /\ todo[t][1] = Item("queue", q)
    BY <1>1, NextStep DEF ReleaseQueue
  <1>4. /\ steps \in Seq(Things) /\ Ordered(steps)
        /\ \A K : Weight(K, steps) = (IF last THEN One(Item("delete", q) \in K) ELSE 0)
    <2>1. Item("delete", q) \in Things
      BY <1>3 DEF Item, Things
    <2> QED BY <2>1, DoWeights, NoWeight
  <1> HIDE DEF q, last, steps
  <1>5. /\ todo' \in [Threads -> Seq(Things)] /\ todo'[t] = steps \o Tail(todo[t])
        /\ \A u \in Threads \ {t} : todo'[u] = todo[u]
    BY <1>3, <1>4, ConcatProperties
  <1>6. Ordered(todo'[t])
    <2>1. Tail(todo[t]) \in Seq(Things) /\ Ordered(Tail(todo[t]))
      BY <1>1, <1>3, OrderedTail DEF OrderOK
    <2> QED BY <1>4, <1>5, <2>1, OrderedConcat
  <1>7. \A K : /\ Total(K, todo', Threads) + One(Item("queue", q) \in K)
                     = Total(K, todo, Threads) + (IF last THEN One(Item("delete", q) \in K) ELSE 0)
               /\ Total(K, todo', Threads) \in Nat /\ Total(K, todo, Threads) \in Nat
    <2>1. ASSUME NEW K
          PROVE  Total(K, todo', Threads) + One(Item("queue", q) \in K)
                    = Total(K, todo, Threads) + Weight(K, steps)
      BY <1>3, <1>4, <1>5, Popped
    <2>2. \A K : Total(K, todo', Threads) \in Nat /\ Total(K, todo, Threads) \in Nat
      BY <1>3, <1>5, TodoType
    <2> QED BY <1>4, <2>1, <2>2
  <1>8. TypeInv'
    BY <1>1, <1>2, <1>3, <1>5
       DEF TypeInv, QueuesOK, PortsOK, OthersOK, ThreadsOK, portVars
  <1>9. ASSUME NEW x \in Queues
        PROVE  /\ Total(QueueItems(x), todo', Threads) + One(q = x)
                     = Total(QueueItems(x), todo, Threads)
               /\ Total(EndItems(x), todo', Threads) = Total(EndItems(x), todo, Threads)
               /\ Total({Item("delete", x)}, todo', Threads)
                     = Total({Item("delete", x)}, todo, Threads) + (IF last THEN One(q = x) ELSE 0)
    <2>1. /\ One(Item("queue", q) \in QueueItems(x)) = One(q = x)
          /\ One(Item("delete", q) \in QueueItems(x)) = 0
          /\ One(Item("queue", q) \in EndItems(x)) = 0
          /\ One(Item("delete", q) \in EndItems(x)) = 0
          /\ One(Item("queue", q) \in {Item("delete", x)}) = 0
          /\ One(Item("delete", q) \in {Item("delete", x)}) = One(q = x)
      BY QueueStep, PlainStep DEF One
    <2> QED BY <1>7, <2>1, OneType
  <1>10. ASSUME NEW x \in Ports
        PROVE  /\ Total({Item("port", x)}, todo', Threads) = Total({Item("port", x)}, todo, Threads)
               /\ Total({Item("erase", x)}, todo', Threads)
                     = Total({Item("erase", x)}, todo, Threads)
               /\ Total({Item("pool", x)}, todo', Threads) = Total({Item("pool", x)}, todo, Threads)
    <2>1. /\ One(Item("queue", q) \in {Item("port", x)}) = 0
          /\ One(Item("delete", q) \in {Item("port", x)}) = 0
          /\ One(Item("queue", q) \in {Item("erase", x)}) = 0
          /\ One(Item("delete", q) \in {Item("erase", x)}) = 0
          /\ One(Item("queue", q) \in {Item("pool", x)}) = 0
          /\ One(Item("delete", q) \in {Item("pool", x)}) = 0
      BY QueueStep, PlainStep DEF One
    <2> QED BY <1>7, <2>1, OneType
  <1>11. queueRefs[q] > 0 /\ queueLife[q] = "live" /\ Total({Item("delete", q)}, todo, Threads) = 0
    <2>1. Item("queue", q) \in QueueItems(q)
      BY DEF QueueItems
    <2>2. /\ queueRefs[q] > 0 /\ queueLife[q] = "live" /\ Number({Item("delete", q)}) = 0
      BY <1>1, <1>3, <2>1, Held
    <2> QED BY <2>2 DEF Number
  <1>12. ASSUME NEW x \in Queues
         PROVE  QueueCount(x)'
    <2>1. Direct(x)' = Direct(x)
      BY <1>2 DEF Direct, HandleRefs, OwnRefs, SourceRefs, EndRefs, portVars
    <2>2. queueLife'[x] = queueLife[x] /\ queueRefs'[x] = IF q = x THEN queueRefs[x] - 1 ELSE queueRefs[x]
      BY <1>1, <1>2, <1>3 DEF TypeInv, QueuesOK
    <2> DEFINE d == Direct(x)
               n == Total(QueueItems(x), todo, Threads)
               m == Total(QueueItems(x), todo', Threads)
               e == Total({Item("delete", x)}, todo, Threads)
               f == Total({Item("delete", x)}, todo', Threads)
               r == queueRefs[x]
               s == queueRefs'[x]
    <2>3. /\ d \in Nat /\ n \in Nat /\ m \in Nat /\ e \in Nat /\ f \in Nat /\ r \in Int
          /\ r = d + n /\ (r > 0 => queueLife[x] = "live")
          /\ e > 0 => queueLife[x] = "live" /\ r = 0
          /\ e <= 1
      BY <1>1, <1>7, QueueFacts
    <2>4. m + (IF q = x THEN 1 ELSE 0) = n /\ f = e + (IF last THEN IF q = x THEN 1 ELSE 0 ELSE 0)
      BY <1>9 DEF One
    <2>5. q = x => r > 0 /\ queueLife[x] = "live" /\ e = 0
      BY <1>11
    <2>6. last <=> queueRefs[q] = 1
      BY DEF last
    <2>7. s = (IF q = x THEN r - 1 ELSE r) /\ (q = x => (last <=> r = 1))
      BY <2>2, <2>6
    <2> HIDE DEF d, n, m, e, f, r, s
    <2>8. /\ s = d + m /\ (s > 0 => queueLife[x] = "live")
          /\ f > 0 => queueLife[x] = "live" /\ s = 0
          /\ f <= 1
      BY <2>3, <2>4, <2>5, <2>7
    <2> QED BY <2>1, <2>2, <2>8 DEF QueueCount, Holders, Number, d, m, f, s
  <1>13. CountsOK'
    BY <1>1, <1>2, <1>9, <1>10, <1>12, EndsKept, PortsKept, PoolsKept DEF CountsOK, portVars
  <1>14. OrderOK' /\ LinksOK'
    BY <1>1, <1>2, <1>5, <1>6, StillOrdered, LinksKept DEF portVars
  <1> QED BY <1>8, <1>13, <1>14 DEF LifeInv

\* As for a queue
LEMMA ReleasePortKeeps ==
  ASSUME LifetimeConstants, LifeInv, NEW t \in Threads, ReleasePort(t)
  PROVE  LifeInv'
  <1> DEFINE p == Head(todo[t]).of
             last == portRefs[p] = 1
             steps == IF last THEN Do("erase", p) ELSE <<>>
  <1>1. TypeInv /\ CountsOK /\ OrderOK /\ LinksOK
    BY DEF LifeInv
  <1>2. /\ UNCHANGED <<queueVars, portLife, entries, submitted, poolRefs, items, handles, ending,
                       ended, process, default, pc, own>>
        /\ portRefs' = [portRefs EXCEPT ![p] = @ - 1]
    BY DEF ReleasePort
  <1>3. /\ todo \in [Threads -> Seq(Things)] /\ todo[t] # <<>> /\ Head(todo[t]) = Item("port", p)
        /\ todo' = [todo EXCEPT ![t] = steps \o Tail(@)] /\ p \in Ports
        /\ 1 \in DOMAIN todo[t] /\ todo[t][1] = Item("port", p)
    BY <1>1, NextStep DEF ReleasePort
  <1>4. /\ steps \in Seq(Things) /\ Ordered(steps)
        /\ \A K : Weight(K, steps) = (IF last THEN One(Item("erase", p) \in K) ELSE 0)
    <2>1. Item("erase", p) \in Things
      BY <1>3 DEF Item, Things
    <2> QED BY <2>1, DoWeights, NoWeight
  <1> HIDE DEF p, last, steps
  <1>5. /\ todo' \in [Threads -> Seq(Things)] /\ todo'[t] = steps \o Tail(todo[t])
        /\ \A u \in Threads \ {t} : todo'[u] = todo[u]
    BY <1>3, <1>4, ConcatProperties
  <1>6. Ordered(todo'[t])
    <2>1. Tail(todo[t]) \in Seq(Things) /\ Ordered(Tail(todo[t]))
      BY <1>1, <1>3, OrderedTail DEF OrderOK
    <2> QED BY <1>4, <1>5, <2>1, OrderedConcat
  <1>7. \A K : /\ Total(K, todo', Threads) + One(Item("port", p) \in K)
                     = Total(K, todo, Threads) + (IF last THEN One(Item("erase", p) \in K) ELSE 0)
               /\ Total(K, todo', Threads) \in Nat /\ Total(K, todo, Threads) \in Nat
    <2>1. ASSUME NEW K
          PROVE  Total(K, todo', Threads) + One(Item("port", p) \in K)
                    = Total(K, todo, Threads) + Weight(K, steps)
      BY <1>3, <1>4, <1>5, Popped
    <2>2. \A K : Total(K, todo', Threads) \in Nat /\ Total(K, todo, Threads) \in Nat
      BY <1>3, <1>5, TodoType
    <2> QED BY <1>4, <2>1, <2>2
  <1>8. TypeInv'
    BY <1>1, <1>2, <1>3, <1>5
       DEF TypeInv, QueuesOK, PortsOK, OthersOK, ThreadsOK, queueVars
  <1>9. ASSUME NEW x \in Queues
        PROVE  /\ Total(QueueItems(x), todo', Threads) = Total(QueueItems(x), todo, Threads)
               /\ Total(EndItems(x), todo', Threads) = Total(EndItems(x), todo, Threads)
               /\ Total({Item("delete", x)}, todo', Threads)
                     = Total({Item("delete", x)}, todo, Threads)
    <2>1. /\ One(Item("port", p) \in QueueItems(x)) = 0
          /\ One(Item("erase", p) \in QueueItems(x)) = 0
          /\ One(Item("port", p) \in EndItems(x)) = 0
          /\ One(Item("erase", p) \in EndItems(x)) = 0
          /\ One(Item("port", p) \in {Item("delete", x)}) = 0
          /\ One(Item("erase", p) \in {Item("delete", x)}) = 0
      BY PlainStep DEF One
    <2> QED BY <1>7, <2>1, OneType
  <1>10. ASSUME NEW x \in Ports
        PROVE  /\ Total({Item("port", x)}, todo', Threads) + One(p = x)
                     = Total({Item("port", x)}, todo, Threads)
               /\ Total({Item("erase", x)}, todo', Threads)
                     = Total({Item("erase", x)}, todo, Threads) + (IF last THEN One(p = x) ELSE 0)
               /\ Total({Item("pool", x)}, todo', Threads) = Total({Item("pool", x)}, todo, Threads)
    <2>1. /\ One(Item("port", p) \in {Item("port", x)}) = One(p = x)
          /\ One(Item("erase", p) \in {Item("port", x)}) = 0
          /\ One(Item("port", p) \in {Item("erase", x)}) = 0
          /\ One(Item("erase", p) \in {Item("erase", x)}) = One(p = x)
          /\ One(Item("port", p) \in {Item("pool", x)}) = 0
          /\ One(Item("erase", p) \in {Item("pool", x)}) = 0
      BY PlainStep DEF One
    <2> QED BY <1>7, <2>1, OneType
  <1>11. portRefs[p] > 0 /\ portLife[p] = "live" /\ Total({Item("erase", p)}, todo, Threads) = 0
    BY <1>1, <1>3, PortHeld DEF Number
  <1>12. ASSUME NEW x \in Ports
         PROVE  PortCount(x)'
    <2> DEFINE d == Cardinality(ContextRefs(x))
               c == Cardinality(ContextRefs(x)')
               u == submitted[x]
               v == submitted'[x]
               n == Total({Item("port", x)}, todo, Threads)
               m == Total({Item("port", x)}, todo', Threads)
               e == Total({Item("erase", x)}, todo, Threads)
               f == Total({Item("erase", x)}, todo', Threads)
               r == portRefs[x]
               s == portRefs'[x]
    <2>1. c = d /\ v = u
      BY <1>2 DEF ContextRefs, queueVars
    <2>2. s = (IF p = x THEN r - 1 ELSE r) /\ (p = x => (last <=> r = 1))
      BY <1>1, <1>2, <1>3 DEF TypeInv, PortsOK, last
    <2>3. /\ d \in Nat /\ u \in Nat /\ n \in Nat /\ m \in Nat /\ e \in Nat /\ f \in Nat /\ r \in Int
          /\ r = d + u + n /\ (r > 0 => portLife[x] = "live")
          /\ e > 0 => portLife[x] = "live" /\ r = 0
          /\ e <= 1
      BY <1>1, <1>7, PortFacts
    <2>4. m + (IF p = x THEN 1 ELSE 0) = n /\ f = e + (IF last THEN IF p = x THEN 1 ELSE 0 ELSE 0)
      BY <1>10 DEF One
    <2>5. p = x => r > 0 /\ portLife[x] = "live" /\ e = 0
      BY <1>11
    <2>6. portLife'[x] = portLife[x]
      BY <1>2
    <2> HIDE DEF d, c, u, v, n, m, e, f, r, s
    <2>7. /\ s = c + v + m /\ (s > 0 => portLife'[x] = "live")
          /\ f > 0 => portLife'[x] = "live" /\ s = 0
          /\ f <= 1
      BY <2>1, <2>2, <2>3, <2>4, <2>5, <2>6
    <2> QED BY <2>7 DEF PortCount, Users, Number, c, v, m, f, s
  <1>13. CountsOK'
    BY <1>1, <1>2, <1>9, <1>10, <1>12, QueuesKept, EndsKept, PoolsKept DEF CountsOK, queueVars
  <1>14. OrderOK' /\ LinksOK'
    BY <1>1, <1>2, <1>5, <1>6, StillOrdered, LinksKept DEF queueVars
  <1> QED BY <1>8, <1>13, <1>14 DEF LifeInv

\* No context, submission or step holds the port; its reference to the pool object goes.
LEMMA DeletePortKeeps ==
  ASSUME LifetimeConstants, LifeInv, NEW t \in Threads, DeletePort(t)
  PROVE  LifeInv'
  <1> DEFINE p == Head(todo[t]).of
  <1>1. TypeInv /\ CountsOK /\ OrderOK /\ LinksOK
    BY DEF LifeInv
  <1>2. /\ UNCHANGED <<queueVars, portRefs, entries, submitted, items, handles, ending, ended,
                       process, default, pc, own>>
        /\ poolRefs' = [poolRefs EXCEPT ![p] = @ - 1]
        /\ portLife' = [portLife EXCEPT ![p] = "deleted"]
    BY DEF DeletePort
  <1>3. /\ todo \in [Threads -> Seq(Things)] /\ todo[t] # <<>> /\ Head(todo[t]) = Item("erase", p)
        /\ todo' = [todo EXCEPT ![t] = Tail(@)] /\ p \in Ports
        /\ 1 \in DOMAIN todo[t] /\ todo[t][1] = Item("erase", p)
    BY <1>1, NextStep DEF DeletePort
  <1> HIDE DEF p
  <1>4. /\ todo' \in [Threads -> Seq(Things)] /\ todo'[t] = Tail(todo[t])
        /\ \A u \in Threads \ {t} : todo'[u] = todo[u]
    BY <1>3
  <1>5. Ordered(todo'[t])
    BY <1>1, <1>3, <1>4, OrderedTail DEF OrderOK
  <1>6. \A K : /\ Total(K, todo', Threads) + One(Item("erase", p) \in K) = Total(K, todo, Threads)
               /\ Total(K, todo', Threads) \in Nat /\ Total(K, todo, Threads) \in Nat
    <2>1. \A K : Total(K, todo', Threads) + One(Item("erase", p) \in K) = Total(K, todo, Threads)
      BY <1>3, <1>4, Dropped
    <2>2. \A K : Total(K, todo', Threads) \in Nat /\ Total(K, todo, Threads) \in Nat
      BY <1>3, <1>4, TodoType
    <2> QED BY <2>1, <2>2
  <1>7. TypeInv'
    BY <1>1, <1>2, <1>3, <1>4
       DEF TypeInv, QueuesOK, PortsOK, OthersOK, ThreadsOK, queueVars
  <1>8. ASSUME NEW x \in Queues
        PROVE  /\ Total(QueueItems(x), todo', Threads) = Total(QueueItems(x), todo, Threads)
               /\ Total(EndItems(x), todo', Threads) = Total(EndItems(x), todo, Threads)
               /\ Total({Item("delete", x)}, todo', Threads)
                     = Total({Item("delete", x)}, todo, Threads)
    <2>1. /\ One(Item("erase", p) \in QueueItems(x)) = 0
          /\ One(Item("erase", p) \in EndItems(x)) = 0
          /\ One(Item("erase", p) \in {Item("delete", x)}) = 0
      BY PlainStep DEF One
    <2> QED BY <1>6, <2>1, OneType
  <1>9. ASSUME NEW x \in Ports
        PROVE  /\ Total({Item("port", x)}, todo', Threads) = Total({Item("port", x)}, todo, Threads)
               /\ Total({Item("erase", x)}, todo', Threads) + One(p = x)
                     = Total({Item("erase", x)}, todo, Threads)
               /\ Total({Item("pool", x)}, todo', Threads) = Total({Item("pool", x)}, todo, Threads)
    <2>1. /\ One(Item("erase", p) \in {Item("port", x)}) = 0
          /\ One(Item("erase", p) \in {Item("erase", x)}) = One(p = x)
          /\ One(Item("erase", p) \in {Item("pool", x)}) = 0
      BY PlainStep DEF One
    <2> QED BY <1>6, <2>1, OneType
  <1>10. portRefs[p] = 0 /\ portLife[p] = "live"
    <2>1. Total({Item("erase", p)}, todo, Threads) > 0
      BY <1>1, <1>3, StepSeen DEF Number
    <2> QED BY <1>1, <1>3, <2>1, PortFacts
  <1>11. ASSUME NEW x \in Ports
         PROVE  PortCount(x)'
    <2> DEFINE d == Cardinality(ContextRefs(x))
               c == Cardinality(ContextRefs(x)')
               u == submitted[x]
               v == submitted'[x]
               n == Total({Item("port", x)}, todo, Threads)
               m == Total({Item("port", x)}, todo', Threads)
               e == Total({Item("erase", x)}, todo, Threads)
               f == Total({Item("erase", x)}, todo', Threads)
               r == portRefs[x]
               s == portRefs'[x]
    <2>1. c = d /\ v = u
      BY <1>2 DEF ContextRefs, queueVars
    <2>2. s = r
      BY <1>2
    <2>3. /\ d \in Nat /\ u \in Nat /\ n \in Nat /\ m \in Nat /\ e \in Nat /\ f \in Nat /\ r \in Int
          /\ r = d + u + n /\ (r > 0 => portLife[x] = "live")
          /\ e > 0 => portLife[x] = "live" /\ r = 0
          /\ e <= 1
      BY <1>1, <1>6, PortFacts
    <2>4. m = n /\ f + (IF p = x THEN 1 ELSE 0) = e
      BY <1>9 DEF One
    <2>5. p = x => r = 0
      BY <1>10
    <2>6. p # x => portLife'[x] = portLife[x]
      BY <1>1, <1>2, <1>3 DEF TypeInv, PortsOK
    <2> HIDE DEF d, c, u, v, n, m, e, f, r, s
    <2>7. /\ s = c + v + m /\ (s > 0 => portLife'[x] = "live")
          /\ f > 0 => portLife'[x] = "live" /\ s = 0
          /\ f <= 1
      BY <2>1, <2>2, <2>3, <2>4, <2>5, <2>6
    <2> QED BY <2>7 DEF PortCount, Users, Number, c, v, m, f, s
  <1>12. ASSUME NEW x \in Ports
         PROVE  PoolCount(x)'
    <2>1. /\ poolRefs[x] \in Int /\ One(portLife[x] = "live") \in {0, 1}
          /\ poolRefs[x] = One(portLife[x] = "live") + Total({Item("pool", x)}, todo, Threads)
          /\ portLife[x] = "none" => poolRefs[x] = 0
      BY <1>1, PoolFacts
    <2>2. /\ poolRefs'[x] = IF p = x THEN poolRefs[x] - 1 ELSE poolRefs[x]
          /\ portLife'[x] = IF p = x THEN "deleted" ELSE portLife[x]
      BY <1>1, <1>2, <1>3 DEF TypeInv, PortsOK
    <2>3. /\ Total({Item("pool", x)}, todo', Threads) = Total({Item("pool", x)}, todo, Threads)
          /\ Total({Item("pool", x)}, todo, Threads) \in Nat
      BY <1>6, <1>9
    <2>4. CASE p = x
      <3>1. One(portLife[x] = "live") = 1 /\ One(portLife'[x] = "live") = 0
        BY <1>10, <2>2, <2>4 DEF One
      <3>2. poolRefs'[x] = One(portLife'[x] = "live") + Total({Item("pool", x)}, todo', Threads)
        BY <2>1, <2>2, <2>3, <2>4, <3>1
      <3> QED BY <2>2, <2>4, <3>2 DEF PoolCount, Number
    <2>5. CASE p # x
      BY <2>1, <2>2, <2>3, <2>5 DEF PoolCount, Number
    <2> QED BY <2>4, <2>5
  <1>13. CountsOK'
    BY <1>1, <1>2, <1>8, <1>11, <1>12, QueuesKept, EndsKept DEF CountsOK, queueVars
  <1>14. OrderOK'
    BY <1>1, <1>4, <1>5, StillOrdered
  <1>15. LinksOK'
    <2>1. ASSUME NEW q \in Queues, queueLife[q] = "none", NEW y \in Types
          PROVE  portLife'[<<q, y>>] = "none"
      <3>1. portLife[<<q, y>>] = "none" /\ <<q, y>> \in Ports
        BY <1>1, <2>1 DEF LinksOK, Ports
      <3>2. <<q, y>> # p
        BY <1>10, <3>1
      <3> QED BY <1>1, <1>2, <1>3, <3>1, <3>2 DEF TypeInv, PortsOK
    <2> QED BY <1>1, <1>2, <2>1 DEF LinksOK, queueVars
  <1> QED BY <1>7, <1>13, <1>14, <1>15 DEF LifeInv

\* The references that its contexts held to ports and to other queues become steps.
LEMMA DeleteQueueKeeps ==
  ASSUME LifetimeConstants, LifeInv, NEW t \in Threads, DeleteQueue(t)
  PROVE  LifeInv'
  <1> DEFINE q == Head(todo[t]).of
             sc == sources[q]["Completion"]
             sw == sources[q]["Work"]
             pc1 == ports[q]["Completion"]
             pw == ports[q]["Work"]
             steps == Parts(q)
  <1>1. TypeInv /\ CountsOK /\ OrderOK /\ LinksOK
    BY DEF LifeInv
  <1>2. /\ UNCHANGED <<queueRefs, ports, sources, portVars, handles, ending, ended,
                       process, default, pc, own>>
        /\ attached' = [p \in Ports |-> attached[p] \ ({q} \X Types)]
        /\ queueLife' = [queueLife EXCEPT ![q] = "deleted"]
    BY DEF DeleteQueue
  <1>3. /\ todo \in [Threads -> Seq(Things)] /\ todo[t] # <<>> /\ Head(todo[t]) = Item("delete", q)
        /\ todo' = [todo EXCEPT ![t] = steps \o Tail(@)] /\ q \in Queues
        /\ 1 \in DOMAIN todo[t] /\ todo[t][1] = Item("delete", q)
    BY <1>1, NextStep DEF DeleteQueue
  <1>4. queueRefs[q] = 0 /\ queueLife[q] = "live"
    <2>1. Total({Item("delete", q)}, todo, Threads) > 0
      BY <1>1, <1>3, StepSeen DEF Number
    <2> QED BY <1>1, <1>3, <2>1, QueueFacts
  <1>5. /\ sc \in Queues \cup {None} /\ sw \in Queues \cup {None}
        /\ pc1 \in Ports /\ pw \in Ports
    <2>1. \A y \in Types : sources[q][y] \in Queues \cup {None} /\ ports[q][y] \in Ports
      BY <1>1, <1>3, <1>4 DEF TypeInv, QueuesOK, LinksOK
    <2> QED BY <2>1 DEF Types
  <1>6. /\ steps \in Seq(Things) /\ Ordered(steps)
        /\ \A K : Weight(K, steps) = (IF sc # None THEN One(Item("queue", sc) \in K) ELSE 0)
                                   + One(Item("port", pc1) \in K)
                                   + (IF sw # None THEN One(Item("queue", sw) \in K) ELSE 0)
                                   + One(Item("port", pw) \in K)
    <2> DEFINE given(s) == IF s = None THEN <<>> ELSE Do("queue", s)
               part(s, p) == given(s) \o Do("port", p)
    <2>1. ASSUME NEW s \in Queues \cup {None}, NEW p \in Ports
          PROVE  /\ part(s, p) \in Seq(Things) /\ Ordered(part(s, p))
                 /\ \A K : Weight(K, part(s, p)) = (IF s # None THEN One(Item("queue", s) \in K) ELSE 0)
                                                      + One(Item("port", p) \in K)
      <3>1. /\ Do("port", p) \in Seq(Things) /\ Ordered(Do("port", p))
            /\ \A K : Weight(K, Do("port", p)) = One(Item("port", p) \in K)
        <4>1. Item("port", p) \in Things
          BY DEF Item, Things
        <4> QED BY <4>1, DoWeights
      <3>2. /\ given(s) \in Seq(Things) /\ Ordered(given(s))
            /\ \A K : Weight(K, given(s)) = IF s # None THEN One(Item("queue", s) \in K) ELSE 0
        <4>1. CASE s = None
          BY <4>1, NoWeight
        <4>2. CASE s # None
          <5>1. Item("queue", s) \in Things
            BY <4>2 DEF Item, Things
          <5> QED BY <4>2, <5>1, DoWeights
        <4> QED BY <4>1, <4>2
      <3> HIDE DEF given
      <3>3. part(s, p) \in Seq(Things) /\ Ordered(part(s, p))
        BY <3>1, <3>2, OrderedConcat, ConcatProperties
      <3>4. \A K : Weight(K, part(s, p)) = Weight(K, given(s)) + Weight(K, Do("port", p))
        BY <3>1, <3>2, WeightConcat
      <3> QED BY <3>1, <3>2, <3>3, <3>4
    <2>2. steps = part(sc, pc1) \o part(sw, pw)
      BY DEF Parts
    <2> HIDE DEF part, sc, sw, pc1, pw, steps
    <2>3. steps \in Seq(Things) /\ Ordered(steps)
      BY <1>5, <2>1, <2>2, OrderedConcat, ConcatProperties
    <2>4. ASSUME NEW K
          PROVE  Weight(K, steps) = (IF sc # None THEN One(Item("queue", sc) \in K) ELSE 0)
                                  + One(Item("port", pc1) \in K)
                                  + (IF sw # None THEN One(Item("queue", sw) \in K) ELSE 0)
                                  + One(Item("port", pw) \in K)
      <3>1. Weight(K, steps) = Weight(K, part(sc, pc1)) + Weight(K, part(sw, pw))
        BY <1>5, <2>1, <2>2, WeightConcat
      <3>2. Weight(K, part(sc, pc1)) = (IF sc # None THEN One(Item("queue", sc) \in K) ELSE 0)
                                          + One(Item("port", pc1) \in K)
        BY <1>5, <2>1
      <3>3. Weight(K, part(sw, pw)) = (IF sw # None THEN One(Item("queue", sw) \in K) ELSE 0)
                                         + One(Item("port", pw) \in K)
        BY <1>5, <2>1
      <3> DEFINE a == Weight(K, part(sc, pc1))
                 b == Weight(K, part(sw, pw))
                 j == IF sc # None THEN One(Item("queue", sc) \in K) ELSE 0
                 k == One(Item("port", pc1) \in K)
                 l == IF sw # None THEN One(Item("queue", sw) \in K) ELSE 0
                 m == One(Item("port", pw) \in K)
      <3>4. j \in Nat /\ k \in Nat /\ l \in Nat /\ m \in Nat
        BY OneType
      <3>5. Weight(K, steps) = a + b /\ a = j + k /\ b = l + m
        BY <3>1, <3>2, <3>3
      <3> HIDE DEF a, b, j, k, l, m
      <3>6. Weight(K, steps) = j + k + l + m
        BY <3>4, <3>5
      <3> QED BY <3>6 DEF j, k, l, m
    <2> QED BY <2>3, <2>4
  <1>7. /\ \A y \in Types : /\ sources[q][y] = IF y = "Work" THEN sw ELSE sc
                            /\ ports[q][y] = IF y = "Work" THEN pw ELSE pc1
    BY DEF Types
  <1> HIDE DEF q, sc, sw, pc1, pw, steps
  <1>8. steps \in Seq(Things)
    BY <1>6
  <1>9. /\ todo' \in [Threads -> Seq(Things)] /\ todo'[t] = steps \o Tail(todo[t])
        /\ \A u \in Threads \ {t} : todo'[u] = todo[u]
    BY <1>3, <1>6, ConcatProperties
  <1>10. Ordered(todo'[t])
    <2>1. Tail(todo[t]) \in Seq(Things) /\ Ordered(Tail(todo[t]))
      BY <1>1, <1>3, OrderedTail DEF OrderOK
    <2> QED BY <1>6, <1>9, <2>1, OrderedConcat
  <1>11. \A K : /\ Total(K, todo', Threads) + One(Item("delete", q) \in K)
                     = Total(K, todo, Threads)
                           + (IF sc # None THEN One(Item("queue", sc) \in K) ELSE 0)
                           + One(Item("port", pc1) \in K)
                           + (IF sw # None THEN One(Item("queue", sw) \in K) ELSE 0)
                           + One(Item("port", pw) \in K)
               /\ Total(K, todo', Threads) \in Nat /\ Total(K, todo, Threads) \in Nat
    <2>1. ASSUME NEW K
          PROVE  Total(K, todo', Threads) + One(Item("delete", q) \in K)
                    = Total(K, todo, Threads) + Weight(K, steps)
      BY <1>3, <1>8, <1>9, Popped
    <2>2. \A K : Total(K, todo', Threads) \in Nat /\ Total(K, todo, Threads) \in Nat
      BY <1>3, <1>9, TodoType
    <2>3. ASSUME NEW K
          PROVE  Total(K, todo', Threads) + One(Item("delete", q) \in K)
                     = Total(K, todo, Threads)
                           + (IF sc # None THEN One(Item("queue", sc) \in K) ELSE 0)
                           + One(Item("port", pc1) \in K)
                           + (IF sw # None THEN One(Item("queue", sw) \in K) ELSE 0)
                           + One(Item("port", pw) \in K)
      <3> DEFINE a == Total(K, todo', Threads)
                 b == Total(K, todo, Threads)
                 g == Weight(K, steps)
                 h == One(Item("delete", q) \in K)
                 i1 == (IF sc # None THEN One(Item("queue", sc) \in K) ELSE 0)
                 i2 == One(Item("port", pc1) \in K)
                 i3 == (IF sw # None THEN One(Item("queue", sw) \in K) ELSE 0)
                 i4 == One(Item("port", pw) \in K)
      <3>1. g = i1 + i2 + i3 + i4
        BY <1>6
      <3>2. a + h = b + g /\ a \in Nat /\ b \in Nat
        BY <2>1, <2>2
      <3>3. h \in Nat /\ i1 \in Nat /\ i2 \in Nat /\ i3 \in Nat /\ i4 \in Nat
        BY OneType
      <3> HIDE DEF a, b, g, h, i1, i2, i3, i4
      <3>4. a + h = b + i1 + i2 + i3 + i4
        BY <3>1, <3>2, <3>3
      <3> QED BY <3>4 DEF a, b, h, i1, i2, i3, i4
    <2> QED BY <2>2, <2>3
  <1>12. TypeInv'
    BY <1>1, <1>2, <1>3, <1>9
       DEF TypeInv, QueuesOK, PortsOK, OthersOK, ThreadsOK, portVars
  <1>13. ASSUME NEW x \in Queues
        PROVE  /\ Total(QueueItems(x), todo', Threads)
                     = Total(QueueItems(x), todo, Threads) + (IF sc # None THEN One(sc = x) ELSE 0)
                           + (IF sw # None THEN One(sw = x) ELSE 0)
               /\ Total(EndItems(x), todo', Threads) = Total(EndItems(x), todo, Threads)
               /\ Total({Item("delete", x)}, todo', Threads) + One(q = x)
                     = Total({Item("delete", x)}, todo, Threads)
    <2>1. /\ One(Item("delete", q) \in QueueItems(x)) = 0
          /\ One(Item("queue", sc) \in QueueItems(x)) = One(sc = x)
          /\ One(Item("port", pc1) \in QueueItems(x)) = 0
          /\ One(Item("queue", sw) \in QueueItems(x)) = One(sw = x)
          /\ One(Item("port", pw) \in QueueItems(x)) = 0
          /\ One(Item("delete", q) \in EndItems(x)) = 0
          /\ One(Item("queue", sc) \in EndItems(x)) = 0
          /\ One(Item("port", pc1) \in EndItems(x)) = 0
          /\ One(Item("queue", sw) \in EndItems(x)) = 0
          /\ One(Item("port", pw) \in EndItems(x)) = 0
          /\ One(Item("delete", q) \in {Item("delete", x)}) = One(q = x)
          /\ One(Item("queue", sc) \in {Item("delete", x)}) = 0
          /\ One(Item("port", pc1) \in {Item("delete", x)}) = 0
          /\ One(Item("queue", sw) \in {Item("delete", x)}) = 0
          /\ One(Item("port", pw) \in {Item("delete", x)}) = 0
      BY QueueStep, PlainStep DEF One
    <2> QED BY <1>11, <2>1, OneType
  <1>14. ASSUME NEW x \in Ports
        PROVE  /\ Total({Item("port", x)}, todo', Threads)
                     = Total({Item("port", x)}, todo, Threads) + One(pc1 = x) + One(pw = x)
               /\ Total({Item("erase", x)}, todo', Threads)
                     = Total({Item("erase", x)}, todo, Threads)
               /\ Total({Item("pool", x)}, todo', Threads) = Total({Item("pool", x)}, todo, Threads)
    <2>1. /\ One(Item("delete", q) \in {Item("port", x)}) = 0
          /\ One(Item("queue", sc) \in {Item("port", x)}) = 0
          /\ One(Item("port", pc1) \in {Item("port", x)}) = One(pc1 = x)
          /\ One(Item("queue", sw) \in {Item("port", x)}) = 0
          /\ One(Item("port", pw) \in {Item("port", x)}) = One(pw = x)
          /\ One(Item("delete", q) \in {Item("erase", x)}) = 0
          /\ One(Item("queue", sc) \in {Item("erase", x)}) = 0
          /\ One(Item("port", pc1) \in {Item("erase", x)}) = 0
          /\ One(Item("queue", sw) \in {Item("erase", x)}) = 0
          /\ One(Item("port", pw) \in {Item("erase", x)}) = 0
          /\ One(Item("delete", q) \in {Item("pool", x)}) = 0
          /\ One(Item("queue", sc) \in {Item("pool", x)}) = 0
          /\ One(Item("port", pc1) \in {Item("pool", x)}) = 0
          /\ One(Item("queue", sw) \in {Item("pool", x)}) = 0
          /\ One(Item("port", pw) \in {Item("pool", x)}) = 0
      BY QueueStep, PlainStep DEF One
    <2> QED BY <1>11, <2>1, OneType
  <1>15. /\ \A o \in Queues : queueLife'[o] = IF o = q THEN "deleted" ELSE queueLife[o]
         /\ \A c \in Ports : /\ c[1] \in Queues /\ (c \in {q} \X Types <=> c[1] = q)
                             /\ c[1] # q => queueLife'[c[1]] = queueLife[c[1]]
         /\ \A y \in Types : <<q, y>> \in Ports /\ <<q, y>>[1] = q /\ <<q, y>>[2] = y
         /\ "Work" \in Types /\ "Completion" \in Types
    BY <1>1, <1>2, <1>3 DEF TypeInv, QueuesOK, Ports, Types
  <1>16. ASSUME NEW x \in Queues
         PROVE  QueueCount(x)'
    <2> DEFINE d == Direct(x)
               c == Direct(x)'
               n == Total(QueueItems(x), todo, Threads)
               m == Total(QueueItems(x), todo', Threads)
               e == Total({Item("delete", x)}, todo, Threads)
               f == Total({Item("delete", x)}, todo', Threads)
               r == queueRefs[x]
               s == queueRefs'[x]
    <2>1. c + (IF sw = x THEN 1 ELSE 0) + (IF sc = x THEN 1 ELSE 0) = d /\ c \in Int
      <3> DEFINE A == SourceRefs(x)
                 B == SourceRefs(x)'
      <3>1. B = {o \in Ports : queueLife'[o[1]] = "live" /\ sources[o[1]][o[2]] = x}
        BY <1>2 DEF SourceRefs
      <3>2. A \ ({q} \X Types) = B \ ({q} \X Types)
        BY <1>15, <3>1 DEF SourceRefs
      <3>3. /\ <<q, "Work">> \in A <=> sw = x
            /\ <<q, "Completion">> \in A <=> sc = x
            /\ <<q, "Work">> \notin B /\ <<q, "Completion">> \notin B
        BY <1>3, <1>4, <1>7, <1>15, <3>1 DEF SourceRefs
      <3>4. IsFiniteSet(A)
        BY <1>1, CountTypes
      <3> HIDE DEF A, B
      <3>5. /\ Cardinality(A) \in Nat /\ Cardinality(B) \in Nat
            /\ Cardinality(B) = Cardinality(A)
                  + One(<<q, "Work">> \in B) - One(<<q, "Work">> \in A)
                  + One(<<q, "Completion">> \in B) - One(<<q, "Completion">> \in A)
        BY <3>2, <3>4, PairUpdate
      <3>6. Cardinality(B) + (IF sw = x THEN 1 ELSE 0) + (IF sc = x THEN 1 ELSE 0) = Cardinality(A)
        BY <3>3, <3>5 DEF One
      <3>7. /\ One(default = x) \in {0, 1}
            /\ Cardinality(HandleRefs(x)) \in Nat /\ Cardinality(OwnRefs(x)) \in Nat
            /\ Total({x}, entries, Ports) \in Nat /\ Cardinality(EndRefs(x)) \in Nat
        BY <1>1, CountTypes
      <3>8. /\ d = One(default = x) + Cardinality(HandleRefs(x)) + Cardinality(OwnRefs(x))
                      + Total({x}, entries, Ports) + Cardinality(A) + Cardinality(EndRefs(x))
            /\ c = One(default = x) + Cardinality(HandleRefs(x)) + Cardinality(OwnRefs(x))
                      + Total({x}, entries, Ports) + Cardinality(B) + Cardinality(EndRefs(x))
        BY <1>2 DEF Direct, HandleRefs, OwnRefs, EndRefs, portVars, A, B
      <3> HIDE DEF c, d
      <3> QED BY <3>5, <3>6, <3>7, <3>8
    <2>2. s = r
      BY <1>2
    <2>3. /\ d \in Nat /\ n \in Nat /\ m \in Nat /\ e \in Nat /\ f \in Nat /\ r \in Int
          /\ r = d + n /\ (r > 0 => queueLife[x] = "live")
          /\ e > 0 => queueLife[x] = "live" /\ r = 0
          /\ e <= 1
      BY <1>1, <1>11, QueueFacts
    <2>4. /\ m = n + (IF sc # None THEN IF sc = x THEN 1 ELSE 0 ELSE 0)
                   + (IF sw # None THEN IF sw = x THEN 1 ELSE 0 ELSE 0)
          /\ f + (IF q = x THEN 1 ELSE 0) = e
      BY <1>13 DEF One
    <2>5. (q = x => r = 0) /\ x # None
      BY <1>4 DEF LifetimeConstants
    <2>6. q # x => queueLife'[x] = queueLife[x]
      BY <1>15
    <2> HIDE DEF d, c, n, m, e, f, r, s
    <2>7. /\ s = c + m /\ (s > 0 => queueLife'[x] = "live")
          /\ f > 0 => queueLife'[x] = "live" /\ s = 0
          /\ f <= 1
      BY <2>1, <2>2, <2>3, <2>4, <2>5, <2>6
    <2> QED BY <2>7 DEF QueueCount, Holders, Number, c, m, f, s
  <1>17. ASSUME NEW x \in Ports
         PROVE  PortCount(x)'
    <2> DEFINE d == Cardinality(ContextRefs(x))
               c == Cardinality(ContextRefs(x)')
               u == submitted[x]
               v == submitted'[x]
               n == Total({Item("port", x)}, todo, Threads)
               m == Total({Item("port", x)}, todo', Threads)
               e == Total({Item("erase", x)}, todo, Threads)
               f == Total({Item("erase", x)}, todo', Threads)
               r == portRefs[x]
               s == portRefs'[x]
    <2>1. /\ c + (IF pw = x THEN 1 ELSE 0) + (IF pc1 = x THEN 1 ELSE 0) = d
          /\ c \in Nat /\ v = u
      <3> DEFINE A == ContextRefs(x)
                 B == ContextRefs(x)'
      <3>1. B = {o \in Ports : queueLife'[o[1]] = "live" /\ ports[o[1]][o[2]] = x}
        BY <1>2 DEF ContextRefs
      <3>2. A \ ({q} \X Types) = B \ ({q} \X Types)
        BY <1>15, <3>1 DEF ContextRefs
      <3>3. /\ <<q, "Work">> \in A <=> pw = x
            /\ <<q, "Completion">> \in A <=> pc1 = x
            /\ <<q, "Work">> \notin B /\ <<q, "Completion">> \notin B
        BY <1>3, <1>4, <1>7, <1>15, <3>1 DEF ContextRefs
      <3>4. IsFiniteSet(A)
        BY <1>1, CountTypes
      <3> HIDE DEF A, B
      <3>5. /\ Cardinality(A) \in Nat /\ Cardinality(B) \in Nat
            /\ Cardinality(B) = Cardinality(A)
                  + One(<<q, "Work">> \in B) - One(<<q, "Work">> \in A)
                  + One(<<q, "Completion">> \in B) - One(<<q, "Completion">> \in A)
        BY <3>2, <3>4, PairUpdate
      <3>6. Cardinality(B) + (IF pw = x THEN 1 ELSE 0) + (IF pc1 = x THEN 1 ELSE 0) = Cardinality(A)
        BY <3>3, <3>5 DEF One
      <3> QED BY <1>2, <3>5, <3>6 DEF portVars, A, B
    <2>2. s = r
      BY <1>2 DEF portVars
    <2>3. /\ d \in Nat /\ u \in Nat /\ n \in Nat /\ m \in Nat /\ e \in Nat /\ f \in Nat /\ r \in Int
          /\ r = d + u + n /\ (r > 0 => portLife[x] = "live")
          /\ e > 0 => portLife[x] = "live" /\ r = 0
          /\ e <= 1
      BY <1>1, <1>11, PortFacts
    <2>4. m = n + (IF pc1 = x THEN 1 ELSE 0) + (IF pw = x THEN 1 ELSE 0) /\ f = e
      BY <1>14 DEF One
    <2>5. portLife'[x] = portLife[x]
      BY <1>2 DEF portVars
    <2> HIDE DEF d, c, u, v, n, m, e, f, r, s
    <2>6. /\ s = c + v + m /\ (s > 0 => portLife'[x] = "live")
          /\ f > 0 => portLife'[x] = "live" /\ s = 0
          /\ f <= 1
      BY <2>1, <2>2, <2>3, <2>4, <2>5
    <2> QED BY <2>6 DEF PortCount, Users, Number, c, v, m, f, s
  <1>18. CountsOK'
    BY <1>1, <1>2, <1>13, <1>14, <1>16, <1>17, EndsKept, PoolsKept DEF CountsOK, portVars
  <1>19. OrderOK'
    BY <1>1, <1>9, <1>10, StillOrdered
  <1>20. LinksOK'
    <2>1. ASSUME NEW p \in Ports, NEW c \in attached'[p]
          PROVE  queueLife'[c[1]] = "live"
      <3>1. c \in attached[p] /\ c \notin {q} \X Types /\ c \in Ports
        BY <1>1, <1>2 DEF TypeInv, QueuesOK
      <3> QED BY <1>1, <1>15, <3>1 DEF LinksOK
    <2>2. ASSUME NEW o \in Queues
          PROVE  /\ queueLife'[o] = "live" =>
                       \A y \in Types : /\ ports'[o][y] \in Ports
                                        /\ ports'[o][y][1] \in {o, sources'[o][y]}
                 /\ queueLife'[o] = "none" =>
                       \A y \in Types : sources'[o][y] = None /\ portLife'[<<o, y>>] = "none"
      BY <1>1, <1>2, <1>15 DEF LinksOK, portVars
    <2> QED BY <2>1, <2>2 DEF LinksOK
  <1> QED BY <1>12, <1>18, <1>19, <1>20 DEF LifeInv

-----------------------------------------------------------------------------
(* Handles and callbacks that end *)

\* The reference of the handle becomes a step that gives it up.
LEMMA CloseKeeps ==
  ASSUME LifetimeConstants, LifeInv, NEW t \in Threads, NEW h \in Handles, Close(t, h)
  PROVE  LifeInv'
  <1> DEFINE q == handles[h].queue
             steps == Do("queue", q)
  <1>1. TypeInv /\ CountsOK /\ OrderOK /\ LinksOK
    BY DEF LifeInv
  <1>2. /\ UNCHANGED <<queueVars, portVars, ending, ended, process, default, pc, own>>
        /\ handles' = [handles EXCEPT ![h] = NoHandle]
        /\ todo' = [todo EXCEPT ![t] = steps \o @]
        /\ t \in Clients /\ handles[h].user = t /\ q # None
    BY DEF Close, GoOn, May, Usable
  <1>3. /\ todo \in [Threads -> Seq(Things)] /\ q \in Queues
        /\ handles \in [Handles -> [queue : Queues \cup {None}, user : Clients \cup {None}]]
    BY <1>1, <1>2 DEF TypeInv, OthersOK, ThreadsOK
  <1>4. /\ steps \in Seq(Things) /\ Ordered(steps)
        /\ \A K : Weight(K, steps) = One(Item("queue", q) \in K)
    <2>1. Item("queue", q) \in Things
      BY <1>3 DEF Item, Things
    <2> QED BY <2>1, DoWeights
  <1> HIDE DEF q, steps
  <1>5. /\ todo' \in [Threads -> Seq(Things)] /\ todo'[t] = steps \o todo[t]
        /\ \A u \in Threads \ {t} : todo'[u] = todo[u]
    BY <1>2, <1>3, <1>4, ConcatProperties
  <1>6. Ordered(todo'[t])
    BY <1>1, <1>3, <1>4, <1>5, OrderedConcat DEF OrderOK
  <1>7. \A K : /\ Total(K, todo', Threads) = Total(K, todo, Threads) + One(Item("queue", q) \in K)
               /\ Total(K, todo', Threads) \in Nat /\ Total(K, todo, Threads) \in Nat
    <2>1. \A K : Total(K, todo', Threads)
                    = Total(K, todo, Threads) + Weight(K, steps)
      BY <1>3, <1>4, <1>5, Pushed
    <2>2. \A K : Total(K, todo', Threads) \in Nat /\ Total(K, todo, Threads) \in Nat
      BY <1>3, <1>5, TodoType
    <2> QED BY <1>4, <2>1, <2>2
  <1>8. /\ handles' \in [Handles -> [queue : Queues \cup {None}, user : Clients \cup {None}]]
        /\ handles'[h].queue = None /\ handles[h].queue = q
        /\ \A k \in Handles \ {h} : handles'[k] = handles[k]
        /\ process # h /\ None \notin Queues
    <2>1. handles[h].user # None
      BY <1>2 DEF LifetimeConstants, Threads
    <2>2. process \in Handles => handles[process].user = None
      BY <1>1 DEF TypeInv, ThreadsOK
    <2>3. process # h /\ None \notin Queues
      BY <2>1, <2>2 DEF LifetimeConstants
    <2> QED BY <1>2, <1>3, <2>3 DEF NoHandle, q
  <1>9. TypeInv'
    BY <1>1, <1>2, <1>5, <1>8
       DEF TypeInv, QueuesOK, PortsOK, OthersOK, ThreadsOK, queueVars, portVars
  <1>10. ASSUME NEW x \in Queues
        PROVE  /\ Total(QueueItems(x), todo', Threads)
                     = Total(QueueItems(x), todo, Threads) + One(q = x)
               /\ Total(EndItems(x), todo', Threads) = Total(EndItems(x), todo, Threads)
               /\ Total({Item("delete", x)}, todo', Threads)
                     = Total({Item("delete", x)}, todo, Threads)
    <2>1. /\ One(Item("queue", q) \in QueueItems(x)) = One(q = x)
          /\ One(Item("queue", q) \in EndItems(x)) = 0
          /\ One(Item("queue", q) \in {Item("delete", x)}) = 0
      BY QueueStep DEF One
    <2> QED BY <1>7, <2>1, OneType
  <1>11. ASSUME NEW x \in Ports
        PROVE  /\ Total({Item("port", x)}, todo', Threads) = Total({Item("port", x)}, todo, Threads)
               /\ Total({Item("erase", x)}, todo', Threads)
                     = Total({Item("erase", x)}, todo, Threads)
               /\ Total({Item("pool", x)}, todo', Threads) = Total({Item("pool", x)}, todo, Threads)
    <2>1. /\ One(Item("queue", q) \in {Item("port", x)}) = 0
          /\ One(Item("queue", q) \in {Item("erase", x)}) = 0
          /\ One(Item("queue", q) \in {Item("pool", x)}) = 0
      BY QueueStep DEF One
    <2> QED BY <1>7, <2>1, OneType
  <1>12. ASSUME NEW x \in Queues
         PROVE  QueueCount(x)'
    <2> DEFINE d == Direct(x)
               c == Direct(x)'
               n == Total(QueueItems(x), todo, Threads)
               m == Total(QueueItems(x), todo', Threads)
               e == Total({Item("delete", x)}, todo, Threads)
               f == Total({Item("delete", x)}, todo', Threads)
               r == queueRefs[x]
               s == queueRefs'[x]
    <2>1. c + (IF q = x THEN 1 ELSE 0) = d /\ c \in Nat
      <3> DEFINE dd == One(default = x)
                 hs == Cardinality(HandleRefs(x))
                 os == Cardinality(OwnRefs(x))
                 es == Total({x}, entries, Ports)
                 ss == Cardinality(SourceRefs(x))
                 ts == Cardinality(EndRefs(x))
                 hs2 == Cardinality(HandleRefs(x)')
      <3>1. d = dd + hs + os + es + ss + ts
        BY DEF Direct
      <3>2. /\ dd \in Nat /\ hs \in Nat /\ os \in Nat /\ es \in Nat /\ ss \in Nat /\ ts \in Nat
        BY <1>1, CountTypes
      <3>3. c = dd + hs2 + os + es + ss + ts
        BY <1>2 DEF Direct, OwnRefs, SourceRefs, EndRefs, queueVars, portVars
      <3>4. hs2 + (IF q = x THEN 1 ELSE 0) = hs /\ hs2 \in Nat
        <4>1. hs2 \in Nat /\ hs2 + One(handles[h].queue = x) = hs + One(handles'[h].queue = x)
          BY <1>1, <1>8, HandleChange
        <4>2. /\ One(handles[h].queue = x) = (IF q = x THEN 1 ELSE 0)
              /\ One(handles'[h].queue = x) = 0
          BY <1>1, <1>8 DEF One
        <4>3. hs \in Nat
          BY <3>2
        <4> HIDE DEF hs, hs2
        <4> QED BY <4>1, <4>2, <4>3
      <3> HIDE DEF c, d, dd, hs, os, es, ss, ts, hs2
      <3> QED BY <3>1, <3>2, <3>3, <3>4
    <2>2. s = r
      BY <1>2 DEF queueVars
    <2>3. /\ d \in Nat /\ n \in Nat /\ m \in Nat /\ e \in Nat /\ f \in Nat /\ r \in Int
          /\ r = d + n /\ (r > 0 => queueLife[x] = "live")
          /\ e > 0 => queueLife[x] = "live" /\ r = 0
          /\ e <= 1
      BY <1>1, <1>7, QueueFacts
    <2>4. m = n + (IF q = x THEN 1 ELSE 0) /\ f = e
      BY <1>10 DEF One
    <2>5. queueLife'[x] = queueLife[x]
      BY <1>2 DEF queueVars
    <2> HIDE DEF d, c, n, m, e, f, r, s
    <2>6. /\ s = c + m /\ (s > 0 => queueLife'[x] = "live")
          /\ f > 0 => queueLife'[x] = "live" /\ s = 0
          /\ f <= 1
      BY <2>1, <2>2, <2>3, <2>4, <2>5
    <2> QED BY <2>6 DEF QueueCount, Holders, Number, c, m, f, s
  <1>13. CountsOK'
    BY <1>1, <1>2, <1>10, <1>11, <1>12, EndsKept, PortsKept, PoolsKept DEF CountsOK, queueVars, portVars
  <1>14. OrderOK' /\ LinksOK'
    BY <1>1, <1>2, <1>5, <1>6, StillOrdered, LinksKept DEF queueVars, portVars
  <1> QED BY <1>9, <1>13, <1>14 DEF LifeInv

\* The reference of the entry becomes a step that gives it up.
LEMMA EndCallKeeps ==
  ASSUME LifetimeConstants, LifeInv, NEW t \in Threads, EndCall(t)
  PROVE  LifeInv'
  <1> DEFINE q == own[t]
             steps == Do("queue", q)
  <1>1. TypeInv /\ CountsOK /\ OrderOK /\ LinksOK
    BY DEF LifeInv
  <1>2. /\ UNCHANGED <<queueVars, portVars, handles, ending, ended, process, default>>
        /\ own' = [own EXCEPT ![t] = None] /\ pc' = [pc EXCEPT ![t] = "idle"]
        /\ todo' = [todo EXCEPT ![t] = steps \o @]
        /\ pc[t] = "call"
    BY DEF EndCall, GoOn, Own, Goto
  <1>3. /\ todo \in [Threads -> Seq(Things)] /\ q \in Queues /\ None \notin Queues
        /\ own \in [Threads -> Queues \cup Handles \cup {"default", None}] /\ pc \in [Threads -> Labels]
    BY <1>1, <1>2 DEF TypeInv, ThreadsOK, LifetimeConstants
  <1>4. /\ steps \in Seq(Things) /\ Ordered(steps)
        /\ \A K : Weight(K, steps) = One(Item("queue", q) \in K)
    <2>1. Item("queue", q) \in Things
      BY <1>3 DEF Item, Things
    <2> QED BY <2>1, DoWeights
  <1>5. own[t] = q /\ own'[t] = None /\ pc'[t] = "idle"
        /\ \A u \in Threads \ {t} : own'[u] = own[u] /\ pc'[u] = pc[u]
    BY <1>2, <1>3
  <1> HIDE DEF q, steps
  <1>6. /\ todo' \in [Threads -> Seq(Things)] /\ todo'[t] = steps \o todo[t]
        /\ \A u \in Threads \ {t} : todo'[u] = todo[u]
    BY <1>2, <1>3, <1>4, ConcatProperties
  <1>7. Ordered(todo'[t])
    BY <1>1, <1>3, <1>4, <1>6, OrderedConcat DEF OrderOK
  <1>8. \A K : /\ Total(K, todo', Threads) = Total(K, todo, Threads) + One(Item("queue", q) \in K)
               /\ Total(K, todo', Threads) \in Nat /\ Total(K, todo, Threads) \in Nat
    <2>1. \A K : Total(K, todo', Threads)
                    = Total(K, todo, Threads) + Weight(K, steps)
      BY <1>3, <1>4, <1>6, Pushed
    <2>2. \A K : Total(K, todo', Threads) \in Nat /\ Total(K, todo, Threads) \in Nat
      BY <1>3, <1>6, TodoType
    <2> QED BY <1>4, <2>1, <2>2
  <1>9. TypeInv'
    <2>1. ThreadsOK'
      <3>1. /\ pc' \in [Threads -> Labels]
            /\ own' \in [Threads -> Queues \cup Handles \cup {"default", None}]
        BY <1>2, <1>3 DEF Labels
      <3>2. ASSUME NEW u \in Threads
            PROVE  /\ pc'[u] \in {"submit", "terminate", "call"} <=> own'[u] \in Queues
                   /\ pc'[u] = "idle" <=> own'[u] = None
                   /\ pc'[u] = "default" => own'[u] = "default"
                   /\ pc'[u] \in {"default", "duplicate"} => u \in Clients
                   /\ pc'[u] = "duplicate" =>
                        \/ own'[u] = "default" /\ default' \in Queues
                        \/ own'[u] \in Handles /\ own'[u] = process'
        <4>1. CASE u = t
          BY <1>3, <1>5, <4>1
        <4>2. CASE u # t
          BY <1>1, <1>2, <1>5, <4>2 DEF TypeInv, ThreadsOK
        <4> QED BY <4>1, <4>2
      <3>3. process' \in Handles => handles'[process'].queue \in Queues /\ handles'[process'].user = None
        BY <1>1, <1>2 DEF TypeInv, ThreadsOK
      <3> QED BY <1>6, <3>1, <3>2, <3>3 DEF ThreadsOK
    <2> QED BY <1>1, <1>2, <2>1
         DEF TypeInv, QueuesOK, PortsOK, OthersOK, queueVars, portVars
  <1>10. ASSUME NEW x \in Queues
        PROVE  /\ Total(QueueItems(x), todo', Threads)
                     = Total(QueueItems(x), todo, Threads) + One(q = x)
               /\ Total(EndItems(x), todo', Threads) = Total(EndItems(x), todo, Threads)
               /\ Total({Item("delete", x)}, todo', Threads)
                     = Total({Item("delete", x)}, todo, Threads)
    <2>1. /\ One(Item("queue", q) \in QueueItems(x)) = One(q = x)
          /\ One(Item("queue", q) \in EndItems(x)) = 0
          /\ One(Item("queue", q) \in {Item("delete", x)}) = 0
      BY QueueStep DEF One
    <2> QED BY <1>8, <2>1, OneType
  <1>11. ASSUME NEW x \in Ports
        PROVE  /\ Total({Item("port", x)}, todo', Threads) = Total({Item("port", x)}, todo, Threads)
               /\ Total({Item("erase", x)}, todo', Threads)
                     = Total({Item("erase", x)}, todo, Threads)
               /\ Total({Item("pool", x)}, todo', Threads) = Total({Item("pool", x)}, todo, Threads)
    <2>1. /\ One(Item("queue", q) \in {Item("port", x)}) = 0
          /\ One(Item("queue", q) \in {Item("erase", x)}) = 0
          /\ One(Item("queue", q) \in {Item("pool", x)}) = 0
      BY QueueStep DEF One
    <2> QED BY <1>8, <2>1, OneType
  <1>12. ASSUME NEW x \in Queues
         PROVE  QueueCount(x)'
    <2> DEFINE d == Direct(x)
               c == Direct(x)'
               n == Total(QueueItems(x), todo, Threads)
               m == Total(QueueItems(x), todo', Threads)
               e == Total({Item("delete", x)}, todo, Threads)
               f == Total({Item("delete", x)}, todo', Threads)
               r == queueRefs[x]
               s == queueRefs'[x]
    <2>1. c + (IF q = x THEN 1 ELSE 0) = d /\ c \in Nat
      <3> DEFINE dd == One(default = x)
                 hs == Cardinality(HandleRefs(x))
                 os == Cardinality(OwnRefs(x))
                 es == Total({x}, entries, Ports)
                 ss == Cardinality(SourceRefs(x))
                 ts == Cardinality(EndRefs(x))
                 os2 == Cardinality(OwnRefs(x)')
      <3>1. d = dd + hs + os + es + ss + ts
        BY DEF Direct
      <3>2. /\ dd \in Nat /\ hs \in Nat /\ os \in Nat /\ es \in Nat /\ ss \in Nat /\ ts \in Nat
        BY <1>1, CountTypes
      <3>3. c = dd + hs + os2 + es + ss + ts
        BY <1>2 DEF Direct, HandleRefs, SourceRefs, EndRefs, queueVars, portVars
      <3>4. os2 + (IF q = x THEN 1 ELSE 0) = os /\ os2 \in Nat
        <4>1. os2 \in Nat /\ os2 + One(own[t] = x) = os + One(own'[t] = x)
          BY <1>1, <1>3, <1>5, OwnChange
        <4>2. One(own[t] = x) = (IF q = x THEN 1 ELSE 0) /\ One(own'[t] = x) = 0
          BY <1>1, <1>3, <1>5 DEF One
        <4>3. os \in Nat
          BY <3>2
        <4> HIDE DEF os, os2
        <4> QED BY <4>1, <4>2, <4>3
      <3> HIDE DEF c, d, dd, hs, os, es, ss, ts, os2
      <3> QED BY <3>1, <3>2, <3>3, <3>4
    <2>2. s = r
      BY <1>2 DEF queueVars
    <2>3. /\ d \in Nat /\ n \in Nat /\ m \in Nat /\ e \in Nat /\ f \in Nat /\ r \in Int
          /\ r = d + n /\ (r > 0 => queueLife[x] = "live")
          /\ e > 0 => queueLife[x] = "live" /\ r = 0
          /\ e <= 1
      BY <1>1, <1>8, QueueFacts
    <2>4. m = n + (IF q = x THEN 1 ELSE 0) /\ f = e
      BY <1>10 DEF One
    <2>5. queueLife'[x] = queueLife[x]
      BY <1>2 DEF queueVars
    <2> HIDE DEF d, c, n, m, e, f, r, s
    <2>6. /\ s = c + m /\ (s > 0 => queueLife'[x] = "live")
          /\ f > 0 => queueLife'[x] = "live" /\ s = 0
          /\ f <= 1
      BY <2>1, <2>2, <2>3, <2>4, <2>5
    <2> QED BY <2>6 DEF QueueCount, Holders, Number, c, m, f, s
  <1>13. ASSUME NEW x \in Queues
         PROVE  EndCount(x)'
    <2>1. Cardinality(EndingRefs(x)') = Cardinality(EndingRefs(x)) /\ Cardinality(EndingRefs(x)') \in Nat
      <3>1. EndingRefs(x)' = EndingRefs(x)
        BY <1>2, <1>5 DEF EndingRefs
      <3> QED BY <1>1, <3>1, CountTypes
    <2>2. EndCount(x) /\ EndRefs(x)' = EndRefs(x)
      BY <1>1, <1>2 DEF CountsOK, EndRefs
    <2> QED BY <1>2, <1>10, <2>1, <2>2 DEF EndCount, Number
  <1>14. CountsOK'
    BY <1>1, <1>2, <1>11, <1>12, <1>13, PortsKept, PoolsKept DEF CountsOK, queueVars, portVars
  <1>15. OrderOK' /\ LinksOK'
    BY <1>1, <1>2, <1>6, <1>7, StillOrdered, LinksKept DEF queueVars, portVars
  <1> QED BY <1>9, <1>14, <1>15 DEF LifeInv

-----------------------------------------------------------------------------
(* Submit and Terminate *)

\* The queue of a handle has a reference; the call takes one more.
LEMMA SubmitKeeps ==
  ASSUME LifetimeConstants, LifeInv, NEW t \in Threads, NEW h \in Handles, Submit(t, h)
  PROVE  LifeInv'
  <1> DEFINE q == handles[h].queue
  <1>1. TypeInv /\ CountsOK /\ OrderOK /\ LinksOK
    BY DEF LifeInv
  <1>2. /\ UNCHANGED <<queueLife, ports, sources, attached, portRefs, portLife, entries, submitted,
                       poolRefs, handles, ending, ended, process, default, todo>>
        /\ queueRefs' = [queueRefs EXCEPT ![q] = @ + 1]
        /\ own' = [own EXCEPT ![t] = q] /\ pc' = [pc EXCEPT ![t] = "submit"]
        /\ pc[t] = "idle" /\ q # None
        /\ items' = items + 1 /\ items < MaxItems
    BY DEF Submit, Take, Own, Goto, May, Usable, Idle
  <1>3. /\ todo \in [Threads -> Seq(Things)] /\ todo' = todo /\ q \in Queues /\ None \notin Queues
        /\ own \in [Threads -> Queues \cup Handles \cup {"default", None}] /\ pc \in [Threads -> Labels]
        /\ own[t] = None
    BY <1>1, <1>2 DEF TypeInv, OthersOK, ThreadsOK, LifetimeConstants
  <1>4. queueRefs[q] > 0 /\ queueLife[q] = "live" /\ Total({Item("delete", q)}, todo, Threads) = 0
    BY <1>1, <1>3, Held DEF Number
  <1> HIDE DEF q
  <1>5. own'[t] = q /\ pc'[t] = "submit"
        /\ \A u \in Threads \ {t} : own'[u] = own[u] /\ pc'[u] = pc[u]
    BY <1>2, <1>3
  <1>6. \A K : Total(K, todo', Threads) \in Nat /\ Total(K, todo, Threads) \in Nat
    BY <1>3, TodoType
  <1>7. TypeInv'
    <2>1. ThreadsOK'
      <3>1. /\ pc' \in [Threads -> Labels]
            /\ own' \in [Threads -> Queues \cup Handles \cup {"default", None}]
        BY <1>2, <1>3 DEF Labels
      <3>2. ASSUME NEW u \in Threads
            PROVE  /\ pc'[u] \in {"submit", "terminate", "call"} <=> own'[u] \in Queues
                   /\ pc'[u] = "idle" <=> own'[u] = None
                   /\ pc'[u] = "default" => own'[u] = "default"
                   /\ pc'[u] \in {"default", "duplicate"} => u \in Clients
                   /\ pc'[u] = "duplicate" =>
                        \/ own'[u] = "default" /\ default' \in Queues
                        \/ own'[u] \in Handles /\ own'[u] = process'
        <4>1. CASE u = t
          BY <1>3, <1>5, <4>1
        <4>2. CASE u # t
          BY <1>1, <1>2, <1>5, <4>2 DEF TypeInv, ThreadsOK
        <4> QED BY <4>1, <4>2
      <3>3. process' \in Handles => handles'[process'].queue \in Queues /\ handles'[process'].user = None
        BY <1>1, <1>2 DEF TypeInv, ThreadsOK
      <3> QED BY <1>3, <3>1, <3>2, <3>3 DEF ThreadsOK
    <2>2. items' \in 0 .. MaxItems /\ ended' \subseteq Queues
      BY <1>1, <1>2, <1>3 DEF TypeInv, PortsOK, OthersOK, LifetimeConstants
    <2>3. queueRefs' \in [Queues -> Int]
      BY <1>1, <1>2, <1>3 DEF TypeInv, QueuesOK
    <2> QED BY <1>1, <1>2, <2>1, <2>2, <2>3 DEF TypeInv, QueuesOK, PortsOK, OthersOK
  <1>8. ASSUME NEW x \in Queues
         PROVE  QueueCount(x)'
    <2> DEFINE d == Direct(x)
               c == Direct(x)'
               n == Total(QueueItems(x), todo, Threads)
               m == Total(QueueItems(x), todo', Threads)
               e == Total({Item("delete", x)}, todo, Threads)
               f == Total({Item("delete", x)}, todo', Threads)
               r == queueRefs[x]
               s == queueRefs'[x]
    <2>1. c = d + (IF q = x THEN 1 ELSE 0) /\ c \in Nat
      <3> DEFINE dd == One(default = x)
                 hs == Cardinality(HandleRefs(x))
                 os == Cardinality(OwnRefs(x))
                 es == Total({x}, entries, Ports)
                 ss == Cardinality(SourceRefs(x))
                 ts == Cardinality(EndRefs(x))
                 os2 == Cardinality(OwnRefs(x)')
      <3>1. d = dd + hs + os + es + ss + ts
        BY DEF Direct
      <3>2. /\ dd \in Nat /\ hs \in Nat /\ os \in Nat /\ es \in Nat /\ ss \in Nat /\ ts \in Nat
        BY <1>1, CountTypes
      <3>3. c = dd + hs + os2 + es + ss + ts
        BY <1>2 DEF Direct, HandleRefs, SourceRefs, EndRefs
      <3>4. os2 = os + (IF q = x THEN 1 ELSE 0) /\ os2 \in Nat
        <4>1. os2 \in Nat /\ os2 + One(own[t] = x) = os + One(own'[t] = x)
          BY <1>1, <1>3, <1>5, OwnChange
        <4>2. One(own[t] = x) = 0 /\ One(own'[t] = x) = (IF q = x THEN 1 ELSE 0)
          BY <1>1, <1>3, <1>5 DEF One
        <4>3. os \in Nat
          BY <3>2
        <4> HIDE DEF os, os2
        <4> QED BY <4>1, <4>2, <4>3
      <3> HIDE DEF c, d, dd, hs, os, es, ss, ts, os2
      <3> QED BY <3>1, <3>2, <3>3, <3>4
    <2>2. s = r + (IF q = x THEN 1 ELSE 0)
      BY <1>1, <1>2, <1>3 DEF TypeInv, QueuesOK
    <2>3. /\ d \in Nat /\ n \in Nat /\ m \in Nat /\ e \in Nat /\ f \in Nat /\ r \in Int
          /\ r = d + n /\ (r > 0 => queueLife[x] = "live")
          /\ e > 0 => queueLife[x] = "live" /\ r = 0
          /\ e <= 1
      BY <1>1, <1>6, QueueFacts
    <2>4. m = n /\ f = e
      BY <1>3
    <2>5. q = x => r > 0 /\ queueLife[x] = "live" /\ e = 0
      BY <1>4
    <2>6. queueLife'[x] = queueLife[x]
      BY <1>2
    <2> HIDE DEF d, c, n, m, e, f, r, s
    <2>7. /\ s = c + m /\ (s > 0 => queueLife'[x] = "live")
          /\ f > 0 => queueLife'[x] = "live" /\ s = 0
          /\ f <= 1
      BY <2>1, <2>2, <2>3, <2>4, <2>5, <2>6
    <2> QED BY <2>7 DEF QueueCount, Holders, Number, c, m, f, s
  <1>9. ASSUME NEW x \in Queues
        PROVE  EndCount(x)'
    <2> DEFINE a == Cardinality(EndingRefs(x))
               b == Cardinality(EndingRefs(x)')
               g == Cardinality(EndRefs(x))
               k == Total(EndItems(x), todo, Threads)
    <2>1. b = a /\ a \in Nat /\ b \in Nat /\ g \in Nat /\ k \in Nat
      <3>1. b \in Nat /\ b + One(pc[t] = "terminate" /\ own[t] = x)
                            = a + One(pc'[t] = "terminate" /\ own'[t] = x)
        BY <1>1, <1>5, EndingChange
      <3>2. /\ One(pc[t] = "terminate" /\ own[t] = x) = 0
            /\ One(pc'[t] = "terminate" /\ own'[t] = x) = 0
        BY <1>2, <1>5 DEF One
      <3>3. a \in Nat /\ g \in Nat /\ k \in Nat
        BY <1>1, <1>6, CountTypes
      <3> HIDE DEF a, b, g, k
      <3> QED BY <3>1, <3>2, <3>3
    <2>2. a + g + k <= One(x \in ended)
      BY <1>1 DEF CountsOK, EndCount, Number
    <2>3. Cardinality(EndRefs(x)') = g /\ Total(EndItems(x), todo', Threads) = k
      BY <1>2, <1>3 DEF EndRefs
    <2> HIDE DEF a, b, g, k
    <2>4. b + g + k <= One(x \in ended')
      BY <1>2, <2>1, <2>2
    <2> QED BY <2>3, <2>4 DEF EndCount, Number, b
  <1>10. CountsOK'
    BY <1>1, <1>2, <1>3, <1>8, <1>9, PortsKept, PoolsKept DEF CountsOK
  <1>11. OrderOK' /\ LinksOK'
    BY <1>1, <1>2, <1>3, LinksKept DEF OrderOK
  <1> QED BY <1>7, <1>10, <1>11 DEF LifeInv

\* As Submit, once for each queue
LEMMA TerminateKeeps ==
  ASSUME LifetimeConstants, LifeInv, NEW t \in Threads, NEW h \in Handles, Terminate(t, h)
  PROVE  LifeInv'
  <1> DEFINE q == handles[h].queue
  <1>1. TypeInv /\ CountsOK /\ OrderOK /\ LinksOK
    BY DEF LifeInv
  <1>2. /\ UNCHANGED <<queueLife, ports, sources, attached, portRefs, portLife, entries, submitted,
                       poolRefs, handles, ending, process, default, todo>>
        /\ queueRefs' = [queueRefs EXCEPT ![q] = @ + 1]
        /\ own' = [own EXCEPT ![t] = q] /\ pc' = [pc EXCEPT ![t] = "terminate"]
        /\ pc[t] = "idle" /\ q # None
        /\ q \notin ended /\ ended' = ended \cup {q} /\ UNCHANGED items
    BY DEF Terminate, Take, Own, Goto, May, Usable, Idle, portVars
  <1>3. /\ todo \in [Threads -> Seq(Things)] /\ todo' = todo /\ q \in Queues /\ None \notin Queues
        /\ own \in [Threads -> Queues \cup Handles \cup {"default", None}] /\ pc \in [Threads -> Labels]
        /\ own[t] = None
    BY <1>1, <1>2 DEF TypeInv, OthersOK, ThreadsOK, LifetimeConstants
  <1>4. queueRefs[q] > 0 /\ queueLife[q] = "live" /\ Total({Item("delete", q)}, todo, Threads) = 0
    BY <1>1, <1>3, Held DEF Number
  <1> HIDE DEF q
  <1>5. own'[t] = q /\ pc'[t] = "terminate"
        /\ \A u \in Threads \ {t} : own'[u] = own[u] /\ pc'[u] = pc[u]
    BY <1>2, <1>3
  <1>6. \A K : Total(K, todo', Threads) \in Nat /\ Total(K, todo, Threads) \in Nat
    BY <1>3, TodoType
  <1>7. TypeInv'
    <2>1. ThreadsOK'
      <3>1. /\ pc' \in [Threads -> Labels]
            /\ own' \in [Threads -> Queues \cup Handles \cup {"default", None}]
        BY <1>2, <1>3 DEF Labels
      <3>2. ASSUME NEW u \in Threads
            PROVE  /\ pc'[u] \in {"submit", "terminate", "call"} <=> own'[u] \in Queues
                   /\ pc'[u] = "idle" <=> own'[u] = None
                   /\ pc'[u] = "default" => own'[u] = "default"
                   /\ pc'[u] \in {"default", "duplicate"} => u \in Clients
                   /\ pc'[u] = "duplicate" =>
                        \/ own'[u] = "default" /\ default' \in Queues
                        \/ own'[u] \in Handles /\ own'[u] = process'
        <4>1. CASE u = t
          BY <1>3, <1>5, <4>1
        <4>2. CASE u # t
          BY <1>1, <1>2, <1>5, <4>2 DEF TypeInv, ThreadsOK
        <4> QED BY <4>1, <4>2
      <3>3. process' \in Handles => handles'[process'].queue \in Queues /\ handles'[process'].user = None
        BY <1>1, <1>2 DEF TypeInv, ThreadsOK
      <3> QED BY <1>3, <3>1, <3>2, <3>3 DEF ThreadsOK
    <2>2. items' \in 0 .. MaxItems /\ ended' \subseteq Queues
      BY <1>1, <1>2, <1>3 DEF TypeInv, PortsOK, OthersOK, LifetimeConstants
    <2>3. queueRefs' \in [Queues -> Int]
      BY <1>1, <1>2, <1>3 DEF TypeInv, QueuesOK
    <2> QED BY <1>1, <1>2, <2>1, <2>2, <2>3 DEF TypeInv, QueuesOK, PortsOK, OthersOK
  <1>8. ASSUME NEW x \in Queues
         PROVE  QueueCount(x)'
    <2> DEFINE d == Direct(x)
               c == Direct(x)'
               n == Total(QueueItems(x), todo, Threads)
               m == Total(QueueItems(x), todo', Threads)
               e == Total({Item("delete", x)}, todo, Threads)
               f == Total({Item("delete", x)}, todo', Threads)
               r == queueRefs[x]
               s == queueRefs'[x]
    <2>1. c = d + (IF q = x THEN 1 ELSE 0) /\ c \in Nat
      <3> DEFINE dd == One(default = x)
                 hs == Cardinality(HandleRefs(x))
                 os == Cardinality(OwnRefs(x))
                 es == Total({x}, entries, Ports)
                 ss == Cardinality(SourceRefs(x))
                 ts == Cardinality(EndRefs(x))
                 os2 == Cardinality(OwnRefs(x)')
      <3>1. d = dd + hs + os + es + ss + ts
        BY DEF Direct
      <3>2. /\ dd \in Nat /\ hs \in Nat /\ os \in Nat /\ es \in Nat /\ ss \in Nat /\ ts \in Nat
        BY <1>1, CountTypes
      <3>3. c = dd + hs + os2 + es + ss + ts
        BY <1>2 DEF Direct, HandleRefs, SourceRefs, EndRefs
      <3>4. os2 = os + (IF q = x THEN 1 ELSE 0) /\ os2 \in Nat
        <4>1. os2 \in Nat /\ os2 + One(own[t] = x) = os + One(own'[t] = x)
          BY <1>1, <1>3, <1>5, OwnChange
        <4>2. One(own[t] = x) = 0 /\ One(own'[t] = x) = (IF q = x THEN 1 ELSE 0)
          BY <1>1, <1>3, <1>5 DEF One
        <4>3. os \in Nat
          BY <3>2
        <4> HIDE DEF os, os2
        <4> QED BY <4>1, <4>2, <4>3
      <3> HIDE DEF c, d, dd, hs, os, es, ss, ts, os2
      <3> QED BY <3>1, <3>2, <3>3, <3>4
    <2>2. s = r + (IF q = x THEN 1 ELSE 0)
      BY <1>1, <1>2, <1>3 DEF TypeInv, QueuesOK
    <2>3. /\ d \in Nat /\ n \in Nat /\ m \in Nat /\ e \in Nat /\ f \in Nat /\ r \in Int
          /\ r = d + n /\ (r > 0 => queueLife[x] = "live")
          /\ e > 0 => queueLife[x] = "live" /\ r = 0
          /\ e <= 1
      BY <1>1, <1>6, QueueFacts
    <2>4. m = n /\ f = e
      BY <1>3
    <2>5. q = x => r > 0 /\ queueLife[x] = "live" /\ e = 0
      BY <1>4
    <2>6. queueLife'[x] = queueLife[x]
      BY <1>2
    <2> HIDE DEF d, c, n, m, e, f, r, s
    <2>7. /\ s = c + m /\ (s > 0 => queueLife'[x] = "live")
          /\ f > 0 => queueLife'[x] = "live" /\ s = 0
          /\ f <= 1
      BY <2>1, <2>2, <2>3, <2>4, <2>5, <2>6
    <2> QED BY <2>7 DEF QueueCount, Holders, Number, c, m, f, s
  <1>9. ASSUME NEW x \in Queues
        PROVE  EndCount(x)'
    <2> DEFINE a == Cardinality(EndingRefs(x))
               b == Cardinality(EndingRefs(x)')
               g == Cardinality(EndRefs(x))
               k == Total(EndItems(x), todo, Threads)
    <2>1. b = a + (IF q = x THEN 1 ELSE 0) /\ a \in Nat /\ b \in Nat /\ g \in Nat /\ k \in Nat
      <3>1. b \in Nat /\ b + One(pc[t] = "terminate" /\ own[t] = x)
                            = a + One(pc'[t] = "terminate" /\ own'[t] = x)
        BY <1>1, <1>5, EndingChange
      <3>2. /\ One(pc[t] = "terminate" /\ own[t] = x) = 0
            /\ One(pc'[t] = "terminate" /\ own'[t] = x) = (IF q = x THEN 1 ELSE 0)
        BY <1>2, <1>5 DEF One
      <3>3. a \in Nat /\ g \in Nat /\ k \in Nat
        BY <1>1, <1>6, CountTypes
      <3> HIDE DEF a, b, g, k
      <3> QED BY <3>1, <3>2, <3>3
    <2>2. a + g + k <= One(x \in ended)
      BY <1>1 DEF CountsOK, EndCount, Number
    <2>3. Cardinality(EndRefs(x)') = g /\ Total(EndItems(x), todo', Threads) = k
      BY <1>2, <1>3 DEF EndRefs
    <2>4. /\ One(x \in ended) = IF x \in ended THEN 1 ELSE 0
          /\ One(x \in ended') = IF x \in ended \/ x = q THEN 1 ELSE 0
      BY <1>2 DEF One
    <2> HIDE DEF a, b, g, k
    <2>5. b + g + k <= One(x \in ended')
      BY <1>2, <2>1, <2>2, <2>4
    <2> QED BY <2>3, <2>5 DEF EndCount, Number, b
  <1>10. CountsOK'
    BY <1>1, <1>2, <1>3, <1>8, <1>9, PortsKept, PoolsKept DEF CountsOK
  <1>11. OrderOK' /\ LinksOK'
    BY <1>1, <1>2, <1>3, LinksKept DEF OrderOK
  <1> QED BY <1>7, <1>10, <1>11 DEF LifeInv

\* One reference more for the entry; that of the call becomes a step. The pool's call
\* holds the port.
LEMMA QueueItemKeeps ==
  ASSUME LifetimeConstants, LifeInv, NEW t \in Threads, QueueItem(t)
  PROVE  LifeInv'
  <1> DEFINE q == own[t]
             p == ports[q]["Work"]
             steps == Do("queue", q)
  <1>1. TypeInv /\ CountsOK /\ OrderOK /\ LinksOK
    BY DEF LifeInv
  <1>2. /\ UNCHANGED <<queueLife, ports, sources, attached, portLife, ending, poolRefs, items,
                       handles, ended, process, default>>
        /\ queueRefs' = [queueRefs EXCEPT ![q] = @ + 1]
        /\ portRefs' = [portRefs EXCEPT ![p] = @ + 1]
        /\ submitted' = [submitted EXCEPT ![p] = @ + 1]
        /\ own' = [own EXCEPT ![t] = None] /\ pc' = [pc EXCEPT ![t] = "idle"]
        /\ todo' = [todo EXCEPT ![t] = steps \o @]
        /\ pc[t] = "submit"
        /\ entries' = [entries EXCEPT ![p] = Append(@, q)]
    BY DEF QueueItem, NotifyPool, GoOn, Own, Goto
  <1>3. /\ todo \in [Threads -> Seq(Things)] /\ q \in Queues /\ None \notin Queues
        /\ own \in [Threads -> Queues \cup Handles \cup {"default", None}] /\ pc \in [Threads -> Labels]
    BY <1>1, <1>2 DEF TypeInv, ThreadsOK, LifetimeConstants
  <1>4. queueRefs[q] > 0 /\ queueLife[q] = "live" /\ Total({Item("delete", q)}, todo, Threads) = 0
    BY <1>1, <1>3, Held DEF Number
  <1>5. /\ p \in Ports /\ portRefs[p] > 0 /\ portLife[p] = "live"
        /\ Total({Item("erase", p)}, todo, Threads) = 0
    BY <1>3, <1>4, LivePorts DEF Number, Types
  <1>6. /\ steps \in Seq(Things) /\ Ordered(steps)
        /\ \A K : Weight(K, steps) = One(Item("queue", q) \in K)
    <2>1. Item("queue", q) \in Things
      BY <1>3 DEF Item, Things
    <2> QED BY <2>1, DoWeights
  <1>7. own[t] = q /\ own'[t] = None /\ pc'[t] = "idle"
        /\ \A u \in Threads \ {t} : own'[u] = own[u] /\ pc'[u] = pc[u]
    BY <1>2, <1>3
  <1> HIDE DEF q, p, steps
  <1>8. /\ todo' \in [Threads -> Seq(Things)] /\ todo'[t] = steps \o todo[t]
        /\ \A u \in Threads \ {t} : todo'[u] = todo[u]
    BY <1>2, <1>3, <1>6, ConcatProperties
  <1>9. Ordered(todo'[t])
    BY <1>1, <1>3, <1>6, <1>8, OrderedConcat DEF OrderOK
  <1>10. \A K : /\ Total(K, todo', Threads) = Total(K, todo, Threads) + One(Item("queue", q) \in K)
               /\ Total(K, todo', Threads) \in Nat /\ Total(K, todo, Threads) \in Nat
    <2>1. \A K : Total(K, todo', Threads)
                    = Total(K, todo, Threads) + Weight(K, steps)
      BY <1>3, <1>6, <1>8, Pushed
    <2>2. \A K : Total(K, todo', Threads) \in Nat /\ Total(K, todo, Threads) \in Nat
      BY <1>3, <1>8, TodoType
    <2> QED BY <1>6, <2>1, <2>2
  <1>11. TypeInv'
    <2>1. ThreadsOK'
      <3>1. /\ pc' \in [Threads -> Labels]
            /\ own' \in [Threads -> Queues \cup Handles \cup {"default", None}]
        BY <1>2, <1>3 DEF Labels
      <3>2. ASSUME NEW u \in Threads
            PROVE  /\ pc'[u] \in {"submit", "terminate", "call"} <=> own'[u] \in Queues
                   /\ pc'[u] = "idle" <=> own'[u] = None
                   /\ pc'[u] = "default" => own'[u] = "default"
                   /\ pc'[u] \in {"default", "duplicate"} => u \in Clients
                   /\ pc'[u] = "duplicate" =>
                        \/ own'[u] = "default" /\ default' \in Queues
                        \/ own'[u] \in Handles /\ own'[u] = process'
        <4>1. CASE u = t
          BY <1>3, <1>7, <4>1
        <4>2. CASE u # t
          BY <1>1, <1>2, <1>7, <4>2 DEF TypeInv, ThreadsOK
        <4> QED BY <4>1, <4>2
      <3>3. process' \in Handles => handles'[process'].queue \in Queues /\ handles'[process'].user = None
        BY <1>1, <1>2 DEF TypeInv, ThreadsOK
      <3> QED BY <1>8, <3>1, <3>2, <3>3 DEF ThreadsOK
    <2>2. QueuesOK'
      BY <1>1, <1>2, <1>3 DEF TypeInv, QueuesOK
    <2>3. PortsOK'
      BY <1>1, <1>2, <1>3, <1>5 DEF TypeInv, PortsOK
    <2>4. OthersOK'
      BY <1>1, <1>2, <1>3 DEF TypeInv, OthersOK
    <2> QED BY <2>1, <2>2, <2>3, <2>4 DEF TypeInv
  <1>12. ASSUME NEW x \in Queues
        PROVE  /\ Total(QueueItems(x), todo', Threads)
                     = Total(QueueItems(x), todo, Threads) + One(q = x)
               /\ Total(EndItems(x), todo', Threads) = Total(EndItems(x), todo, Threads)
               /\ Total({Item("delete", x)}, todo', Threads)
                     = Total({Item("delete", x)}, todo, Threads)
    <2>1. /\ One(Item("queue", q) \in QueueItems(x)) = One(q = x)
          /\ One(Item("queue", q) \in EndItems(x)) = 0
          /\ One(Item("queue", q) \in {Item("delete", x)}) = 0
      BY QueueStep DEF One
    <2> QED BY <1>10, <2>1, OneType
  <1>13. ASSUME NEW x \in Ports
        PROVE  /\ Total({Item("port", x)}, todo', Threads) = Total({Item("port", x)}, todo, Threads)
               /\ Total({Item("erase", x)}, todo', Threads)
                     = Total({Item("erase", x)}, todo, Threads)
               /\ Total({Item("pool", x)}, todo', Threads) = Total({Item("pool", x)}, todo, Threads)
    <2>1. /\ One(Item("queue", q) \in {Item("port", x)}) = 0
          /\ One(Item("queue", q) \in {Item("erase", x)}) = 0
          /\ One(Item("queue", q) \in {Item("pool", x)}) = 0
      BY QueueStep DEF One
    <2> QED BY <1>10, <2>1, OneType
  <1>14. ASSUME NEW x \in Queues
         PROVE  QueueCount(x)'
    <2> DEFINE d == Direct(x)
               c == Direct(x)'
               n == Total(QueueItems(x), todo, Threads)
               m == Total(QueueItems(x), todo', Threads)
               e == Total({Item("delete", x)}, todo, Threads)
               f == Total({Item("delete", x)}, todo', Threads)
               r == queueRefs[x]
               s == queueRefs'[x]
    <2>1. c = d /\ c \in Nat
      <3> DEFINE dd == One(default = x)
                 hs == Cardinality(HandleRefs(x))
                 os == Cardinality(OwnRefs(x))
                 es == Total({x}, entries, Ports)
                 ss == Cardinality(SourceRefs(x))
                 ts == Cardinality(EndRefs(x))
                 os2 == Cardinality(OwnRefs(x)')
                 es2 == Total({x}, entries', Ports)
      <3>1. d = dd + hs + os + es + ss + ts
        BY DEF Direct
      <3>2. /\ dd \in Nat /\ hs \in Nat /\ os \in Nat /\ es \in Nat /\ ss \in Nat /\ ts \in Nat
        BY <1>1, CountTypes
      <3>3. c = dd + hs + os2 + es2 + ss + ts
        BY <1>2 DEF Direct, HandleRefs, SourceRefs, EndRefs
      <3>4. os2 + (IF q = x THEN 1 ELSE 0) = os /\ os2 \in Nat
        <4>1. os2 \in Nat /\ os2 + One(own[t] = x) = os + One(own'[t] = x)
          BY <1>1, <1>3, <1>7, OwnChange
        <4>2. One(own[t] = x) = (IF q = x THEN 1 ELSE 0) /\ One(own'[t] = x) = 0
          BY <1>1, <1>3, <1>7 DEF One
        <4>3. os \in Nat
          BY <3>2
        <4> HIDE DEF os, os2
        <4> QED BY <4>1, <4>2, <4>3
      <3>5. es2 = es + (IF q = x THEN 1 ELSE 0) /\ es2 \in Nat
        BY <1>1, <1>2, <1>3, <1>5, EntryAdded DEF One
      <3> HIDE DEF c, d, dd, hs, os, es, ss, ts, os2, es2
      <3> QED BY <3>1, <3>2, <3>3, <3>4, <3>5
    <2>2. s = r + (IF q = x THEN 1 ELSE 0)
      BY <1>1, <1>2, <1>3 DEF TypeInv, QueuesOK
    <2>3. /\ d \in Nat /\ n \in Nat /\ m \in Nat /\ e \in Nat /\ f \in Nat /\ r \in Int
          /\ r = d + n /\ (r > 0 => queueLife[x] = "live")
          /\ e > 0 => queueLife[x] = "live" /\ r = 0
          /\ e <= 1
      BY <1>1, <1>10, QueueFacts
    <2>4. m = n + (IF q = x THEN 1 ELSE 0) /\ f = e
      BY <1>12 DEF One
    <2>5. q = x => r > 0 /\ queueLife[x] = "live" /\ e = 0
      BY <1>4
    <2>6. queueLife'[x] = queueLife[x]
      BY <1>2
    <2> HIDE DEF d, c, n, m, e, f, r, s
    <2>7. /\ s = c + m /\ (s > 0 => queueLife'[x] = "live")
          /\ f > 0 => queueLife'[x] = "live" /\ s = 0
          /\ f <= 1
      BY <2>1, <2>2, <2>3, <2>4, <2>5, <2>6
    <2> QED BY <2>7 DEF QueueCount, Holders, Number, c, m, f, s
  <1>15. ASSUME NEW x \in Ports
         PROVE  PortCount(x)'
    <2> DEFINE d == Cardinality(ContextRefs(x))
               c == Cardinality(ContextRefs(x)')
               u == submitted[x]
               v == submitted'[x]
               n == Total({Item("port", x)}, todo, Threads)
               m == Total({Item("port", x)}, todo', Threads)
               e == Total({Item("erase", x)}, todo, Threads)
               f == Total({Item("erase", x)}, todo', Threads)
               r == portRefs[x]
               s == portRefs'[x]
    <2>1. c = d /\ v = u + (IF p = x THEN 1 ELSE 0)
      BY <1>1, <1>2, <1>5 DEF ContextRefs, TypeInv, PortsOK
    <2>2. s = r + (IF p = x THEN 1 ELSE 0)
      BY <1>1, <1>2, <1>5 DEF TypeInv, PortsOK
    <2>3. /\ d \in Nat /\ u \in Nat /\ n \in Nat /\ m \in Nat /\ e \in Nat /\ f \in Nat /\ r \in Int
          /\ r = d + u + n /\ (r > 0 => portLife[x] = "live")
          /\ e > 0 => portLife[x] = "live" /\ r = 0
          /\ e <= 1
      BY <1>1, <1>10, PortFacts
    <2>4. m = n /\ f = e
      BY <1>13
    <2>5. p = x => r > 0 /\ portLife[x] = "live" /\ e = 0
      BY <1>5
    <2>6. portLife'[x] = portLife[x]
      BY <1>2
    <2> HIDE DEF d, c, u, v, n, m, e, f, r, s
    <2>7. /\ s = c + v + m /\ (s > 0 => portLife'[x] = "live")
          /\ f > 0 => portLife'[x] = "live" /\ s = 0
          /\ f <= 1
      BY <2>1, <2>2, <2>3, <2>4, <2>5, <2>6
    <2> QED BY <2>7 DEF PortCount, Users, Number, c, v, m, f, s
  <1>16. ASSUME NEW x \in Queues
         PROVE  EndCount(x)'
    <2> DEFINE a == Cardinality(EndingRefs(x))
               b == Cardinality(EndingRefs(x)')
               g == Cardinality(EndRefs(x))
               j == Cardinality(EndRefs(x)')
               k == Total(EndItems(x), todo, Threads)
    <2>1. b = a /\ a \in Nat /\ b \in Nat /\ g \in Nat /\ k \in Nat
      <3>1. b \in Nat /\ b + One(pc[t] = "terminate" /\ own[t] = x)
                            = a + One(pc'[t] = "terminate" /\ own'[t] = x)
        BY <1>1, <1>7, EndingChange
      <3>2. /\ One(pc[t] = "terminate" /\ own[t] = x) = 0
            /\ One(pc'[t] = "terminate" /\ own'[t] = x) = 0
        BY <1>2, <1>7 DEF One
      <3>3. a \in Nat /\ g \in Nat /\ k \in Nat
        BY <1>1, <1>10, CountTypes
      <3> HIDE DEF a, b, g, k
      <3> QED BY <3>1, <3>2, <3>3
    <2>2. a + g + k <= One(x \in ended)
      BY <1>1 DEF CountsOK, EndCount, Number
    <2>3. j = g
      BY <1>2 DEF EndRefs
    <2>4. Total(EndItems(x), todo', Threads) = k
      BY <1>12
    <2> HIDE DEF a, b, g, j, k
    <2>5. b + j + k <= One(x \in ended')
      BY <1>2, <2>1, <2>2, <2>3
    <2> QED BY <2>4, <2>5 DEF EndCount, Number, b, j
  <1>17. CountsOK'
    BY <1>1, <1>2, <1>13, <1>14, <1>15, <1>16, PoolsKept DEF CountsOK
  <1>18. OrderOK' /\ LinksOK'
    BY <1>1, <1>2, <1>8, <1>9, StillOrdered, LinksKept
  <1> QED BY <1>11, <1>17, <1>18 DEF LifeInv

\* As QueueItem, for the termination: the queue had none.
LEMMA ScheduleTerminationKeeps ==
  ASSUME LifetimeConstants, LifeInv, NEW t \in Threads, ScheduleTermination(t)
  PROVE  LifeInv'
  <1> DEFINE q == own[t]
             p == ports[q]["Work"]
             steps == Do("queue", q)
  <1>1. TypeInv /\ CountsOK /\ OrderOK /\ LinksOK
    BY DEF LifeInv
  <1>2. /\ UNCHANGED <<queueLife, ports, sources, attached, portLife, entries, poolRefs, items,
                       handles, ended, process, default>>
        /\ queueRefs' = [queueRefs EXCEPT ![q] = @ + 1]
        /\ portRefs' = [portRefs EXCEPT ![p] = @ + 1]
        /\ submitted' = [submitted EXCEPT ![p] = @ + 1]
        /\ own' = [own EXCEPT ![t] = None] /\ pc' = [pc EXCEPT ![t] = "idle"]
        /\ todo' = [todo EXCEPT ![t] = steps \o @]
        /\ pc[t] = "terminate"
        /\ ending' = ending \cup {<<q, "Work">>}
    BY DEF ScheduleTermination, NotifyPool, GoOn, Own, Goto, Schedule
  <1>3. /\ todo \in [Threads -> Seq(Things)] /\ q \in Queues /\ None \notin Queues
        /\ own \in [Threads -> Queues \cup Handles \cup {"default", None}] /\ pc \in [Threads -> Labels]
    BY <1>1, <1>2 DEF TypeInv, ThreadsOK, LifetimeConstants
  <1>4. queueRefs[q] > 0 /\ queueLife[q] = "live" /\ Total({Item("delete", q)}, todo, Threads) = 0
    BY <1>1, <1>3, Held DEF Number
  <1>5. /\ p \in Ports /\ portRefs[p] > 0 /\ portLife[p] = "live"
        /\ Total({Item("erase", p)}, todo, Threads) = 0
    BY <1>3, <1>4, LivePorts DEF Number, Types
  <1>6. /\ steps \in Seq(Things) /\ Ordered(steps)
        /\ \A K : Weight(K, steps) = One(Item("queue", q) \in K)
    <2>1. Item("queue", q) \in Things
      BY <1>3 DEF Item, Things
    <2> QED BY <2>1, DoWeights
  <1>7. own[t] = q /\ own'[t] = None /\ pc'[t] = "idle"
        /\ \A u \in Threads \ {t} : own'[u] = own[u] /\ pc'[u] = pc[u]
    BY <1>2, <1>3
  <1>8. <<q, "Work">> \notin ending /\ "Work" \in Types
    <2>1. <<q, "Work">>[1] = q
      OBVIOUS
    <2> QED BY <1>1, <1>2, <1>3, <1>7, <2>1, OneEnd DEF Types
  <1> HIDE DEF q, p, steps
  <1>9. /\ todo' \in [Threads -> Seq(Things)] /\ todo'[t] = steps \o todo[t]
        /\ \A u \in Threads \ {t} : todo'[u] = todo[u]
    BY <1>2, <1>3, <1>6, ConcatProperties
  <1>10. Ordered(todo'[t])
    BY <1>1, <1>3, <1>6, <1>9, OrderedConcat DEF OrderOK
  <1>11. \A K : /\ Total(K, todo', Threads) = Total(K, todo, Threads) + One(Item("queue", q) \in K)
               /\ Total(K, todo', Threads) \in Nat /\ Total(K, todo, Threads) \in Nat
    <2>1. \A K : Total(K, todo', Threads)
                    = Total(K, todo, Threads) + Weight(K, steps)
      BY <1>3, <1>6, <1>9, Pushed
    <2>2. \A K : Total(K, todo', Threads) \in Nat /\ Total(K, todo, Threads) \in Nat
      BY <1>3, <1>9, TodoType
    <2> QED BY <1>6, <2>1, <2>2
  <1>12. TypeInv'
    <2>1. ThreadsOK'
      <3>1. /\ pc' \in [Threads -> Labels]
            /\ own' \in [Threads -> Queues \cup Handles \cup {"default", None}]
        BY <1>2, <1>3 DEF Labels
      <3>2. ASSUME NEW u \in Threads
            PROVE  /\ pc'[u] \in {"submit", "terminate", "call"} <=> own'[u] \in Queues
                   /\ pc'[u] = "idle" <=> own'[u] = None
                   /\ pc'[u] = "default" => own'[u] = "default"
                   /\ pc'[u] \in {"default", "duplicate"} => u \in Clients
                   /\ pc'[u] = "duplicate" =>
                        \/ own'[u] = "default" /\ default' \in Queues
                        \/ own'[u] \in Handles /\ own'[u] = process'
        <4>1. CASE u = t
          BY <1>3, <1>7, <4>1
        <4>2. CASE u # t
          BY <1>1, <1>2, <1>7, <4>2 DEF TypeInv, ThreadsOK
        <4> QED BY <4>1, <4>2
      <3>3. process' \in Handles => handles'[process'].queue \in Queues /\ handles'[process'].user = None
        BY <1>1, <1>2 DEF TypeInv, ThreadsOK
      <3> QED BY <1>9, <3>1, <3>2, <3>3 DEF ThreadsOK
    <2>2. QueuesOK'
      BY <1>1, <1>2, <1>3 DEF TypeInv, QueuesOK
    <2>3. PortsOK'
      BY <1>1, <1>2, <1>3, <1>5 DEF TypeInv, PortsOK
    <2>4. OthersOK'
      BY <1>1, <1>2, <1>3, <1>8 DEF TypeInv, OthersOK, Ports
    <2> QED BY <2>1, <2>2, <2>3, <2>4 DEF TypeInv
  <1>13. ASSUME NEW x \in Queues
        PROVE  /\ Total(QueueItems(x), todo', Threads)
                     = Total(QueueItems(x), todo, Threads) + One(q = x)
               /\ Total(EndItems(x), todo', Threads) = Total(EndItems(x), todo, Threads)
               /\ Total({Item("delete", x)}, todo', Threads)
                     = Total({Item("delete", x)}, todo, Threads)
    <2>1. /\ One(Item("queue", q) \in QueueItems(x)) = One(q = x)
          /\ One(Item("queue", q) \in EndItems(x)) = 0
          /\ One(Item("queue", q) \in {Item("delete", x)}) = 0
      BY QueueStep DEF One
    <2> QED BY <1>11, <2>1, OneType
  <1>14. ASSUME NEW x \in Ports
        PROVE  /\ Total({Item("port", x)}, todo', Threads) = Total({Item("port", x)}, todo, Threads)
               /\ Total({Item("erase", x)}, todo', Threads)
                     = Total({Item("erase", x)}, todo, Threads)
               /\ Total({Item("pool", x)}, todo', Threads) = Total({Item("pool", x)}, todo, Threads)
    <2>1. /\ One(Item("queue", q) \in {Item("port", x)}) = 0
          /\ One(Item("queue", q) \in {Item("erase", x)}) = 0
          /\ One(Item("queue", q) \in {Item("pool", x)}) = 0
      BY QueueStep DEF One
    <2> QED BY <1>11, <2>1, OneType
  <1>15. ASSUME NEW x \in Queues
         PROVE  QueueCount(x)'
    <2> DEFINE d == Direct(x)
               c == Direct(x)'
               n == Total(QueueItems(x), todo, Threads)
               m == Total(QueueItems(x), todo', Threads)
               e == Total({Item("delete", x)}, todo, Threads)
               f == Total({Item("delete", x)}, todo', Threads)
               r == queueRefs[x]
               s == queueRefs'[x]
    <2>1. c = d /\ c \in Nat
      <3> DEFINE dd == One(default = x)
                 hs == Cardinality(HandleRefs(x))
                 os == Cardinality(OwnRefs(x))
                 es == Total({x}, entries, Ports)
                 ss == Cardinality(SourceRefs(x))
                 ts == Cardinality(EndRefs(x))
                 os2 == Cardinality(OwnRefs(x)')
                 ts2 == Cardinality(EndRefs(x)')
      <3>1. d = dd + hs + os + es + ss + ts
        BY DEF Direct
      <3>2. /\ dd \in Nat /\ hs \in Nat /\ os \in Nat /\ es \in Nat /\ ss \in Nat /\ ts \in Nat
        BY <1>1, CountTypes
      <3>3. c = dd + hs + os2 + es + ss + ts2
        BY <1>2 DEF Direct, HandleRefs, SourceRefs
      <3>4. os2 + (IF q = x THEN 1 ELSE 0) = os /\ os2 \in Nat
        <4>1. os2 \in Nat /\ os2 + One(own[t] = x) = os + One(own'[t] = x)
          BY <1>1, <1>3, <1>7, OwnChange
        <4>2. One(own[t] = x) = (IF q = x THEN 1 ELSE 0) /\ One(own'[t] = x) = 0
          BY <1>1, <1>3, <1>7 DEF One
        <4>3. os \in Nat
          BY <3>2
        <4> HIDE DEF os, os2
        <4> QED BY <4>1, <4>2, <4>3
      <3>5. ts2 = ts + (IF q = x THEN 1 ELSE 0) /\ ts2 \in Nat
        BY <1>1, <1>2, <1>3, <1>8, EndAdded DEF One
      <3> HIDE DEF c, d, dd, hs, os, es, ss, ts, os2, ts2
      <3> QED BY <3>1, <3>2, <3>3, <3>4, <3>5
    <2>2. s = r + (IF q = x THEN 1 ELSE 0)
      BY <1>1, <1>2, <1>3 DEF TypeInv, QueuesOK
    <2>3. /\ d \in Nat /\ n \in Nat /\ m \in Nat /\ e \in Nat /\ f \in Nat /\ r \in Int
          /\ r = d + n /\ (r > 0 => queueLife[x] = "live")
          /\ e > 0 => queueLife[x] = "live" /\ r = 0
          /\ e <= 1
      BY <1>1, <1>11, QueueFacts
    <2>4. m = n + (IF q = x THEN 1 ELSE 0) /\ f = e
      BY <1>13 DEF One
    <2>5. q = x => r > 0 /\ queueLife[x] = "live" /\ e = 0
      BY <1>4
    <2>6. queueLife'[x] = queueLife[x]
      BY <1>2
    <2> HIDE DEF d, c, n, m, e, f, r, s
    <2>7. /\ s = c + m /\ (s > 0 => queueLife'[x] = "live")
          /\ f > 0 => queueLife'[x] = "live" /\ s = 0
          /\ f <= 1
      BY <2>1, <2>2, <2>3, <2>4, <2>5, <2>6
    <2> QED BY <2>7 DEF QueueCount, Holders, Number, c, m, f, s
  <1>16. ASSUME NEW x \in Ports
         PROVE  PortCount(x)'
    <2> DEFINE d == Cardinality(ContextRefs(x))
               c == Cardinality(ContextRefs(x)')
               u == submitted[x]
               v == submitted'[x]
               n == Total({Item("port", x)}, todo, Threads)
               m == Total({Item("port", x)}, todo', Threads)
               e == Total({Item("erase", x)}, todo, Threads)
               f == Total({Item("erase", x)}, todo', Threads)
               r == portRefs[x]
               s == portRefs'[x]
    <2>1. c = d /\ v = u + (IF p = x THEN 1 ELSE 0)
      BY <1>1, <1>2, <1>5 DEF ContextRefs, TypeInv, PortsOK
    <2>2. s = r + (IF p = x THEN 1 ELSE 0)
      BY <1>1, <1>2, <1>5 DEF TypeInv, PortsOK
    <2>3. /\ d \in Nat /\ u \in Nat /\ n \in Nat /\ m \in Nat /\ e \in Nat /\ f \in Nat /\ r \in Int
          /\ r = d + u + n /\ (r > 0 => portLife[x] = "live")
          /\ e > 0 => portLife[x] = "live" /\ r = 0
          /\ e <= 1
      BY <1>1, <1>11, PortFacts
    <2>4. m = n /\ f = e
      BY <1>14
    <2>5. p = x => r > 0 /\ portLife[x] = "live" /\ e = 0
      BY <1>5
    <2>6. portLife'[x] = portLife[x]
      BY <1>2
    <2> HIDE DEF d, c, u, v, n, m, e, f, r, s
    <2>7. /\ s = c + v + m /\ (s > 0 => portLife'[x] = "live")
          /\ f > 0 => portLife'[x] = "live" /\ s = 0
          /\ f <= 1
      BY <2>1, <2>2, <2>3, <2>4, <2>5, <2>6
    <2> QED BY <2>7 DEF PortCount, Users, Number, c, v, m, f, s
  <1>17. ASSUME NEW x \in Queues
         PROVE  EndCount(x)'
    <2> DEFINE a == Cardinality(EndingRefs(x))
               b == Cardinality(EndingRefs(x)')
               g == Cardinality(EndRefs(x))
               j == Cardinality(EndRefs(x)')
               k == Total(EndItems(x), todo, Threads)
    <2>1. b + (IF q = x THEN 1 ELSE 0) = a /\ a \in Nat /\ b \in Nat /\ g \in Nat /\ k \in Nat
      <3>1. b \in Nat /\ b + One(pc[t] = "terminate" /\ own[t] = x)
                            = a + One(pc'[t] = "terminate" /\ own'[t] = x)
        BY <1>1, <1>7, EndingChange
      <3>2. /\ One(pc[t] = "terminate" /\ own[t] = x) = (IF q = x THEN 1 ELSE 0)
            /\ One(pc'[t] = "terminate" /\ own'[t] = x) = 0
        BY <1>2, <1>7 DEF One
      <3>3. a \in Nat /\ g \in Nat /\ k \in Nat
        BY <1>1, <1>11, CountTypes
      <3> HIDE DEF a, b, g, k
      <3> QED BY <3>1, <3>2, <3>3
    <2>2. a + g + k <= One(x \in ended)
      BY <1>1 DEF CountsOK, EndCount, Number
    <2>3. j = g + (IF q = x THEN 1 ELSE 0)
      BY <1>1, <1>2, <1>3, <1>8, EndAdded DEF One
    <2>4. Total(EndItems(x), todo', Threads) = k
      BY <1>13
    <2> HIDE DEF a, b, g, j, k
    <2>5. b + j + k <= One(x \in ended')
      BY <1>2, <2>1, <2>2, <2>3
    <2> QED BY <2>4, <2>5 DEF EndCount, Number, b, j
  <1>18. CountsOK'
    BY <1>1, <1>2, <1>14, <1>15, <1>16, <1>17, PoolsKept DEF CountsOK
  <1>19. OrderOK' /\ LinksOK'
    BY <1>1, <1>2, <1>9, <1>10, StillOrdered, LinksKept
  <1> QED BY <1>12, <1>18, <1>19 DEF LifeInv

-----------------------------------------------------------------------------
(* The pool's calls *)

\* A sequence with one more element
LEMMA OneMore ==
  ASSUME NEW s \in Seq(Things), NEW r \in Seq(Things), Len(r) = 1
  PROVE  /\ s \o r \in Seq(Things) /\ Len(s) \in Nat /\ Len(s \o r) = Len(s) + 1
         /\ (s \o r)[Len(s) + 1] = r[1]
         /\ \A k \in 1 .. Len(s) : (s \o r)[k] = s[k]
  <1>1. /\ s \o r \in Seq(Things) /\ Len(s \o r) = Len(s) + Len(r)
        /\ \A k \in 1 .. Len(s) + Len(r) : (s \o r)[k] = IF k <= Len(s) THEN s[k] ELSE r[k - Len(s)]
    BY ConcatProperties, Zenon
  <1>2. Len(s) + 1 \in 1 .. Len(s) + Len(r) /\ ~(Len(s) + 1 <= Len(s)) /\ (Len(s) + 1) - Len(s) = 1
    OBVIOUS
  <1>3. \A k \in 1 .. Len(s) : k \in 1 .. Len(s) + Len(r) /\ k <= Len(s)
    OBVIOUS
  <1>4. (s \o r)[Len(s) + 1] = r[1]
    BY <1>1, <1>2
  <1> QED BY <1>1, <1>3, <1>4

\* What a pool call goes on with is in order, and counted one by one.
LEMMA AfterEntryWeights ==
  ASSUME NEW p \in Ports
  PROVE  /\ AfterEntry(p) \in Seq(Things) /\ Ordered(AfterEntry(p))
         /\ \A K : Weight(K, AfterEntry(p))
                      = One(Item("signal", p) \in K) + One(Item("complete", p) \in K)
                          + One(Item("port", p) \in K) + One(Item("pool", p) \in K)
  <1> DEFINE a == Do("signal", p)
             b == Do("complete", p)
             c == Do("port", p)
             d == Do("pool", p)
  <1>1. /\ Item("signal", p) \in Things /\ Item("complete", p) \in Things
        /\ Item("port", p) \in Things /\ Item("pool", p) \in Things
    BY DEF Item, Things
  <1>2. a \in Seq(Things) /\ b \in Seq(Things) /\ c \in Seq(Things) /\ d \in Seq(Things)
    BY <1>1, DoWeights
  <1>3. AfterEntry(p) = a \o b \o c \o d
    BY DEF AfterEntry
  <1>4. AfterEntry(p) \in Seq(Things) /\ Ordered(AfterEntry(p))
    <2> DEFINE s == AfterEntry(p)
               ab == a \o b
               abc == ab \o c
    <2>1. /\ Len(a) = 1 /\ Len(b) = 1 /\ Len(c) = 1 /\ Len(d) = 1
          /\ a[1] = Item("signal", p) /\ b[1] = Item("complete", p)
          /\ c[1] = Item("port", p) /\ d[1] = Item("pool", p)
      BY DEF Do, Item
    <2> HIDE DEF a, b, c, d
    <2>2. ab \in Seq(Things) /\ Len(ab) = 2 /\ ab[1] = a[1] /\ ab[2] = b[1]
      BY <1>2, <2>1, OneMore
    <2>3. s = abc \o d
      BY <1>3
    <2> HIDE DEF ab
    <2>4. abc \in Seq(Things) /\ Len(abc) = 3 /\ abc[1] = ab[1] /\ abc[2] = ab[2] /\ abc[3] = c[1]
      <3>1. /\ ab \o c \in Seq(Things) /\ Len(ab \o c) = Len(ab) + 1 /\ (ab \o c)[Len(ab) + 1] = c[1]
            /\ \A k \in 1 .. Len(ab) : (ab \o c)[k] = ab[k]
        BY <1>2, <2>1, <2>2, OneMore
      <3> QED BY <2>2, <3>1
    <2> HIDE DEF abc, s
    <2>5. s \in Seq(Things) /\ Len(s) = 4 /\ s[1] = abc[1] /\ s[2] = abc[2] /\ s[3] = abc[3] /\ s[4] = d[1]
      <3>1. /\ abc \o d \in Seq(Things) /\ Len(abc \o d) = Len(abc) + 1 /\ (abc \o d)[Len(abc) + 1] = d[1]
            /\ \A k \in 1 .. Len(abc) : (abc \o d)[k] = abc[k]
        BY <1>2, <2>1, <2>4, OneMore
      <3> QED BY <2>3, <2>4, <3>1
    <2>6. /\ DOMAIN s = 1 .. 4 /\ s[1] = Item("signal", p) /\ s[2] = Item("complete", p)
          /\ s[3] = Item("port", p) /\ s[4] = Item("pool", p)
      BY <2>1, <2>2, <2>4, <2>5
    <2>7. ASSUME NEW k \in DOMAIN s, s[k].kind \in {"signal", "complete"}
          PROVE  \E j \in DOMAIN s : j > k /\ s[j] = Item("port", s[k].of)
      <3>1. k \in 1 .. 2 /\ s[k].of = p
        BY <2>6, <2>7 DEF Item
      <3> QED BY <2>6, <3>1
    <2> QED BY <2>5, <2>7 DEF Ordered, s
  <1>5. ASSUME NEW K
        PROVE  Weight(K, AfterEntry(p))
                  = One(Item("signal", p) \in K) + One(Item("complete", p) \in K)
                      + One(Item("port", p) \in K) + One(Item("pool", p) \in K)
    <2>1. /\ Weight(K, a) = One(Item("signal", p) \in K) /\ Weight(K, b) = One(Item("complete", p) \in K)
          /\ Weight(K, c) = One(Item("port", p) \in K) /\ Weight(K, d) = One(Item("pool", p) \in K)
      BY <1>1, DoWeights
    <2> DEFINE ab == a \o b
               abc == ab \o c
    <2>2. ab \in Seq(Things) /\ abc \in Seq(Things)
      BY <1>2, ConcatProperties
    <2>3. AfterEntry(p) = abc \o d
      BY DEF AfterEntry
    <2>4. Weight(K, ab) = Weight(K, a) + Weight(K, b)
      BY <1>2, WeightConcat
    <2> HIDE DEF ab
    <2>5. Weight(K, abc) = Weight(K, ab) + Weight(K, c)
      BY <1>2, <2>2, WeightConcat
    <2> HIDE DEF abc, a, b, c, d
    <2>6. Weight(K, abc \o d) = Weight(K, abc) + Weight(K, d)
      BY <1>2, <2>2, WeightConcat
    <2> QED BY <2>1, <2>3, <2>4, <2>5, <2>6
  <1> QED BY <1>4, <1>5

\* The reference of the pool's call to the port becomes a step, and one to the pool object
\* is new; the reference of the entry is the call's.
LEMMA CallPortKeeps ==
  ASSUME LifetimeConstants, LifeInv, NEW t \in Threads, NEW p \in Ports, CallPort(t, p)
  PROVE  LifeInv'
  <1> DEFINE q == Head(entries[p])
             steps == AfterEntry(p)
  <1>1. TypeInv /\ CountsOK /\ OrderOK /\ LinksOK
    BY DEF LifeInv
  <1>2. /\ UNCHANGED <<queueVars, portRefs, portLife, items, handles, ending, ended, process, default>>
        /\ submitted' = [submitted EXCEPT ![p] = @ - 1]
        /\ poolRefs' = [poolRefs EXCEPT ![p] = @ + 1]
        /\ todo' = [todo EXCEPT ![t] = steps \o @]
        /\ pc[t] = "idle" /\ submitted[p] > 0
        /\ \/ entries[p] = <<>> /\ UNCHANGED <<entries, own, pc>>
           \/ /\ entries[p] # <<>> /\ entries' = [entries EXCEPT ![p] = Tail(@)]
              /\ own' = [own EXCEPT ![t] = q] /\ pc' = [pc EXCEPT ![t] = "call"]
    BY DEF CallPort, GoOn, Own, Goto, Idle
  <1>3. /\ todo \in [Threads -> Seq(Things)] /\ entries \in [Ports -> Seq(Queues)]
        /\ own \in [Threads -> Queues \cup Handles \cup {"default", None}] /\ pc \in [Threads -> Labels]
        /\ own[t] = None /\ None \notin Queues /\ (entries[p] # <<>> => q \in Queues)
    BY <1>1, <1>2 DEF TypeInv, PortsOK, ThreadsOK, LifetimeConstants
  <1>4. portLife[p] = "live"
    BY <1>1, <1>2, PortHeld
  <1>5. /\ steps \in Seq(Things) /\ Ordered(steps)
        /\ \A K : Weight(K, steps)
                     = One(Item("signal", p) \in K) + One(Item("complete", p) \in K)
                         + One(Item("port", p) \in K) + One(Item("pool", p) \in K)
    BY AfterEntryWeights
  <1>6. /\ \/ entries[p] = <<>> /\ UNCHANGED <<entries, own, pc>>
           \/ /\ entries[p] # <<>> /\ entries' = [entries EXCEPT ![p] = Tail(@)]
              /\ own'[t] = q /\ pc'[t] = "call" /\ q \in Queues
        /\ \A u \in Threads \ {t} : own'[u] = own[u] /\ pc'[u] = pc[u]
    BY <1>2, <1>3
  <1>7. /\ pc' \in [Threads -> Labels]
        /\ own' \in [Threads -> Queues \cup Handles \cup {"default", None}]
        /\ entries' \in [Ports -> Seq(Queues)]
    <2>1. CASE entries[p] = <<>>
      BY <1>2, <1>3, <2>1
    <2>2. CASE entries[p] # <<>>
      <3>1. own' = [own EXCEPT ![t] = q] /\ pc' = [pc EXCEPT ![t] = "call"] /\ q \in Queues
        BY <1>2, <1>3, <2>2
      <3>2. entries' = [entries EXCEPT ![p] = Tail(@)] /\ Tail(entries[p]) \in Seq(Queues)
        BY <1>2, <1>3, <2>2
      <3> QED BY <1>3, <3>1, <3>2 DEF Labels
    <2> QED BY <2>1, <2>2
  <1> HIDE DEF q, steps
  <1>8. /\ todo' \in [Threads -> Seq(Things)] /\ todo'[t] = steps \o todo[t]
        /\ \A u \in Threads \ {t} : todo'[u] = todo[u]
    BY <1>2, <1>3, <1>5, ConcatProperties
  <1>9. Ordered(todo'[t])
    BY <1>1, <1>3, <1>5, <1>8, OrderedConcat DEF OrderOK
  <1>10. \A K : /\ Total(K, todo', Threads)
                     = Total(K, todo, Threads) + One(Item("signal", p) \in K)
                           + One(Item("complete", p) \in K) + One(Item("port", p) \in K)
                           + One(Item("pool", p) \in K)
               /\ Total(K, todo', Threads) \in Nat /\ Total(K, todo, Threads) \in Nat
    <2>1. \A K : Total(K, todo', Threads)
                    = Total(K, todo, Threads) + Weight(K, steps)
      BY <1>3, <1>5, <1>8, Pushed
    <2>2. \A K : Total(K, todo', Threads) \in Nat /\ Total(K, todo, Threads) \in Nat
      BY <1>3, <1>8, TodoType
    <2>3. ASSUME NEW K
          PROVE  Total(K, todo', Threads)
                     = Total(K, todo, Threads) + One(Item("signal", p) \in K)
                           + One(Item("complete", p) \in K) + One(Item("port", p) \in K)
                           + One(Item("pool", p) \in K)
      <3> DEFINE a == Total(K, todo', Threads)
                 b == Total(K, todo, Threads)
                 g == Weight(K, steps)
                 i1 == One(Item("signal", p) \in K)
                 i2 == One(Item("complete", p) \in K)
                 i3 == One(Item("port", p) \in K)
                 i4 == One(Item("pool", p) \in K)
      <3>1. g = i1 + i2 + i3 + i4
        BY <1>5
      <3>2. a = b + g /\ a \in Nat /\ b \in Nat
        BY <2>1, <2>2
      <3>3. i1 \in Nat /\ i2 \in Nat /\ i3 \in Nat /\ i4 \in Nat
        BY OneType
      <3> HIDE DEF a, b, g, i1, i2, i3, i4
      <3>4. a = b + i1 + i2 + i3 + i4
        BY <3>1, <3>2, <3>3
      <3> QED BY <3>4 DEF a, b, i1, i2, i3, i4
    <2> QED BY <2>2, <2>3
  <1>11. TypeInv'
    <2>1. ThreadsOK'
      <3>1. /\ pc' \in [Threads -> Labels]
            /\ own' \in [Threads -> Queues \cup Handles \cup {"default", None}]
        BY <1>7
      <3>2. ASSUME NEW u \in Threads
            PROVE  /\ pc'[u] \in {"submit", "terminate", "call"} <=> own'[u] \in Queues
                   /\ pc'[u] = "idle" <=> own'[u] = None
                   /\ pc'[u] = "default" => own'[u] = "default"
                   /\ pc'[u] \in {"default", "duplicate"} => u \in Clients
                   /\ pc'[u] = "duplicate" =>
                        \/ own'[u] = "default" /\ default' \in Queues
                        \/ own'[u] \in Handles /\ own'[u] = process'
        <4>1. CASE u = t
          BY <1>2, <1>3, <1>6, <4>1
        <4>2. CASE u # t
          BY <1>1, <1>2, <1>6, <4>2 DEF TypeInv, ThreadsOK
        <4> QED BY <4>1, <4>2
      <3>3. process' \in Handles => handles'[process'].queue \in Queues /\ handles'[process'].user = None
        BY <1>1, <1>2 DEF TypeInv, ThreadsOK
      <3> QED BY <1>8, <3>1, <3>2, <3>3 DEF ThreadsOK
    <2>2. QueuesOK'
      BY <1>1, <1>2 DEF TypeInv, QueuesOK, queueVars
    <2>3. PortsOK'
      <3>1. submitted' \in [Ports -> Nat] /\ poolRefs' \in [Ports -> Int]
        BY <1>1, <1>2 DEF TypeInv, PortsOK
      <3> QED BY <1>1, <1>2, <1>7, <3>1 DEF TypeInv, PortsOK
    <2>4. OthersOK'
      BY <1>1, <1>2 DEF TypeInv, OthersOK
    <2> QED BY <2>1, <2>2, <2>3, <2>4 DEF TypeInv
  <1>12. ASSUME NEW x \in Queues
        PROVE  /\ Total(QueueItems(x), todo', Threads) = Total(QueueItems(x), todo, Threads)
               /\ Total(EndItems(x), todo', Threads) = Total(EndItems(x), todo, Threads)
               /\ Total({Item("delete", x)}, todo', Threads)
                     = Total({Item("delete", x)}, todo, Threads)
    <2>1. /\ One(Item("signal", p) \in QueueItems(x)) = 0
          /\ One(Item("complete", p) \in QueueItems(x)) = 0
          /\ One(Item("port", p) \in QueueItems(x)) = 0
          /\ One(Item("pool", p) \in QueueItems(x)) = 0
          /\ One(Item("signal", p) \in EndItems(x)) = 0
          /\ One(Item("complete", p) \in EndItems(x)) = 0
          /\ One(Item("port", p) \in EndItems(x)) = 0
          /\ One(Item("pool", p) \in EndItems(x)) = 0
          /\ One(Item("signal", p) \in {Item("delete", x)}) = 0
          /\ One(Item("complete", p) \in {Item("delete", x)}) = 0
          /\ One(Item("port", p) \in {Item("delete", x)}) = 0
          /\ One(Item("pool", p) \in {Item("delete", x)}) = 0
      BY PlainStep DEF One
    <2> QED BY <1>10, <2>1, OneType
  <1>13. ASSUME NEW x \in Ports
        PROVE  /\ Total({Item("port", x)}, todo', Threads)
                     = Total({Item("port", x)}, todo, Threads) + One(p = x)
               /\ Total({Item("erase", x)}, todo', Threads)
                     = Total({Item("erase", x)}, todo, Threads)
               /\ Total({Item("pool", x)}, todo', Threads)
                     = Total({Item("pool", x)}, todo, Threads) + One(p = x)
    <2>1. /\ One(Item("signal", p) \in {Item("port", x)}) = 0
          /\ One(Item("complete", p) \in {Item("port", x)}) = 0
          /\ One(Item("port", p) \in {Item("port", x)}) = One(p = x)
          /\ One(Item("pool", p) \in {Item("port", x)}) = 0
          /\ One(Item("signal", p) \in {Item("erase", x)}) = 0
          /\ One(Item("complete", p) \in {Item("erase", x)}) = 0
          /\ One(Item("port", p) \in {Item("erase", x)}) = 0
          /\ One(Item("pool", p) \in {Item("erase", x)}) = 0
          /\ One(Item("signal", p) \in {Item("pool", x)}) = 0
          /\ One(Item("complete", p) \in {Item("pool", x)}) = 0
          /\ One(Item("port", p) \in {Item("pool", x)}) = 0
          /\ One(Item("pool", p) \in {Item("pool", x)}) = One(p = x)
      BY PlainStep DEF One
    <2> QED BY <1>10, <2>1, OneType
  <1>14. ASSUME NEW x \in Queues
         PROVE  Direct(x)' = Direct(x)
    <2>1. CASE entries[p] = <<>>
      BY <1>2, <1>6, <2>1 DEF Direct, HandleRefs, OwnRefs, SourceRefs, EndRefs, queueVars
    <2>2. CASE entries[p] # <<>>
      <3> DEFINE dd == One(default = x)
                 hs == Cardinality(HandleRefs(x))
                 os == Cardinality(OwnRefs(x))
                 es == Total({x}, entries, Ports)
                 ss == Cardinality(SourceRefs(x))
                 ts == Cardinality(EndRefs(x))
                 os2 == Cardinality(OwnRefs(x)')
                 es2 == Total({x}, entries', Ports)
                 o == One(q = x)
      <3>1. Direct(x) = dd + hs + os + es + ss + ts
        BY DEF Direct
      <3>2. /\ dd \in Nat /\ hs \in Nat /\ os \in Nat /\ es \in Nat /\ ss \in Nat /\ ts \in Nat
        BY <1>1, CountTypes
      <3>3. Direct(x)' = dd + hs + os2 + es2 + ss + ts
        BY <1>2 DEF Direct, HandleRefs, SourceRefs, EndRefs, queueVars
      <3>4. os2 \in Nat /\ os2 + One(own[t] = x) = os + One(own'[t] = x)
        BY <1>1, <1>6, OwnChange
      <3>5. One(own[t] = x) = 0 /\ One(own'[t] = x) = o /\ o \in Nat
        BY <1>3, <1>6, <2>2 DEF One
      <3>6. es2 \in Nat /\ es2 + o = es
        BY <1>1, <1>6, <2>2, EntryTaken DEF q
      <3> HIDE DEF dd, hs, os, es, ss, ts, os2, es2, o
      <3>7. dd + hs + os2 + es2 + ss + ts = dd + hs + os + es + ss + ts
        BY <3>2, <3>4, <3>5, <3>6
      <3> QED BY <3>1, <3>3, <3>7
    <2> QED BY <2>1, <2>2
  <1>15. ASSUME NEW x \in Queues
         PROVE  QueueCount(x)' /\ EndCount(x)'
    <2>1. QueueCount(x) /\ EndCount(x)
      BY <1>1 DEF CountsOK
    <2>2. QueueCount(x)'
      BY <1>2, <1>12, <1>14, <2>1 DEF QueueCount, Holders, Number, queueVars
    <2>3. EndingRefs(x)' = EndingRefs(x) /\ EndRefs(x)' = EndRefs(x)
      BY <1>2, <1>6 DEF EndingRefs, EndRefs
    <2>4. EndCount(x)'
      BY <1>2, <1>12, <2>1, <2>3 DEF EndCount, Number
    <2> QED BY <2>2, <2>4
  <1>16. ASSUME NEW x \in Ports
         PROVE  PortCount(x)'
    <2> DEFINE d == Cardinality(ContextRefs(x))
               c == Cardinality(ContextRefs(x)')
               u == submitted[x]
               v == submitted'[x]
               n == Total({Item("port", x)}, todo, Threads)
               m == Total({Item("port", x)}, todo', Threads)
               e == Total({Item("erase", x)}, todo, Threads)
               f == Total({Item("erase", x)}, todo', Threads)
               r == portRefs[x]
               s == portRefs'[x]
    <2>1. c = d /\ v + (IF p = x THEN 1 ELSE 0) = u /\ v \in Nat
      BY <1>1, <1>2 DEF ContextRefs, TypeInv, PortsOK, queueVars
    <2>2. s = r
      BY <1>2
    <2>3. /\ d \in Nat /\ u \in Nat /\ n \in Nat /\ m \in Nat /\ e \in Nat /\ f \in Nat /\ r \in Int
          /\ r = d + u + n /\ (r > 0 => portLife[x] = "live")
          /\ e > 0 => portLife[x] = "live" /\ r = 0
          /\ e <= 1
      BY <1>1, <1>10, PortFacts
    <2>4. m = n + (IF p = x THEN 1 ELSE 0) /\ f = e
      BY <1>13 DEF One
    <2>5. portLife'[x] = portLife[x]
      BY <1>2
    <2> HIDE DEF d, c, u, v, n, m, e, f, r, s
    <2>6. /\ s = c + v + m /\ (s > 0 => portLife'[x] = "live")
          /\ f > 0 => portLife'[x] = "live" /\ s = 0
          /\ f <= 1
      BY <2>1, <2>2, <2>3, <2>4, <2>5
    <2> QED BY <2>6 DEF PortCount, Users, Number, c, v, m, f, s
  <1>17. ASSUME NEW x \in Ports
         PROVE  PoolCount(x)'
    <2> DEFINE l == One(portLife[x] = "live")
               n == Total({Item("pool", x)}, todo, Threads)
               m == Total({Item("pool", x)}, todo', Threads)
               r == poolRefs[x]
               s == poolRefs'[x]
               o == One(p = x)
    <2>1. /\ r \in Int /\ n \in Nat /\ l \in {0, 1} /\ r = l + n
          /\ portLife[x] = "none" => r = 0
      BY <1>1, PoolFacts
    <2>2. s = r + o /\ o \in {0, 1} /\ (p = x <=> o = 1)
      BY <1>1, <1>2 DEF TypeInv, PortsOK, One
    <2>3. m = n + o
      BY <1>13
    <2> HIDE DEF l, n, m, r, s, o
    <2>4. s = l + m /\ (portLife[x] = "none" => s = 0)
      BY <1>4, <2>1, <2>2, <2>3
    <2> QED BY <1>2, <2>4 DEF PoolCount, Number, l, m, s
  <1>18. CountsOK'
    BY <1>15, <1>16, <1>17 DEF CountsOK
  <1>19. OrderOK' /\ LinksOK'
    BY <1>1, <1>2, <1>8, <1>9, StillOrdered, LinksKept DEF queueVars
  <1> QED BY <1>11, <1>18, <1>19 DEF LifeInv

\* The terminations that a call takes from its port, in any order
EndedList(D) == [k \in 1 .. Cardinality(D) |-> [kind |-> "ended", of |-> SetToSeq(D)[k]]]

Ending(D, x) == {e \in D : e[1] = x}

\* It holds a queue as often as there are terminations of it.
LEMMA EndedWeights ==
  ASSUME LifetimeConstants, NEW D \in SUBSET Ports
  PROVE  /\ EndedList(D) \in Seq(Things) /\ Ordered(EndedList(D))
         /\ \A x : /\ IsFiniteSet(Ending(D, x)) /\ Cardinality(Ending(D, x)) \in Nat
                   /\ Weight(QueueItems(x), EndedList(D)) = Cardinality(Ending(D, x))
                   /\ Weight(EndItems(x), EndedList(D)) = Cardinality(Ending(D, x))
         /\ \A k, o : k # "ended" => Weight({Item(k, o)}, EndedList(D)) = 0
  <1> DEFINE n == Cardinality(D)
             f == SetToSeq(D)
             s == EndedList(D)
  <1>1. IsFiniteSet(D)
    BY FinitePorts, FS_Subset
  <1>2. n \in Nat /\ f \in Injection(1 .. n, D)
    <2>1. n \in Nat /\ Bijection(1 .. n, D) # {}
      BY <1>1, FS_CardinalityType DEF ExistsBijection
    <2>2. \E g \in [1 .. n -> D] : IsInjective(g)
      BY <2>1 DEF Bijection, Injection
    <2>3. f \in [1 .. n -> D] /\ IsInjective(f)
      BY <2>2 DEF SetToSeq
    <2> QED BY <2>1, <2>3 DEF Injection
  <1>3. f \in Surjection(1 .. n, D)
    <2> DEFINE T == {f[k] : k \in 1 .. n}
    <2>1. f \in [1 .. n -> D] /\ \A j, k \in 1 .. n : f[j] = f[k] => j = k
      BY <1>2 DEF Injection, IsInjective
    <2>2. n = Cardinality(D)
      OBVIOUS
    <2> HIDE DEF n, f, s
    <2>3. f \in [1 .. n -> T] /\ T \subseteq D /\ \A e \in T : \E k \in 1 .. n : f[k] = e
      BY <2>1
    <2> HIDE DEF T
    <2>4. f \in Bijection(1 .. n, T)
      BY <2>1, <2>3 DEF Bijection, Injection, Surjection, IsInjective
    <2>5. IsFiniteSet(1 .. n) /\ Cardinality(1 .. n) = n
      BY <1>2, FS_Interval
    <2>6. Cardinality(T) = n
      BY <2>4, <2>5, FS_Bijection DEF ExistsBijection
    <2>7. T = D
      BY <1>1, <2>2, <2>3, <2>6, FS_Subset
    <2> QED BY <2>1, <2>3, <2>7 DEF Surjection
  <1>4. /\ f \in [1 .. n -> D] /\ \A e \in D : \E k \in 1 .. n : f[k] = e
        /\ \A j, k \in 1 .. n : f[j] = f[k] => j = k
    BY <1>2, <1>3 DEF Injection, Surjection, IsInjective
  <1> HIDE DEF f
  <1>5. s = [k \in 1 .. n |-> Item("ended", f[k])]
    BY DEF EndedList, Item, f
  <1> HIDE DEF n, s
  <1>6. /\ s \in Seq(Things) /\ Len(s) = n /\ DOMAIN s = 1 .. n
        /\ \A k \in 1 .. n : s[k] = Item("ended", f[k]) /\ f[k] \in Ports
    <2>1. \A k \in 1 .. n : f[k] \in Ports /\ Item("ended", f[k]) \in Things
      BY <1>4 DEF Things, Item
    <2>2. s \in [1 .. n -> Things]
      BY <1>5, <2>1
    <2>3. s \in Seq(Things) /\ Len(s) = n
      BY <1>2, <2>2
    <2> QED BY <1>5, <2>1, <2>3
  <1>7. Ordered(s)
    BY <1>6, OrderedPlain DEF Item
  <1>8. ASSUME NEW x
        PROVE  /\ IsFiniteSet(Ending(D, x)) /\ Cardinality(Ending(D, x)) \in Nat
               /\ Weight(QueueItems(x), s) = Cardinality(Ending(D, x))
               /\ Weight(EndItems(x), s) = Cardinality(Ending(D, x))
    <2> DEFINE P == {k \in 1 .. n : f[k][1] = x}
               E == Ending(D, x)
               g == [k \in P |-> f[k]]
    <2>1. IsFiniteSet(P)
      BY <1>2, FS_Interval, FS_Subset
    <2>2. g \in Bijection(P, E)
      <3>1. g \in [P -> E] /\ \A e \in E : \E k \in P : g[k] = e
        BY <1>4 DEF Ending
      <3>2. \A j, k \in P : g[j] = g[k] => j = k
        BY <1>4
      <3> HIDE DEF g, P, E
      <3> QED BY <3>1, <3>2 DEF Bijection, Injection, Surjection, IsInjective
    <2>3. ASSUME NEW k \in 1 .. n
          PROVE  /\ s[k] \in QueueItems(x) <=> f[k][1] = x
                 /\ s[k] \in EndItems(x) <=> f[k][1] = x
      <3>1. PICK y \in Types : f[k] = <<f[k][1], y>>
        BY <1>6 DEF Ports
      <3> DEFINE a == f[k][1]
      <3>2. s[k] = Item("ended", <<a, y>>)
        BY <1>6, <3>1
      <3> HIDE DEF a
      <3>3. /\ One(Item("ended", <<a, y>>) \in QueueItems(x)) = One(a = x)
            /\ One(Item("ended", <<a, y>>) \in EndItems(x)) = One(a = x)
        BY EndedStep
      <3>4. Item("ended", <<a, y>>) \in QueueItems(x) <=> a = x
        BY <3>3 DEF One
      <3>5. Item("ended", <<a, y>>) \in EndItems(x) <=> a = x
        BY <3>3 DEF One
      <3> QED BY <3>2, <3>4, <3>5 DEF a
    <2>4. Positions(QueueItems(x), s) = P /\ Positions(EndItems(x), s) = P
      BY <1>6, <2>3 DEF Positions
    <2> HIDE DEF P, g, E
    <2>5. IsFiniteSet(E) /\ Cardinality(E) = Cardinality(P) /\ Cardinality(E) \in Nat
      BY <2>1, <2>2, FS_Bijection, FS_CardinalityType DEF ExistsBijection
    <2> QED BY <2>4, <2>5 DEF Weight, E
  <1>9. ASSUME NEW k, NEW o, k # "ended"
        PROVE  Weight({Item(k, o)}, s) = 0
    <2>1. \A j \in 1 .. n : s[j] \notin {Item(k, o)}
      BY <1>6, <1>9 DEF Item
    <2>2. Positions({Item(k, o)}, s) = {}
      BY <1>6, <2>1 DEF Positions
    <2> QED BY <2>2, FS_EmptySet DEF Weight
  <1> QED BY <1>6, <1>7, <1>8, <1>9 DEF s

\* The references of the terminations become steps.
LEMMA TakeTerminationsKeeps ==
  ASSUME LifetimeConstants, LifeInv, NEW t \in Threads, TakeTerminations(t)
  PROVE  LifeInv'
  <1> DEFINE p == Head(todo[t]).of
             calls == {u \in Threads : pc[u] = "call" /\ Do("complete", p)[1] \in Range(todo[u])}
             due == {e \in ending : entries[p] = <<>> /\ calls = {} /\ ports[e[1]][e[2]] = p}
             steps == EndedList(due)
  <1>1. TypeInv /\ CountsOK /\ OrderOK /\ LinksOK
    BY DEF LifeInv
  <1>2. /\ UNCHANGED <<queueVars, portVars, handles, ended, process, default, pc, own>>
        /\ ending' = ending \ due
        /\ todo' = [todo EXCEPT ![t] = steps \o Tail(@)]
        /\ Doing(t, "signal")
    BY DEF TakeTerminations, EndedList
  <1>3. /\ todo \in [Threads -> Seq(Things)] /\ todo[t] # <<>> /\ Head(todo[t]) = Item("signal", p)
        /\ p \in Ports /\ due \subseteq ending /\ due \in SUBSET Ports
    BY <1>1, <1>2, NextStep DEF TypeInv, OthersOK
  <1> HIDE DEF p, calls, due
  <1>4. /\ steps \in Seq(Things) /\ Ordered(steps)
        /\ \A x : /\ IsFiniteSet(Ending(due, x)) /\ Cardinality(Ending(due, x)) \in Nat
                  /\ Weight(QueueItems(x), steps) = Cardinality(Ending(due, x))
                  /\ Weight(EndItems(x), steps) = Cardinality(Ending(due, x))
        /\ \A k, o : k # "ended" => Weight({Item(k, o)}, steps) = 0
    BY <1>3, EndedWeights
  <1> HIDE DEF steps
  <1>5. /\ todo' \in [Threads -> Seq(Things)] /\ todo'[t] = steps \o Tail(todo[t])
        /\ \A u \in Threads \ {t} : todo'[u] = todo[u]
    BY <1>2, <1>3, <1>4, ConcatProperties
  <1>6. Ordered(todo'[t])
    <2>1. Tail(todo[t]) \in Seq(Things) /\ Ordered(Tail(todo[t]))
      BY <1>1, <1>3, OrderedTail DEF OrderOK
    <2> QED BY <1>4, <1>5, <2>1, OrderedConcat
  <1>7. \A K : /\ Total(K, todo', Threads) + One(Item("signal", p) \in K)
                     = Total(K, todo, Threads) + Weight(K, steps)
               /\ Total(K, todo', Threads) \in Nat /\ Total(K, todo, Threads) \in Nat
    <2>1. \A K : Total(K, todo', Threads) + One(Item("signal", p) \in K)
                    = Total(K, todo, Threads) + Weight(K, steps)
      BY <1>3, <1>4, <1>5, Popped
    <2>2. \A K : Total(K, todo', Threads) \in Nat /\ Total(K, todo, Threads) \in Nat
      BY <1>3, <1>5, TodoType
    <2> QED BY <2>1, <2>2
  <1>8. TypeInv'
    <2>1. OthersOK'
      BY <1>1, <1>2 DEF TypeInv, OthersOK
    <2> QED BY <1>1, <1>2, <1>5, <2>1
         DEF TypeInv, QueuesOK, PortsOK, ThreadsOK, queueVars, portVars
  <1>9. ASSUME NEW x \in Queues
        PROVE  /\ Total(QueueItems(x), todo', Threads)
                     = Total(QueueItems(x), todo, Threads) + Cardinality(Ending(due, x))
               /\ Total(EndItems(x), todo', Threads)
                     = Total(EndItems(x), todo, Threads) + Cardinality(Ending(due, x))
               /\ Total({Item("delete", x)}, todo', Threads) = Total({Item("delete", x)}, todo, Threads)
    <2>1. /\ One(Item("signal", p) \in QueueItems(x)) = 0
          /\ One(Item("signal", p) \in EndItems(x)) = 0
          /\ One(Item("signal", p) \in {Item("delete", x)}) = 0
      BY PlainStep DEF One
    <2>2. Weight({Item("delete", x)}, steps) = 0
      BY <1>4
    <2> QED BY <1>4, <1>7, <2>1, <2>2
  <1>10. ASSUME NEW x \in Ports
         PROVE  /\ Total({Item("port", x)}, todo', Threads) = Total({Item("port", x)}, todo, Threads)
                /\ Total({Item("erase", x)}, todo', Threads) = Total({Item("erase", x)}, todo, Threads)
                /\ Total({Item("pool", x)}, todo', Threads) = Total({Item("pool", x)}, todo, Threads)
    <2>1. /\ One(Item("signal", p) \in {Item("port", x)}) = 0
          /\ One(Item("signal", p) \in {Item("erase", x)}) = 0
          /\ One(Item("signal", p) \in {Item("pool", x)}) = 0
      BY PlainStep DEF One
    <2>2. /\ Weight({Item("port", x)}, steps) = 0 /\ Weight({Item("erase", x)}, steps) = 0
          /\ Weight({Item("pool", x)}, steps) = 0
      BY <1>4
    <2> QED BY <1>7, <2>1, <2>2
  <1>11. ASSUME NEW x \in Queues
         PROVE  /\ Cardinality(EndRefs(x)') \in Nat
                /\ Cardinality(EndRefs(x)') + Cardinality(Ending(due, x)) = Cardinality(EndRefs(x))
    <2> DEFINE A == EndRefs(x)'
               B == Ending(due, x)
    <2>1. A = {e \in ending' : e[1] = x}
      BY DEF EndRefs
    <2>2. EndRefs(x) = A \cup B /\ A \cap B = {}
      BY <1>2, <1>3, <2>1 DEF EndRefs, Ending
    <2>3. IsFiniteSet(EndRefs(x))
      BY <1>1, CountTypes
    <2> HIDE DEF A, B
    <2>4. IsFiniteSet(A) /\ IsFiniteSet(B) /\ Cardinality(A) \in Nat /\ Cardinality(B) \in Nat
      BY <2>2, <2>3, FS_Subset, FS_CardinalityType
    <2>5. Cardinality(A \cup B) = Cardinality(A) + Cardinality(B) - Cardinality(A \cap B)
      BY <2>4, FS_Union
    <2>6. Cardinality(A \cap B) = 0
      BY <2>2, FS_EmptySet
    <2> QED BY <2>2, <2>4, <2>5, <2>6 DEF A, B
  <1>12. ASSUME NEW x \in Queues
         PROVE  QueueCount(x)'
    <2> DEFINE d == Direct(x)
               c == Direct(x)'
               n == Total(QueueItems(x), todo, Threads)
               m == Total(QueueItems(x), todo', Threads)
               e == Total({Item("delete", x)}, todo, Threads)
               f == Total({Item("delete", x)}, todo', Threads)
               r == queueRefs[x]
               s == queueRefs'[x]
    <2>1. c + Cardinality(Ending(due, x)) = d /\ c \in Nat
      <3> DEFINE dd == One(default = x)
                 hs == Cardinality(HandleRefs(x))
                 os == Cardinality(OwnRefs(x))
                 es == Total({x}, entries, Ports)
                 ss == Cardinality(SourceRefs(x))
                 ts == Cardinality(EndRefs(x))
                 ts2 == Cardinality(EndRefs(x)')
      <3>1. d = dd + hs + os + es + ss + ts
        BY DEF Direct
      <3>2. /\ dd \in Nat /\ hs \in Nat /\ os \in Nat /\ es \in Nat /\ ss \in Nat /\ ts \in Nat
        BY <1>1, CountTypes
      <3>3. c = dd + hs + os + es + ss + ts2
        BY <1>2 DEF Direct, HandleRefs, OwnRefs, SourceRefs, queueVars, portVars
      <3>4. ts2 + Cardinality(Ending(due, x)) = ts /\ ts2 \in Nat
        BY <1>11
      <3> HIDE DEF c, d, dd, hs, os, es, ss, ts, ts2
      <3> QED BY <1>4, <3>1, <3>2, <3>3, <3>4
    <2>2. s = r
      BY <1>2 DEF queueVars
    <2>3. /\ d \in Nat /\ n \in Nat /\ m \in Nat /\ e \in Nat /\ f \in Nat /\ r \in Int
          /\ r = d + n /\ (r > 0 => queueLife[x] = "live")
          /\ e > 0 => queueLife[x] = "live" /\ r = 0
          /\ e <= 1
      BY <1>1, <1>7, QueueFacts
    <2>4. m = n + Cardinality(Ending(due, x)) /\ f = e /\ Cardinality(Ending(due, x)) \in Nat
      BY <1>4, <1>9
    <2>5. queueLife'[x] = queueLife[x]
      BY <1>2 DEF queueVars
    <2> HIDE DEF d, c, n, m, e, f, r, s
    <2>6. /\ s = c + m /\ (s > 0 => queueLife'[x] = "live")
          /\ f > 0 => queueLife'[x] = "live" /\ s = 0
          /\ f <= 1
      BY <2>1, <2>2, <2>3, <2>4, <2>5
    <2> QED BY <2>6 DEF QueueCount, Holders, Number, c, m, f, s
  <1>13. ASSUME NEW x \in Queues
         PROVE  EndCount(x)'
    <2> DEFINE a == Cardinality(EndingRefs(x))
               g == Cardinality(EndRefs(x))
               j == Cardinality(EndRefs(x)')
               k == Total(EndItems(x), todo, Threads)
               l == Total(EndItems(x), todo', Threads)
               n == Cardinality(Ending(due, x))
    <2>1. a \in Nat /\ g \in Nat /\ j \in Nat /\ k \in Nat /\ l \in Nat /\ n \in Nat
      BY <1>1, <1>4, <1>7, <1>11, CountTypes
    <2>2. a + g + k <= One(x \in ended)
      BY <1>1 DEF CountsOK, EndCount, Number
    <2>3. j + n = g /\ l = k + n
      BY <1>9, <1>11
    <2>4. EndingRefs(x)' = EndingRefs(x)
      BY <1>2 DEF EndingRefs
    <2>5. One(x \in ended) \in {0, 1} /\ ended' = ended
      BY <1>2, OneType
    <2> HIDE DEF a, g, j, k, l, n
    <2>6. a + j + l <= One(x \in ended)
      BY <2>1, <2>2, <2>3, <2>5
    <2> QED BY <2>4, <2>5, <2>6 DEF EndCount, Number, a, j, l
  <1>14. CountsOK'
    BY <1>1, <1>2, <1>10, <1>12, <1>13, PortsKept, PoolsKept DEF CountsOK, queueVars, portVars
  <1>15. OrderOK' /\ LinksOK'
    BY <1>1, <1>2, <1>5, <1>6, StillOrdered, LinksKept DEF queueVars, portVars
  <1> QED BY <1>8, <1>14, <1>15 DEF LifeInv

\* The reference of the termination goes on to its completion level; that of the call
\* becomes a step.
LEMMA CallWorkTerminationKeeps ==
  ASSUME LifetimeConstants, LifeInv, NEW t \in Threads, CallTermination(t), Head(todo[t]).of[2] = "Work"
  PROVE  LifeInv'
  <1> DEFINE q == Head(todo[t]).of[1]
             p == ports[q]["Completion"]
             steps == Do("queue", q)
  <1>1. TypeInv /\ CountsOK /\ OrderOK /\ LinksOK
    BY DEF LifeInv
  <1>2. /\ UNCHANGED <<queueLife, ports, sources, attached, portLife, entries, poolRefs, items,
                       handles, ended, process, default, pc, own>>
        /\ queueRefs' = [queueRefs EXCEPT ![q] = @ + 1]
        /\ portRefs' = [portRefs EXCEPT ![p] = @ + 1]
        /\ submitted' = [submitted EXCEPT ![p] = @ + 1]
        /\ ending' = ending \cup {<<q, "Completion">>}
        /\ todo' = [todo EXCEPT ![t] = steps \o Tail(@)]
        /\ Doing(t, "ended")
    BY DEF CallTermination, Schedule, NotifyPool
  <1>3. /\ todo \in [Threads -> Seq(Things)] /\ todo[t] # <<>> /\ 1 \in DOMAIN todo[t]
        /\ todo[t][1] = Head(todo[t]) /\ Head(todo[t]) = Item("ended", Head(todo[t]).of)
        /\ Head(todo[t]).of \in Ports
    BY <1>1, <1>2, NextStep
  <1>4. PICK y \in Types : q \in Queues /\ Head(todo[t]) = Item("ended", <<q, y>>)
    <2>1. \A e \in Ports : e[1] \in Queues /\ e[2] \in Types /\ e = <<e[1], e[2]>>
      BY DEF Ports
    <2> QED BY <1>3, <2>1
  <1> HIDE DEF q, p
  <1>5. /\ todo[t][1] \in QueueItems(q) /\ todo[t][1] \in EndItems(q)
    <2>1. /\ One(Item("ended", <<q, y>>) \in QueueItems(q)) = One(q = q)
          /\ One(Item("ended", <<q, y>>) \in EndItems(q)) = One(q = q)
      BY <1>4, EndedStep
    <2> QED BY <1>3, <1>4, <2>1 DEF One
  <1>6. queueRefs[q] > 0 /\ queueLife[q] = "live" /\ Total({Item("delete", q)}, todo, Threads) = 0
    BY <1>1, <1>3, <1>4, <1>5, Held DEF Number
  <1>7. /\ p \in Ports /\ portRefs[p] > 0 /\ portLife[p] = "live"
        /\ Total({Item("erase", p)}, todo, Threads) = 0
    BY <1>4, <1>6, LivePorts DEF Number, Types, p
  <1>8. <<q, "Completion">> \notin ending /\ "Completion" \in Types
    <2>1. Number(EndItems(q)) > 0
      BY <1>1, <1>3, <1>5, StepSeen
    <2>2. <<q, "Completion">>[1] = q
      OBVIOUS
    <2> QED BY <1>1, <1>4, <2>1, <2>2, OneEnd DEF Types, Number
  <1>9. /\ steps \in Seq(Things) /\ Ordered(steps)
        /\ \A K : Weight(K, steps) = One(Item("queue", q) \in K)
    <2>1. Item("queue", q) \in Things
      BY <1>4 DEF Item, Things
    <2> QED BY <2>1, DoWeights
  <1> HIDE DEF steps
  <1>10. /\ todo' \in [Threads -> Seq(Things)] /\ todo'[t] = steps \o Tail(todo[t])
         /\ \A u \in Threads \ {t} : todo'[u] = todo[u]
    BY <1>2, <1>3, <1>9, ConcatProperties
  <1>11. Ordered(todo'[t])
    <2>1. Tail(todo[t]) \in Seq(Things) /\ Ordered(Tail(todo[t]))
      BY <1>1, <1>3, OrderedTail DEF OrderOK
    <2> QED BY <1>9, <1>10, <2>1, OrderedConcat
  <1>12. \A K : /\ Total(K, todo', Threads) + One(Item("ended", <<q, y>>) \in K)
                     = Total(K, todo, Threads) + One(Item("queue", q) \in K)
               /\ Total(K, todo', Threads) \in Nat /\ Total(K, todo, Threads) \in Nat
    <2>1. \A K : Total(K, todo', Threads) + One(Item("ended", <<q, y>>) \in K)
                    = Total(K, todo, Threads) + Weight(K, steps)
      <3>1. \A K : Total(K, todo', Threads) + One(Head(todo[t]) \in K)
                      = Total(K, todo, Threads) + Weight(K, steps)
        BY <1>3, <1>9, <1>10, Popped
      <3> QED BY <1>4, <3>1
    <2>2. \A K : Total(K, todo', Threads) \in Nat /\ Total(K, todo, Threads) \in Nat
      BY <1>3, <1>10, TodoType
    <2>3. ASSUME NEW K
          PROVE  Total(K, todo', Threads) + One(Item("ended", <<q, y>>) \in K)
                     = Total(K, todo, Threads) + One(Item("queue", q) \in K)
      <3> DEFINE a == Total(K, todo', Threads)
                 b == Total(K, todo, Threads)
                 g == Weight(K, steps)
                 h == One(Item("ended", <<q, y>>) \in K)
                 i1 == One(Item("queue", q) \in K)
      <3>1. g = i1
        BY <1>9
      <3>2. a + h = b + g /\ a \in Nat /\ b \in Nat
        BY <2>1, <2>2
      <3>3. h \in Nat /\ i1 \in Nat
        BY OneType
      <3> HIDE DEF a, b, g, h, i1
      <3>4. a + h = b + i1
        BY <3>1, <3>2, <3>3
      <3> QED BY <3>4 DEF a, b, h, i1
    <2> QED BY <2>2, <2>3
  <1>13. TypeInv'
    <2>1. ThreadsOK'
      BY <1>1, <1>2, <1>10 DEF TypeInv, ThreadsOK
    <2>2. QueuesOK'
      BY <1>1, <1>2, <1>4 DEF TypeInv, QueuesOK
    <2>3. PortsOK'
      BY <1>1, <1>2, <1>7 DEF TypeInv, PortsOK
    <2>4. OthersOK'
      BY <1>1, <1>2, <1>4, <1>8 DEF TypeInv, OthersOK, Ports
    <2> QED BY <2>1, <2>2, <2>3, <2>4 DEF TypeInv
  <1>14. ASSUME NEW x \in Queues
        PROVE  /\ Total(QueueItems(x), todo', Threads) + One(q = x)
                     = Total(QueueItems(x), todo, Threads) + One(q = x)
               /\ Total(EndItems(x), todo', Threads) + One(q = x) = Total(EndItems(x), todo, Threads)
               /\ Total({Item("delete", x)}, todo', Threads)
                     = Total({Item("delete", x)}, todo, Threads)
    <2>1. /\ One(Item("ended", <<q, y>>) \in QueueItems(x)) = One(q = x)
          /\ One(Item("queue", q) \in QueueItems(x)) = One(q = x)
          /\ One(Item("ended", <<q, y>>) \in EndItems(x)) = One(q = x)
          /\ One(Item("queue", q) \in EndItems(x)) = 0
          /\ One(Item("ended", <<q, y>>) \in {Item("delete", x)}) = 0
          /\ One(Item("queue", q) \in {Item("delete", x)}) = 0
      BY <1>4, QueueStep, EndedStep
    <2> QED BY <1>12, <2>1, OneType
  <1>15. ASSUME NEW x \in Ports
        PROVE  /\ Total({Item("port", x)}, todo', Threads) = Total({Item("port", x)}, todo, Threads)
               /\ Total({Item("erase", x)}, todo', Threads)
                     = Total({Item("erase", x)}, todo, Threads)
               /\ Total({Item("pool", x)}, todo', Threads) = Total({Item("pool", x)}, todo, Threads)
    <2>1. /\ One(Item("ended", <<q, y>>) \in {Item("port", x)}) = 0
          /\ One(Item("queue", q) \in {Item("port", x)}) = 0
          /\ One(Item("ended", <<q, y>>) \in {Item("erase", x)}) = 0
          /\ One(Item("queue", q) \in {Item("erase", x)}) = 0
          /\ One(Item("ended", <<q, y>>) \in {Item("pool", x)}) = 0
          /\ One(Item("queue", q) \in {Item("pool", x)}) = 0
      <3>1. \A k : k # "queue" => One(Item("queue", q) \in {Item(k, x)}) = 0
        BY QueueStep
      <3>2. \A k : k # "ended" => One(Item("ended", <<q, y>>) \in {Item(k, x)}) = 0
        BY <1>4, EndedStep
      <3> QED BY <3>1, <3>2
    <2> QED BY <1>12, <2>1, OneType
  <1>16. ASSUME NEW x \in Queues
         PROVE  QueueCount(x)'
    <2> DEFINE d == Direct(x)
               c == Direct(x)'
               n == Total(QueueItems(x), todo, Threads)
               m == Total(QueueItems(x), todo', Threads)
               e == Total({Item("delete", x)}, todo, Threads)
               f == Total({Item("delete", x)}, todo', Threads)
               r == queueRefs[x]
               s == queueRefs'[x]
    <2>1. c = d + (IF q = x THEN 1 ELSE 0) /\ c \in Nat
      <3> DEFINE dd == One(default = x)
                 hs == Cardinality(HandleRefs(x))
                 os == Cardinality(OwnRefs(x))
                 es == Total({x}, entries, Ports)
                 ss == Cardinality(SourceRefs(x))
                 ts == Cardinality(EndRefs(x))
                 ts2 == Cardinality(EndRefs(x)')
      <3>1. d = dd + hs + os + es + ss + ts
        BY DEF Direct
      <3>2. /\ dd \in Nat /\ hs \in Nat /\ os \in Nat /\ es \in Nat /\ ss \in Nat /\ ts \in Nat
        BY <1>1, CountTypes
      <3>3. c = dd + hs + os + es + ss + ts2
        BY <1>2 DEF Direct, HandleRefs, OwnRefs, SourceRefs
      <3>4. ts2 = ts + (IF q = x THEN 1 ELSE 0) /\ ts2 \in Nat
        BY <1>1, <1>2, <1>4, <1>8, EndAdded DEF One
      <3> HIDE DEF c, d, dd, hs, os, es, ss, ts, ts2
      <3> QED BY <3>1, <3>2, <3>3, <3>4
    <2>2. s = r + (IF q = x THEN 1 ELSE 0)
      BY <1>1, <1>2, <1>4 DEF TypeInv, QueuesOK
    <2>3. /\ d \in Nat /\ n \in Nat /\ m \in Nat /\ e \in Nat /\ f \in Nat /\ r \in Int
          /\ r = d + n /\ (r > 0 => queueLife[x] = "live")
          /\ e > 0 => queueLife[x] = "live" /\ r = 0
          /\ e <= 1
      BY <1>1, <1>12, QueueFacts
    <2>4. m = n /\ f = e
      <3>1. n \in Nat /\ m \in Nat
        BY <1>12
      <3> HIDE DEF n, m, e, f
      <3> QED BY <1>14, <3>1 DEF One, n, m, e, f
    <2>5. q = x => r > 0 /\ queueLife[x] = "live" /\ e = 0
      BY <1>6
    <2>6. queueLife'[x] = queueLife[x]
      BY <1>2
    <2> HIDE DEF d, c, n, m, e, f, r, s
    <2>7. /\ s = c + m /\ (s > 0 => queueLife'[x] = "live")
          /\ f > 0 => queueLife'[x] = "live" /\ s = 0
          /\ f <= 1
      BY <2>1, <2>2, <2>3, <2>4, <2>5, <2>6
    <2> QED BY <2>7 DEF QueueCount, Holders, Number, c, m, f, s
  <1>17. ASSUME NEW x \in Ports
         PROVE  PortCount(x)'
    <2> DEFINE d == Cardinality(ContextRefs(x))
               c == Cardinality(ContextRefs(x)')
               u == submitted[x]
               v == submitted'[x]
               n == Total({Item("port", x)}, todo, Threads)
               m == Total({Item("port", x)}, todo', Threads)
               e == Total({Item("erase", x)}, todo, Threads)
               f == Total({Item("erase", x)}, todo', Threads)
               r == portRefs[x]
               s == portRefs'[x]
    <2>1. c = d /\ v = u + (IF p = x THEN 1 ELSE 0)
      BY <1>1, <1>2, <1>7 DEF ContextRefs, TypeInv, PortsOK
    <2>2. s = r + (IF p = x THEN 1 ELSE 0)
      BY <1>1, <1>2, <1>7 DEF TypeInv, PortsOK
    <2>3. /\ d \in Nat /\ u \in Nat /\ n \in Nat /\ m \in Nat /\ e \in Nat /\ f \in Nat /\ r \in Int
          /\ r = d + u + n /\ (r > 0 => portLife[x] = "live")
          /\ e > 0 => portLife[x] = "live" /\ r = 0
          /\ e <= 1
      BY <1>1, <1>12, PortFacts
    <2>4. m = n /\ f = e
      BY <1>15
    <2>5. p = x => r > 0 /\ portLife[x] = "live" /\ e = 0
      BY <1>7
    <2>6. portLife'[x] = portLife[x]
      BY <1>2
    <2> HIDE DEF d, c, u, v, n, m, e, f, r, s
    <2>7. /\ s = c + v + m /\ (s > 0 => portLife'[x] = "live")
          /\ f > 0 => portLife'[x] = "live" /\ s = 0
          /\ f <= 1
      BY <2>1, <2>2, <2>3, <2>4, <2>5, <2>6
    <2> QED BY <2>7 DEF PortCount, Users, Number, c, v, m, f, s
  <1>18. ASSUME NEW x \in Queues
         PROVE  EndCount(x)'
    <2> DEFINE a == Cardinality(EndingRefs(x))
               g == Cardinality(EndRefs(x))
               j == Cardinality(EndRefs(x)')
               k == Total(EndItems(x), todo, Threads)
               l == Total(EndItems(x), todo', Threads)
               o == One(q = x)
    <2>1. a \in Nat /\ g \in Nat /\ k \in Nat /\ l \in Nat /\ o \in Nat
      <3>1. a \in Nat /\ g \in Nat
        BY <1>1, CountTypes
      <3>2. k \in Nat /\ l \in Nat
        BY <1>12
      <3>3. o \in Nat
        BY OneType
      <3> QED BY <3>1, <3>2, <3>3
    <2>2. a + g + k <= One(x \in ended)
      BY <1>1 DEF CountsOK, EndCount, Number
    <2>3. j = g + o
      BY <1>1, <1>2, <1>4, <1>8, EndAdded
    <2>4. l + o = k
      BY <1>14
    <2>5. EndingRefs(x)' = EndingRefs(x)
      BY <1>2 DEF EndingRefs
    <2>6. One(x \in ended) \in {0, 1} /\ ended' = ended
      BY <1>2, OneType
    <2> HIDE DEF a, g, j, k, l, o
    <2>7. a + j + l <= One(x \in ended)
      BY <2>1, <2>2, <2>3, <2>4, <2>6
    <2> QED BY <2>5, <2>6, <2>7 DEF EndCount, Number, a, j, l
  <1>19. CountsOK'
    BY <1>1, <1>2, <1>15, <1>16, <1>17, <1>18, PoolsKept DEF CountsOK
  <1>20. OrderOK' /\ LinksOK'
    BY <1>1, <1>2, <1>10, <1>11, StillOrdered, LinksKept
  <1> QED BY <1>13, <1>19, <1>20 DEF LifeInv

\* The reference of the termination and that of the call become steps.
LEMMA CallCompletionTerminationKeeps ==
  ASSUME LifetimeConstants, LifeInv, NEW t \in Threads, CallTermination(t), Head(todo[t]).of[2] # "Work"
  PROVE  LifeInv'
  <1> DEFINE q == Head(todo[t]).of[1]
             steps == Do("queue", q) \o Do("queue", q)
  <1>1. TypeInv /\ CountsOK /\ OrderOK /\ LinksOK
    BY DEF LifeInv
  <1>2. /\ UNCHANGED <<queueLife, ports, sources, attached, portLife, entries, poolRefs, items,
                       handles, ended, process, default, pc, own, ending, portRefs, submitted>>
        /\ queueRefs' = [queueRefs EXCEPT ![q] = @ + 1]
        /\ todo' = [todo EXCEPT ![t] = steps \o Tail(@)]
        /\ Doing(t, "ended")
    BY DEF CallTermination
  <1>3. /\ todo \in [Threads -> Seq(Things)] /\ todo[t] # <<>> /\ 1 \in DOMAIN todo[t]
        /\ todo[t][1] = Head(todo[t]) /\ Head(todo[t]) = Item("ended", Head(todo[t]).of)
        /\ Head(todo[t]).of \in Ports
    BY <1>1, <1>2, NextStep
  <1>4. PICK y \in Types : q \in Queues /\ Head(todo[t]) = Item("ended", <<q, y>>)
    <2>1. \A e \in Ports : e[1] \in Queues /\ e[2] \in Types /\ e = <<e[1], e[2]>>
      BY DEF Ports
    <2> QED BY <1>3, <2>1
  <1> HIDE DEF q
  <1>5. /\ todo[t][1] \in QueueItems(q) /\ todo[t][1] \in EndItems(q)
    <2>1. /\ One(Item("ended", <<q, y>>) \in QueueItems(q)) = One(q = q)
          /\ One(Item("ended", <<q, y>>) \in EndItems(q)) = One(q = q)
      BY <1>4, EndedStep
    <2> QED BY <1>3, <1>4, <2>1 DEF One
  <1>6. queueRefs[q] > 0 /\ queueLife[q] = "live" /\ Total({Item("delete", q)}, todo, Threads) = 0
    BY <1>1, <1>3, <1>4, <1>5, Held DEF Number
  <1>7. /\ steps \in Seq(Things) /\ Ordered(steps)
        /\ \A K : Weight(K, steps) = One(Item("queue", q) \in K) + One(Item("queue", q) \in K)
    <2>1. Item("queue", q) \in Things
      BY <1>4 DEF Item, Things
    <2> DEFINE a == Do("queue", q)
    <2>2. /\ a \in Seq(Things) /\ Ordered(a)
          /\ \A K : Weight(K, a) = One(Item("queue", q) \in K)
      BY <2>1, DoWeights
    <2>3. steps = a \o a
      OBVIOUS
    <2> HIDE DEF a, steps
    <2>4. steps \in Seq(Things) /\ Ordered(steps)
      BY <2>2, <2>3, OrderedConcat, ConcatProperties
    <2>5. \A K : Weight(K, steps) = Weight(K, a) + Weight(K, a)
      BY <2>2, <2>3, WeightConcat
    <2> QED BY <2>2, <2>4, <2>5
  <1> HIDE DEF steps
  <1>8. /\ todo' \in [Threads -> Seq(Things)] /\ todo'[t] = steps \o Tail(todo[t])
        /\ \A u \in Threads \ {t} : todo'[u] = todo[u]
    BY <1>2, <1>3, <1>7, ConcatProperties
  <1>9. Ordered(todo'[t])
    <2>1. Tail(todo[t]) \in Seq(Things) /\ Ordered(Tail(todo[t]))
      BY <1>1, <1>3, OrderedTail DEF OrderOK
    <2> QED BY <1>7, <1>8, <2>1, OrderedConcat
  <1>10. \A K : /\ Total(K, todo', Threads) + One(Item("ended", <<q, y>>) \in K)
                     = Total(K, todo, Threads) + One(Item("queue", q) \in K) + One(Item("queue", q) \in K)
               /\ Total(K, todo', Threads) \in Nat /\ Total(K, todo, Threads) \in Nat
    <2>1. \A K : Total(K, todo', Threads) + One(Item("ended", <<q, y>>) \in K)
                    = Total(K, todo, Threads) + Weight(K, steps)
      <3>1. \A K : Total(K, todo', Threads) + One(Head(todo[t]) \in K)
                      = Total(K, todo, Threads) + Weight(K, steps)
        BY <1>3, <1>7, <1>8, Popped
      <3> QED BY <1>4, <3>1
    <2>2. \A K : Total(K, todo', Threads) \in Nat /\ Total(K, todo, Threads) \in Nat
      BY <1>3, <1>8, TodoType
    <2>3. ASSUME NEW K
          PROVE  Total(K, todo', Threads) + One(Item("ended", <<q, y>>) \in K)
                     = Total(K, todo, Threads) + One(Item("queue", q) \in K) + One(Item("queue", q) \in K)
      <3> DEFINE a == Total(K, todo', Threads)
                 b == Total(K, todo, Threads)
                 g == Weight(K, steps)
                 h == One(Item("ended", <<q, y>>) \in K)
                 i1 == One(Item("queue", q) \in K)
                 i2 == One(Item("queue", q) \in K)
      <3>1. g = i1 + i2
        BY <1>7
      <3>2. a + h = b + g /\ a \in Nat /\ b \in Nat
        BY <2>1, <2>2
      <3>3. h \in Nat /\ i1 \in Nat /\ i2 \in Nat
        BY OneType
      <3> HIDE DEF a, b, g, h, i1, i2
      <3>4. a + h = b + i1 + i2
        BY <3>1, <3>2, <3>3
      <3> QED BY <3>4 DEF a, b, h, i1, i2
    <2> QED BY <2>2, <2>3
  <1>11. TypeInv'
    <2>1. ThreadsOK'
      BY <1>1, <1>2, <1>8 DEF TypeInv, ThreadsOK
    <2>2. QueuesOK'
      BY <1>1, <1>2, <1>4 DEF TypeInv, QueuesOK
    <2>3. PortsOK'
      BY <1>1, <1>2 DEF TypeInv, PortsOK
    <2>4. OthersOK'
      BY <1>1, <1>2, <1>4 DEF TypeInv, OthersOK, Ports
    <2> QED BY <2>1, <2>2, <2>3, <2>4 DEF TypeInv
  <1>12. ASSUME NEW x \in Queues
        PROVE  /\ Total(QueueItems(x), todo', Threads) + One(q = x)
                     = Total(QueueItems(x), todo, Threads) + One(q = x) + One(q = x)
               /\ Total(EndItems(x), todo', Threads) + One(q = x) = Total(EndItems(x), todo, Threads)
               /\ Total({Item("delete", x)}, todo', Threads)
                     = Total({Item("delete", x)}, todo, Threads)
    <2>1. /\ One(Item("ended", <<q, y>>) \in QueueItems(x)) = One(q = x)
          /\ One(Item("queue", q) \in QueueItems(x)) = One(q = x)
          /\ One(Item("ended", <<q, y>>) \in EndItems(x)) = One(q = x)
          /\ One(Item("queue", q) \in EndItems(x)) = 0
          /\ One(Item("ended", <<q, y>>) \in {Item("delete", x)}) = 0
          /\ One(Item("queue", q) \in {Item("delete", x)}) = 0
      BY <1>4, QueueStep, EndedStep
    <2> QED BY <1>10, <2>1, OneType
  <1>13. ASSUME NEW x \in Ports
        PROVE  /\ Total({Item("port", x)}, todo', Threads) = Total({Item("port", x)}, todo, Threads)
               /\ Total({Item("erase", x)}, todo', Threads)
                     = Total({Item("erase", x)}, todo, Threads)
               /\ Total({Item("pool", x)}, todo', Threads) = Total({Item("pool", x)}, todo, Threads)
    <2>1. /\ One(Item("ended", <<q, y>>) \in {Item("port", x)}) = 0
          /\ One(Item("queue", q) \in {Item("port", x)}) = 0
          /\ One(Item("ended", <<q, y>>) \in {Item("erase", x)}) = 0
          /\ One(Item("queue", q) \in {Item("erase", x)}) = 0
          /\ One(Item("ended", <<q, y>>) \in {Item("pool", x)}) = 0
          /\ One(Item("queue", q) \in {Item("pool", x)}) = 0
      <3>1. \A k : k # "queue" => One(Item("queue", q) \in {Item(k, x)}) = 0
        BY QueueStep
      <3>2. \A k : k # "ended" => One(Item("ended", <<q, y>>) \in {Item(k, x)}) = 0
        BY <1>4, EndedStep
      <3> QED BY <3>1, <3>2
    <2> QED BY <1>10, <2>1, OneType
  <1>14. ASSUME NEW x \in Queues
         PROVE  QueueCount(x)'
    <2> DEFINE d == Direct(x)
               c == Direct(x)'
               n == Total(QueueItems(x), todo, Threads)
               m == Total(QueueItems(x), todo', Threads)
               e == Total({Item("delete", x)}, todo, Threads)
               f == Total({Item("delete", x)}, todo', Threads)
               r == queueRefs[x]
               s == queueRefs'[x]
    <2>1. c = d
      BY <1>2 DEF Direct, HandleRefs, OwnRefs, SourceRefs, EndRefs
    <2>2. s = r + (IF q = x THEN 1 ELSE 0)
      BY <1>1, <1>2, <1>4 DEF TypeInv, QueuesOK
    <2>3. /\ d \in Nat /\ n \in Nat /\ m \in Nat /\ e \in Nat /\ f \in Nat /\ r \in Int
          /\ r = d + n /\ (r > 0 => queueLife[x] = "live")
          /\ e > 0 => queueLife[x] = "live" /\ r = 0
          /\ e <= 1
      BY <1>1, <1>10, QueueFacts
    <2>4. m = n + (IF q = x THEN 1 ELSE 0) /\ f = e
      <3>1. n \in Nat /\ m \in Nat
        BY <1>10
      <3> HIDE DEF n, m, e, f
      <3> QED BY <1>12, <3>1 DEF One, n, m, e, f
    <2>5. q = x => r > 0 /\ queueLife[x] = "live" /\ e = 0
      BY <1>6
    <2>6. queueLife'[x] = queueLife[x]
      BY <1>2
    <2> HIDE DEF d, c, n, m, e, f, r, s
    <2>7. /\ s = c + m /\ (s > 0 => queueLife'[x] = "live")
          /\ f > 0 => queueLife'[x] = "live" /\ s = 0
          /\ f <= 1
      BY <2>1, <2>2, <2>3, <2>4, <2>5, <2>6
    <2> QED BY <2>7 DEF QueueCount, Holders, Number, c, m, f, s
  <1>15. ASSUME NEW x \in Queues
         PROVE  EndCount(x)'
    <2> DEFINE a == Cardinality(EndingRefs(x))
               g == Cardinality(EndRefs(x))
               j == Cardinality(EndRefs(x)')
               k == Total(EndItems(x), todo, Threads)
               l == Total(EndItems(x), todo', Threads)
               o == One(q = x)
    <2>1. a \in Nat /\ g \in Nat /\ k \in Nat /\ l \in Nat /\ o \in Nat
      <3>1. a \in Nat /\ g \in Nat
        BY <1>1, CountTypes
      <3>2. k \in Nat /\ l \in Nat
        BY <1>10
      <3>3. o \in Nat
        BY OneType
      <3> QED BY <3>1, <3>2, <3>3
    <2>2. a + g + k <= One(x \in ended)
      BY <1>1 DEF CountsOK, EndCount, Number
    <2>3. j = g
      BY <1>2 DEF EndRefs
    <2>4. l + o = k
      BY <1>12
    <2>5. EndingRefs(x)' = EndingRefs(x)
      BY <1>2 DEF EndingRefs
    <2>6. One(x \in ended) \in {0, 1} /\ ended' = ended
      BY <1>2, OneType
    <2> HIDE DEF a, g, j, k, l, o
    <2>7. a + j + l <= One(x \in ended)
      BY <2>1, <2>2, <2>3, <2>4, <2>6
    <2> QED BY <2>5, <2>6, <2>7 DEF EndCount, Number, a, j, l
  <1>16. CountsOK'
    BY <1>1, <1>2, <1>13, <1>14, <1>15, PortsKept, PoolsKept DEF CountsOK
  <1>17. OrderOK' /\ LinksOK'
    BY <1>1, <1>2, <1>8, <1>9, StillOrdered, LinksKept
  <1> QED BY <1>11, <1>16, <1>17 DEF LifeInv

-----------------------------------------------------------------------------
(* Duplicates, and the process queue *)

\* The handle has no queue yet; what was read is the process's handle or the default one.
LEMMA GetKeeps ==
  ASSUME LifetimeConstants, LifeInv, NEW t \in Threads, NEW h \in Handles, Get(t, h)
  PROVE  LifeInv'
  <1>1. TypeInv /\ CountsOK /\ OrderOK /\ LinksOK
    BY DEF LifeInv
  <1>2. /\ UNCHANGED <<queueVars, portVars, ending, ended, process, default, todo>>
        /\ handles' = [handles EXCEPT ![h] = [queue |-> None, user |-> t]]
        /\ own' = [own EXCEPT ![t] = IF process = "invalid" THEN "default" ELSE process]
        /\ pc' = [pc EXCEPT ![t] = IF process = "invalid" /\ default = None THEN "default" ELSE "duplicate"]
        /\ t \in Clients /\ pc[t] = "idle" /\ process # None /\ handles[h] = NoHandle
    BY DEF Get, Own, Goto, May, Idle, Free
  <1>3. /\ todo \in [Threads -> Seq(Things)] /\ None \notin Queues
        /\ own \in [Threads -> Queues \cup Handles \cup {"default", None}] /\ pc \in [Threads -> Labels]
        /\ handles \in [Handles -> [queue : Queues \cup {None}, user : Clients \cup {None}]]
        /\ own[t] = None /\ default \in Queues \cup {None}
    BY <1>1, <1>2 DEF TypeInv, OthersOK, ThreadsOK, LifetimeConstants
  <1>4. /\ \/ process = "invalid" /\ own'[t] = "default"
           \/ process # "invalid" /\ process \in Handles /\ own'[t] = process
        /\ own'[t] \in Handles \cup {"default"} /\ own'[t] \notin Queues /\ own'[t] # None
        /\ \A u \in Threads \ {t} : own'[u] = own[u] /\ pc'[u] = pc[u]
    <2>1. process \in Handles \cup {"invalid", None}
      BY <1>1 DEF TypeInv, OthersOK
    <2>2. "default" \notin Queues \cup Handles \cup {None} /\ Queues \cap Handles = {} /\ None \notin Handles
      BY DEF LifetimeConstants
    <2> QED BY <1>2, <1>3, <2>1, <2>2
  <1>5. /\ handles' \in [Handles -> [queue : Queues \cup {None}, user : Clients \cup {None}]]
        /\ handles'[h].queue = None /\ handles[h].queue = None
        /\ \A k \in Handles \ {h} : handles'[k] = handles[k]
        /\ process # h
    <2>1. process \in Handles => handles[process].queue \in Queues
      BY <1>1 DEF TypeInv, ThreadsOK
    <2> QED BY <1>2, <1>3, <2>1 DEF NoHandle
  <1>6. TypeInv'
    <2>1. ThreadsOK'
      <3>1. /\ pc' \in [Threads -> Labels]
            /\ own' \in [Threads -> Queues \cup Handles \cup {"default", None}]
        BY <1>2, <1>3, <1>4 DEF Labels
      <3>2. ASSUME NEW u \in Threads
            PROVE  /\ pc'[u] \in {"submit", "terminate", "call"} <=> own'[u] \in Queues
                   /\ pc'[u] = "idle" <=> own'[u] = None
                   /\ pc'[u] = "default" => own'[u] = "default"
                   /\ pc'[u] \in {"default", "duplicate"} => u \in Clients
                   /\ pc'[u] = "duplicate" =>
                        \/ own'[u] = "default" /\ default' \in Queues
                        \/ own'[u] \in Handles /\ own'[u] = process'
        <4>1. CASE u = t
          BY <1>2, <1>3, <1>4, <4>1
        <4>2. CASE u # t
          BY <1>1, <1>2, <1>4, <4>2 DEF TypeInv, ThreadsOK
        <4> QED BY <4>1, <4>2
      <3>3. process' \in Handles => handles'[process'].queue \in Queues /\ handles'[process'].user = None
        BY <1>1, <1>2, <1>5 DEF TypeInv, ThreadsOK
      <3> QED BY <1>2, <1>3, <3>1, <3>2, <3>3 DEF ThreadsOK
    <2> QED BY <1>1, <1>2, <1>5, <2>1
         DEF TypeInv, QueuesOK, PortsOK, OthersOK, queueVars, portVars
  <1>7. ASSUME NEW x \in Queues
        PROVE  QueueCount(x)' /\ EndCount(x)'
    <2>1. QueueCount(x) /\ EndCount(x)
      BY <1>1 DEF CountsOK
    <2>2. HandleRefs(x)' = HandleRefs(x)
      BY <1>3, <1>5 DEF HandleRefs
    <2>3. OwnRefs(x)' = OwnRefs(x)
      BY <1>3, <1>4 DEF OwnRefs
    <2>4. EndingRefs(x)' = EndingRefs(x) /\ EndRefs(x)' = EndRefs(x)
      BY <1>2, <1>3, <1>4 DEF EndingRefs, EndRefs
    <2>5. Direct(x)' = Direct(x)
      BY <1>2, <2>2, <2>3, <2>4 DEF Direct, SourceRefs, queueVars, portVars
    <2>6. QueueCount(x)'
      BY <1>2, <2>1, <2>5 DEF QueueCount, Holders, Number, QueueItems, EndItems, queueVars
    <2>7. EndCount(x)'
      BY <1>2, <2>1, <2>4 DEF EndCount, Number, EndItems
    <2> QED BY <2>6, <2>7
  <1>8. CountsOK'
    BY <1>1, <1>2, <1>7, PortsKept, PoolsKept DEF CountsOK, queueVars, portVars
  <1>9. OrderOK' /\ LinksOK'
    BY <1>1, <1>2, LinksKept DEF OrderOK, queueVars, portVars
  <1> QED BY <1>6, <1>8, <1>9 DEF LifeInv

\* One handle more, and one reference
LEMMA DuplicateKeeps ==
  ASSUME LifetimeConstants, LifeInv, NEW t \in Threads, NEW g \in Handles, NEW h \in Handles,
         Duplicate(t, g, h)
  PROVE  LifeInv'
  <1> DEFINE q == handles[g].queue
  <1>1. TypeInv /\ CountsOK /\ OrderOK /\ LinksOK
    BY DEF LifeInv
  <1>2. /\ UNCHANGED <<queueLife, ports, sources, attached, portVars, ending, ended, process,
                       default, pc, todo, own>>
        /\ handles' = [handles EXCEPT ![h] = [queue |-> q, user |-> t]]
        /\ queueRefs' = [queueRefs EXCEPT ![q] = @ + 1]
        /\ t \in Clients /\ handles[h] = NoHandle /\ q # None
    BY DEF Duplicate, DuplicateTo, NewHandle, May, Free, Usable
  <1>3. /\ todo \in [Threads -> Seq(Things)] /\ todo' = todo /\ q \in Queues /\ None \notin Queues
        /\ handles \in [Handles -> [queue : Queues \cup {None}, user : Clients \cup {None}]]
    BY <1>1, <1>2 DEF TypeInv, OthersOK, ThreadsOK, LifetimeConstants
  <1>4. queueRefs[q] > 0 /\ queueLife[q] = "live" /\ Total({Item("delete", q)}, todo, Threads) = 0
    BY <1>1, <1>3, Held DEF Number
  <1> HIDE DEF q
  <1>5. /\ handles' \in [Handles -> [queue : Queues \cup {None}, user : Clients \cup {None}]]
        /\ handles'[h].queue = q /\ handles[h].queue = None
        /\ \A k \in Handles \ {h} : handles'[k] = handles[k]
        /\ process # h
    <2>1. process \in Handles => handles[process].queue \in Queues
      BY <1>1 DEF TypeInv, ThreadsOK
    <2> QED BY <1>2, <1>3, <2>1 DEF NoHandle
  <1>6. \A K : Total(K, todo', Threads) \in Nat /\ Total(K, todo, Threads) \in Nat
    BY <1>3, TodoType
  <1>7. TypeInv'
    <2>1. queueRefs' \in [Queues -> Int]
      BY <1>1, <1>2, <1>3 DEF TypeInv, QueuesOK
    <2> QED BY <1>1, <1>2, <1>5, <2>1
         DEF TypeInv, QueuesOK, PortsOK, OthersOK, ThreadsOK, portVars
  <1>8. ASSUME NEW x \in Queues
         PROVE  QueueCount(x)'
    <2> DEFINE d == Direct(x)
               c == Direct(x)'
               n == Total(QueueItems(x), todo, Threads)
               m == Total(QueueItems(x), todo', Threads)
               e == Total({Item("delete", x)}, todo, Threads)
               f == Total({Item("delete", x)}, todo', Threads)
               r == queueRefs[x]
               s == queueRefs'[x]
    <2>1. c = d + (IF q = x THEN 1 ELSE 0) /\ c \in Nat
      <3> DEFINE dd == One(default = x)
                 hs == Cardinality(HandleRefs(x))
                 os == Cardinality(OwnRefs(x))
                 es == Total({x}, entries, Ports)
                 ss == Cardinality(SourceRefs(x))
                 ts == Cardinality(EndRefs(x))
                 hs2 == Cardinality(HandleRefs(x)')
      <3>1. d = dd + hs + os + es + ss + ts
        BY DEF Direct
      <3>2. /\ dd \in Nat /\ hs \in Nat /\ os \in Nat /\ es \in Nat /\ ss \in Nat /\ ts \in Nat
        BY <1>1, CountTypes
      <3>3. c = dd + hs2 + os + es + ss + ts
        BY <1>2 DEF Direct, OwnRefs, SourceRefs, EndRefs, portVars
      <3>4. hs2 = hs + (IF q = x THEN 1 ELSE 0) /\ hs2 \in Nat
        <4>1. hs2 \in Nat /\ hs2 + One(handles[h].queue = x) = hs + One(handles'[h].queue = x)
          BY <1>1, <1>3, <1>5, HandleChange
        <4>2. /\ One(handles[h].queue = x) = 0
              /\ One(handles'[h].queue = x) = (IF q = x THEN 1 ELSE 0)
          BY <1>1, <1>3, <1>5 DEF One
        <4>3. hs \in Nat
          BY <3>2
        <4> HIDE DEF hs, hs2
        <4> QED BY <4>1, <4>2, <4>3
      <3> HIDE DEF c, d, dd, hs, os, es, ss, ts, hs2
      <3> QED BY <3>1, <3>2, <3>3, <3>4
    <2>2. s = r + (IF q = x THEN 1 ELSE 0)
      BY <1>1, <1>2, <1>3 DEF TypeInv, QueuesOK
    <2>3. /\ d \in Nat /\ n \in Nat /\ m \in Nat /\ e \in Nat /\ f \in Nat /\ r \in Int
          /\ r = d + n /\ (r > 0 => queueLife[x] = "live")
          /\ e > 0 => queueLife[x] = "live" /\ r = 0
          /\ e <= 1
      BY <1>1, <1>6, QueueFacts
    <2>4. m = n /\ f = e
      BY <1>3
    <2>5. q = x => r > 0 /\ queueLife[x] = "live" /\ e = 0
      BY <1>4
    <2>6. queueLife'[x] = queueLife[x]
      BY <1>2
    <2> HIDE DEF d, c, n, m, e, f, r, s
    <2>7. /\ s = c + m /\ (s > 0 => queueLife'[x] = "live")
          /\ f > 0 => queueLife'[x] = "live" /\ s = 0
          /\ f <= 1
      BY <2>1, <2>2, <2>3, <2>4, <2>5, <2>6
    <2> QED BY <2>7 DEF QueueCount, Holders, Number, c, m, f, s
  <1>9. CountsOK'
    BY <1>1, <1>2, <1>3, <1>8, EndsKept, PortsKept, PoolsKept DEF CountsOK, portVars
  <1>10. OrderOK' /\ LinksOK'
    BY <1>1, <1>2, LinksKept DEF OrderOK, portVars
  <1> QED BY <1>7, <1>9, <1>10 DEF LifeInv

\* The handle that was read is still the process's, or the default queue is there.
LEMMA DuplicateCurrentKeeps ==
  ASSUME LifetimeConstants, LifeInv, NEW t \in Threads, NEW h \in Handles, DuplicateCurrent(t, h)
  PROVE  LifeInv'
  <1> DEFINE q == IF own[t] = "default" THEN default ELSE handles[own[t]].queue
  <1>1. TypeInv /\ CountsOK /\ OrderOK /\ LinksOK
    BY DEF LifeInv
  <1>2. /\ UNCHANGED <<queueLife, ports, sources, attached, portVars, ending, ended, process,
                       default, todo>>
        /\ handles' = [handles EXCEPT ![h].queue = q]
        /\ queueRefs' = [queueRefs EXCEPT ![q] = @ + 1]
        /\ own' = [own EXCEPT ![t] = None] /\ pc' = [pc EXCEPT ![t] = "idle"]
        /\ pc[t] = "duplicate" /\ handles[h] = [queue |-> None, user |-> t]
    BY DEF DuplicateCurrent, Own, Goto
  <1>3. /\ todo \in [Threads -> Seq(Things)] /\ todo' = todo /\ None \notin Queues /\ t \in Clients
        /\ own \in [Threads -> Queues \cup Handles \cup {"default", None}] /\ pc \in [Threads -> Labels]
        /\ handles \in [Handles -> [queue : Queues \cup {None}, user : Clients \cup {None}]]
        /\ own[t] \notin Queues
    BY <1>1, <1>2 DEF TypeInv, OthersOK, ThreadsOK, LifetimeConstants
  <1>4. q \in Queues /\ (default = q \/ \E k \in Handles : handles[k].queue = q)
    <2>1. (own[t] = "default" /\ default \in Queues) \/ (own[t] \in Handles /\ own[t] = process)
      BY <1>1, <1>2 DEF TypeInv, ThreadsOK
    <2>2. process \in Handles => handles[process].queue \in Queues
      BY <1>1 DEF TypeInv, ThreadsOK
    <2>3. "default" \notin Handles
      BY DEF LifetimeConstants
    <2> QED BY <2>1, <2>2, <2>3
  <1> HIDE DEF q
  <1>5. queueRefs[q] > 0 /\ queueLife[q] = "live" /\ Total({Item("delete", q)}, todo, Threads) = 0
    BY <1>1, <1>4, Held DEF Number
  <1>6. /\ handles' \in [Handles -> [queue : Queues \cup {None}, user : Clients \cup {None}]]
        /\ handles'[h].queue = q /\ handles[h].queue = None
        /\ \A k \in Handles \ {h} : handles'[k] = handles[k]
        /\ process # h
    <2>1. process \in Handles => handles[process].queue \in Queues
      BY <1>1 DEF TypeInv, ThreadsOK
    <2>2. /\ handles'[h] = [queue |-> q, user |-> t]
          /\ \A k \in Handles \ {h} : handles'[k] = handles[k]
          /\ DOMAIN handles' = Handles
      <3>1. /\ handles'[h] = [handles[h] EXCEPT !.queue = q]
            /\ \A k \in Handles \ {h} : handles'[k] = handles[k]
            /\ DOMAIN handles' = Handles /\ handles' = [k \in Handles |-> handles'[k]]
        BY <1>2, <1>3
      <3>2. [handles[h] EXCEPT !.queue = q] = [queue |-> q, user |-> t]
        BY <1>2
      <3> QED BY <3>1, <3>2
    <2>3. handles' = [k \in Handles |-> handles'[k]]
      BY <1>2, <1>3
    <2>4. \A k \in Handles : handles'[k] \in [queue : Queues \cup {None}, user : Clients \cup {None}]
      BY <1>3, <1>4, <2>2
    <2> QED BY <1>2, <1>3, <1>4, <2>1, <2>2, <2>3, <2>4
  <1>7. own'[t] = None /\ pc'[t] = "idle" /\ \A u \in Threads \ {t} : own'[u] = own[u] /\ pc'[u] = pc[u]
    BY <1>2, <1>3
  <1>8. \A K : Total(K, todo', Threads) \in Nat /\ Total(K, todo, Threads) \in Nat
    BY <1>3, TodoType
  <1>9. TypeInv'
    <2>1. ThreadsOK'
      <3>1. /\ pc' \in [Threads -> Labels]
            /\ own' \in [Threads -> Queues \cup Handles \cup {"default", None}]
        BY <1>2, <1>3 DEF Labels
      <3>2. ASSUME NEW u \in Threads
            PROVE  /\ pc'[u] \in {"submit", "terminate", "call"} <=> own'[u] \in Queues
                   /\ pc'[u] = "idle" <=> own'[u] = None
                   /\ pc'[u] = "default" => own'[u] = "default"
                   /\ pc'[u] \in {"default", "duplicate"} => u \in Clients
                   /\ pc'[u] = "duplicate" =>
                        \/ own'[u] = "default" /\ default' \in Queues
                        \/ own'[u] \in Handles /\ own'[u] = process'
        <4>1. CASE u = t
          BY <1>3, <1>7, <4>1
        <4>2. CASE u # t
          BY <1>1, <1>2, <1>7, <4>2 DEF TypeInv, ThreadsOK
        <4> QED BY <4>1, <4>2
      <3>3. process' \in Handles => handles'[process'].queue \in Queues /\ handles'[process'].user = None
        BY <1>1, <1>2, <1>6 DEF TypeInv, ThreadsOK
      <3> QED BY <1>3, <3>1, <3>2, <3>3 DEF ThreadsOK
    <2>2. queueRefs' \in [Queues -> Int]
      BY <1>1, <1>2, <1>4 DEF TypeInv, QueuesOK
    <2> QED BY <1>1, <1>2, <1>6, <2>1, <2>2
         DEF TypeInv, QueuesOK, PortsOK, OthersOK, portVars
  <1>10. ASSUME NEW x \in Queues
         PROVE  QueueCount(x)'
    <2> DEFINE d == Direct(x)
               c == Direct(x)'
               n == Total(QueueItems(x), todo, Threads)
               m == Total(QueueItems(x), todo', Threads)
               e == Total({Item("delete", x)}, todo, Threads)
               f == Total({Item("delete", x)}, todo', Threads)
               r == queueRefs[x]
               s == queueRefs'[x]
    <2>1. c = d + (IF q = x THEN 1 ELSE 0) /\ c \in Nat
      <3> DEFINE dd == One(default = x)
                 hs == Cardinality(HandleRefs(x))
                 os == Cardinality(OwnRefs(x))
                 es == Total({x}, entries, Ports)
                 ss == Cardinality(SourceRefs(x))
                 ts == Cardinality(EndRefs(x))
                 hs2 == Cardinality(HandleRefs(x)')
                 os2 == Cardinality(OwnRefs(x)')
      <3>1. d = dd + hs + os + es + ss + ts
        BY DEF Direct
      <3>2. /\ dd \in Nat /\ hs \in Nat /\ os \in Nat /\ es \in Nat /\ ss \in Nat /\ ts \in Nat
        BY <1>1, CountTypes
      <3>3. c = dd + hs2 + os2 + es + ss + ts
        BY <1>2 DEF Direct, SourceRefs, EndRefs, portVars
      <3>4. hs2 = hs + (IF q = x THEN 1 ELSE 0) /\ hs2 \in Nat
        <4>1. hs2 \in Nat /\ hs2 + One(handles[h].queue = x) = hs + One(handles'[h].queue = x)
          BY <1>1, <1>3, <1>6, HandleChange
        <4>2. /\ One(handles[h].queue = x) = 0
              /\ One(handles'[h].queue = x) = (IF q = x THEN 1 ELSE 0)
          BY <1>1, <1>3, <1>6 DEF One
        <4>3. hs \in Nat
          BY <3>2
        <4> HIDE DEF hs, hs2
        <4> QED BY <4>1, <4>2, <4>3
      <3>5. os2 = os
        BY <1>3, <1>7 DEF OwnRefs
      <3> HIDE DEF c, d, dd, hs, os, es, ss, ts, hs2, os2
      <3> QED BY <3>1, <3>2, <3>3, <3>4, <3>5
    <2>2. s = r + (IF q = x THEN 1 ELSE 0)
      BY <1>1, <1>2, <1>4 DEF TypeInv, QueuesOK
    <2>3. /\ d \in Nat /\ n \in Nat /\ m \in Nat /\ e \in Nat /\ f \in Nat /\ r \in Int
          /\ r = d + n /\ (r > 0 => queueLife[x] = "live")
          /\ e > 0 => queueLife[x] = "live" /\ r = 0
          /\ e <= 1
      BY <1>1, <1>8, QueueFacts
    <2>4. m = n /\ f = e
      BY <1>3
    <2>5. q = x => r > 0 /\ queueLife[x] = "live" /\ e = 0
      BY <1>5
    <2>6. queueLife'[x] = queueLife[x]
      BY <1>2
    <2> HIDE DEF d, c, n, m, e, f, r, s
    <2>7. /\ s = c + m /\ (s > 0 => queueLife'[x] = "live")
          /\ f > 0 => queueLife'[x] = "live" /\ s = 0
          /\ f <= 1
      BY <2>1, <2>2, <2>3, <2>4, <2>5, <2>6
    <2> QED BY <2>7 DEF QueueCount, Holders, Number, c, m, f, s
  <1>11. ASSUME NEW x \in Queues
         PROVE  EndCount(x)'
    <2>1. EndCount(x)
      BY <1>1 DEF CountsOK
    <2>2. EndingRefs(x)' = EndingRefs(x) /\ EndRefs(x)' = EndRefs(x)
      BY <1>2, <1>7 DEF EndingRefs, EndRefs
    <2> QED BY <1>2, <2>1, <2>2 DEF EndCount, Number, EndItems
  <1>12. CountsOK'
    BY <1>1, <1>2, <1>3, <1>10, <1>11, PortsKept, PoolsKept DEF CountsOK, portVars
  <1>13. OrderOK' /\ LinksOK'
    BY <1>1, <1>2, LinksKept DEF OrderOK, portVars
  <1> QED BY <1>9, <1>12, <1>13 DEF LifeInv

\* Two handles are others.
LEMMA TwoHandles ==
  ASSUME LifetimeConstants, TypeInv, NEW h \in Handles, NEW k \in Handles, h # k,
         \A j \in Handles \ {h, k} : handles'[j] = handles[j], NEW x \in Queues
  PROVE  /\ Cardinality(HandleRefs(x)') \in Nat
         /\ Cardinality(HandleRefs(x)') + One(handles[h].queue = x) + One(handles[k].queue = x)
               = Cardinality(HandleRefs(x)) + One(handles'[h].queue = x) + One(handles'[k].queue = x)
  <1> DEFINE A == HandleRefs(x)
             B == HandleRefs(x)'
             C == (A \ {h}) \cup (B \cap {h})
  <1>1. B = {j \in Handles : handles'[j].queue = x} /\ A = {j \in Handles : handles[j].queue = x}
    BY DEF HandleRefs
  <1>2. /\ A \ {h} = C \ {h} /\ C \ {k} = B \ {k}
        /\ (h \in A <=> handles[h].queue = x) /\ (h \in C <=> handles'[h].queue = x)
        /\ (k \in C <=> handles[k].queue = x) /\ (k \in B <=> handles'[k].queue = x)
    BY <1>1
  <1>3. IsFiniteSet(A)
    BY CountTypes
  <1> HIDE DEF A, B, C
  <1>4. /\ IsFiniteSet(C) /\ Cardinality(A) \in Nat /\ Cardinality(C) \in Nat
        /\ Cardinality(C) = Cardinality(A) + One(h \in C) - One(h \in A)
    BY <1>2, <1>3, SetUpdate
  <1>5. Cardinality(B) \in Nat /\ Cardinality(B) = Cardinality(C) + One(k \in B) - One(k \in C)
    BY <1>2, <1>4, SetUpdate
  <1>6. /\ One(h \in C) = One(handles'[h].queue = x) /\ One(h \in A) = One(handles[h].queue = x)
        /\ One(k \in B) = One(handles'[k].queue = x) /\ One(k \in C) = One(handles[k].queue = x)
    BY <1>2 DEF One
  <1>7. /\ One(h \in C) \in Nat /\ One(h \in A) \in Nat /\ One(k \in B) \in Nat /\ One(k \in C) \in Nat
    BY DEF One
  <1>8. Cardinality(B) + One(h \in A) + One(k \in C) = Cardinality(A) + One(h \in C) + One(k \in B)
    BY <1>4, <1>5, <1>7
  <1> QED BY <1>5, <1>6, <1>8 DEF A, B

\* The reference that the process's handle had is what the thread gives up; q is the
\* queue of the new one, if there is one.
Exchanged(t, q, o) ==
    /\ UNCHANGED <<queueLife, ports, sources, attached, portVars, ending, ended, default, pc, own>>
    /\ \A u \in Threads : pc[u] # "duplicate"
    /\ process' \in Handles \cup {None}
    /\ handles' \in [Handles -> [queue : Queues \cup {None}, user : Clients \cup {None}]]
    /\ process' \in Handles => handles'[process'].queue \in Queues /\ handles'[process'].user = None
    /\ queueRefs' \in [Queues -> Int]
    /\ \A x \in Queues : queueRefs'[x] = queueRefs[x] + One(q = x)
    /\ q \in Queues => \E k \in Handles : handles[k].queue = q
    /\ \A x \in Queues :
          /\ Cardinality(HandleRefs(x)') \in Nat
          /\ Cardinality(HandleRefs(x)') + One(o = x) = Cardinality(HandleRefs(x)) + One(q = x)
    /\ todo' \in [Threads -> Seq(Things)] /\ \A u \in Threads \ {t} : todo'[u] = todo[u]
    /\ o \in Queues => todo'[t] = Do("queue", o) \o todo[t]
    /\ o = None => todo'[t] = todo[t]

\* Either form of the exchange keeps the invariant.
LEMMA ExchangeKeeps ==
  ASSUME LifetimeConstants, LifeInv, NEW t \in Threads, NEW q \in Queues \cup {None},
         NEW o \in Queues \cup {None}, Exchanged(t, q, o)
  PROVE  LifeInv'
  <1>1. TypeInv /\ CountsOK /\ OrderOK /\ LinksOK
    BY DEF LifeInv
  <1>2. todo \in [Threads -> Seq(Things)] /\ None \notin Queues
    BY <1>1 DEF TypeInv, ThreadsOK, LifetimeConstants
  <1>3. UNCHANGED <<queueLife, ports, sources, attached, portVars, ending, ended, default, pc, own>>
    BY DEF Exchanged
  <1>4. /\ \A u \in Threads : pc[u] # "duplicate"
        /\ process' \in Handles \cup {None}
        /\ handles' \in [Handles -> [queue : Queues \cup {None}, user : Clients \cup {None}]]
        /\ process' \in Handles => handles'[process'].queue \in Queues /\ handles'[process'].user = None
    BY DEF Exchanged
  <1>5. /\ queueRefs' \in [Queues -> Int]
        /\ \A x \in Queues : queueRefs'[x] = queueRefs[x] + One(q = x)
        /\ q \in Queues => \E k \in Handles : handles[k].queue = q
    BY DEF Exchanged
  <1>6. \A x \in Queues :
          /\ Cardinality(HandleRefs(x)') \in Nat
          /\ Cardinality(HandleRefs(x)') + One(o = x) = Cardinality(HandleRefs(x)) + One(q = x)
    BY DEF Exchanged
  <1>7. /\ todo' \in [Threads -> Seq(Things)] /\ \A u \in Threads \ {t} : todo'[u] = todo[u]
        /\ o \in Queues => todo'[t] = Do("queue", o) \o todo[t]
        /\ o = None => todo'[t] = todo[t]
    BY DEF Exchanged
  <1> DEFINE steps == IF o = None THEN <<>> ELSE Do("queue", o)
  <1>8. /\ steps \in Seq(Things) /\ Ordered(steps)
        /\ \A K : Weight(K, steps) = (IF o = None THEN 0 ELSE One(Item("queue", o) \in K))
    <2>1. o # None => Item("queue", o) \in Things
      BY DEF Item, Things
    <2>2. CASE o = None
      BY <2>2, NoWeight
    <2>3. CASE o # None
      BY <2>1, <2>3, DoWeights
    <2> QED BY <2>2, <2>3
  <1>9. todo'[t] = steps \o todo[t]
    <2>1. todo[t] \in Seq(Things)
      BY <1>2
    <2>2. <<>> \o todo[t] = todo[t]
      BY <2>1, ConcatEmptySeq
    <2> QED BY <1>2, <1>7, <2>2
  <1> HIDE DEF steps
  <1>10. Ordered(todo'[t])
    BY <1>1, <1>2, <1>8, <1>9, OrderedConcat DEF OrderOK
  <1>11. \A K : /\ Total(K, todo', Threads)
                      = Total(K, todo, Threads) + (IF o = None THEN 0 ELSE One(Item("queue", o) \in K))
                /\ Total(K, todo', Threads) \in Nat /\ Total(K, todo, Threads) \in Nat
    <2>1. \A K : Total(K, todo', Threads) = Total(K, todo, Threads) + Weight(K, steps)
      BY <1>2, <1>7, <1>8, <1>9, Pushed
    <2>2. \A K : Total(K, todo', Threads) \in Nat /\ Total(K, todo, Threads) \in Nat
      BY <1>2, <1>7, TodoType
    <2> QED BY <1>8, <2>1, <2>2
  <1>12. TypeInv'
    <2>1. ThreadsOK'
      BY <1>1, <1>3, <1>4, <1>7 DEF TypeInv, ThreadsOK
    <2>2. OthersOK'
      BY <1>1, <1>3, <1>4 DEF TypeInv, OthersOK
    <2> QED BY <1>1, <1>3, <1>5, <2>1, <2>2 DEF TypeInv, QueuesOK, PortsOK, portVars
  <1>13. ASSUME NEW x \in Queues
         PROVE  /\ Total(QueueItems(x), todo', Threads) = Total(QueueItems(x), todo, Threads) + One(o = x)
                /\ Total(EndItems(x), todo', Threads) = Total(EndItems(x), todo, Threads)
                /\ Total({Item("delete", x)}, todo', Threads) = Total({Item("delete", x)}, todo, Threads)
    <2>1. /\ One(Item("queue", o) \in QueueItems(x)) = One(o = x)
          /\ One(Item("queue", o) \in EndItems(x)) = 0
          /\ One(Item("queue", o) \in {Item("delete", x)}) = 0
      BY QueueStep
    <2>2. o = None => One(o = x) = 0
      BY <1>2 DEF One
    <2> QED BY <1>11, <2>1, <2>2
  <1>14. ASSUME NEW x \in Ports
         PROVE  /\ Total({Item("port", x)}, todo', Threads) = Total({Item("port", x)}, todo, Threads)
                /\ Total({Item("erase", x)}, todo', Threads) = Total({Item("erase", x)}, todo, Threads)
                /\ Total({Item("pool", x)}, todo', Threads) = Total({Item("pool", x)}, todo, Threads)
    <2>1. /\ One(Item("queue", o) \in {Item("port", x)}) = 0
          /\ One(Item("queue", o) \in {Item("erase", x)}) = 0
          /\ One(Item("queue", o) \in {Item("pool", x)}) = 0
      BY QueueStep
    <2> QED BY <1>11, <2>1
  <1>15. ASSUME NEW x \in Queues
         PROVE  QueueCount(x)'
    <2> DEFINE d == Direct(x)
               c == Direct(x)'
               n == Total(QueueItems(x), todo, Threads)
               m == Total(QueueItems(x), todo', Threads)
               e == Total({Item("delete", x)}, todo, Threads)
               f == Total({Item("delete", x)}, todo', Threads)
               r == queueRefs[x]
               s == queueRefs'[x]
               i == One(q = x)
               j == One(o = x)
    <2>1. c + j = d + i /\ c \in Nat /\ j \in {0, 1} /\ i \in {0, 1}
      <3> DEFINE dd == One(default = x)
                 hs == Cardinality(HandleRefs(x))
                 os == Cardinality(OwnRefs(x))
                 es == Total({x}, entries, Ports)
                 ss == Cardinality(SourceRefs(x))
                 ts == Cardinality(EndRefs(x))
                 hs2 == Cardinality(HandleRefs(x)')
      <3>1. d = dd + hs + os + es + ss + ts
        BY DEF Direct
      <3>2. /\ dd \in Nat /\ hs \in Nat /\ os \in Nat /\ es \in Nat /\ ss \in Nat /\ ts \in Nat
        BY <1>1, CountTypes
      <3>3. c = dd + hs2 + os + es + ss + ts
        BY <1>3 DEF Direct, OwnRefs, SourceRefs, EndRefs, portVars
      <3>4. hs2 + j = hs + i /\ hs2 \in Nat /\ j \in {0, 1} /\ i \in {0, 1}
        BY <1>6, OneType
      <3> HIDE DEF c, d, dd, hs, os, es, ss, ts, hs2
      <3> QED BY <3>1, <3>2, <3>3, <3>4
    <2>2. s = r + i
      BY <1>5
    <2>3. /\ d \in Nat /\ n \in Nat /\ m \in Nat /\ e \in Nat /\ f \in Nat /\ r \in Int
          /\ r = d + n /\ (r > 0 => queueLife[x] = "live")
          /\ e > 0 => queueLife[x] = "live" /\ r = 0
          /\ e <= 1
      BY <1>1, <1>11, QueueFacts
    <2>4. m = n + j /\ f = e
      BY <1>13
    <2>5. i = 1 => r > 0 /\ queueLife[x] = "live" /\ e = 0
      <3>1. q = x => r > 0 /\ queueLife[x] = "live" /\ e = 0
        BY <1>1, <1>5, Held DEF Number
      <3> QED BY <3>1, OneType
    <2>6. queueLife'[x] = queueLife[x]
      BY <1>3
    <2> HIDE DEF d, c, n, m, e, f, r, s, i, j
    <2>7. /\ s = c + m /\ (s > 0 => queueLife'[x] = "live")
          /\ f > 0 => queueLife'[x] = "live" /\ s = 0
          /\ f <= 1
      BY <2>1, <2>2, <2>3, <2>4, <2>5, <2>6
    <2> QED BY <2>7 DEF QueueCount, Holders, Number, c, m, f, s
  <1>16. CountsOK'
    BY <1>1, <1>3, <1>13, <1>14, <1>15, EndsKept, PortsKept, PoolsKept DEF CountsOK, portVars
  <1>17. OrderOK' /\ LinksOK'
    BY <1>1, <1>3, <1>7, <1>10, StillOrdered, LinksKept DEF portVars
  <1> QED BY <1>12, <1>16, <1>17 DEF LifeInv

\* No handle is installed.
LEMMA SetNothingKeeps ==
  ASSUME LifetimeConstants, ExclusiveSet, LifeInv, NEW t \in Threads, SetNothing(t)
  PROVE  LifeInv'
  <1> DEFINE o == IF process \in Handles THEN handles[process].queue ELSE None
             steps == Do("queue", handles[process].queue)
  <1>1. TypeInv
    BY DEF LifeInv
  <1>2. /\ UNCHANGED <<queueVars, portVars, ending, ended, default, pc, own>>
        /\ \A u \in Clients : pc[u] # "duplicate"
        /\ process' = None
        /\ process \in Handles => /\ handles' = [handles EXCEPT ![process] = NoHandle]
                                  /\ todo' = [todo EXCEPT ![t] = steps \o @]
        /\ process \notin Handles => handles' = handles /\ todo' = todo
    BY DEF SetNothing, Exchange, GoOn
  <1>3. /\ todo \in [Threads -> Seq(Things)] /\ queueRefs \in [Queues -> Int]
        /\ handles \in [Handles -> [queue : Queues \cup {None}, user : Clients \cup {None}]]
        /\ process \in Handles => handles[process].queue \in Queues
        /\ None \notin Queues /\ None \notin Handles
    BY <1>1 DEF TypeInv, QueuesOK, OthersOK, ThreadsOK, LifetimeConstants
  <1>4. \A u \in Threads : pc[u] # "duplicate"
    BY <1>1, <1>2 DEF TypeInv, ThreadsOK
  <1>5. handles' \in [Handles -> [queue : Queues \cup {None}, user : Clients \cup {None}]]
    <2>1. NoHandle \in [queue : Queues \cup {None}, user : Clients \cup {None}]
      BY DEF NoHandle
    <2> QED BY <1>2, <1>3, <2>1
  <1>6. process \in Handles => steps \in Seq(Things)
    <2>1. process \in Handles => Item("queue", handles[process].queue) \in Things
      BY <1>3 DEF Item, Things
    <2> QED BY <2>1, DoWeights
  <1>7. /\ o \in Queues => todo'[t] = Do("queue", o) \o todo[t]
        /\ o = None => todo'[t] = todo[t]
        /\ \A u \in Threads \ {t} : todo'[u] = todo[u]
    BY <1>2, <1>3
  <1> HIDE DEF steps
  <1>8. todo' \in [Threads -> Seq(Things)]
    <2>1. process \in Handles => steps \o todo[t] \in Seq(Things)
      BY <1>3, <1>6, ConcatProperties
    <2>2. CASE process \in Handles
      BY <1>2, <1>3, <2>1, <2>2
    <2>3. CASE process \notin Handles
      BY <1>2, <1>3, <2>3
    <2> QED BY <2>2, <2>3
  <1>9. ASSUME NEW x \in Queues
        PROVE  /\ Cardinality(HandleRefs(x)') \in Nat
               /\ Cardinality(HandleRefs(x)') + One(o = x) = Cardinality(HandleRefs(x)) + One(None = x)
               /\ queueRefs'[x] = queueRefs[x] + One(None = x)
    <2>1. One(None = x) = 0 /\ Cardinality(HandleRefs(x)) \in Nat /\ queueRefs[x] \in Int
      BY <1>1, <1>3, CountTypes DEF One
    <2>2. CASE process \in Handles
      <3>1. /\ handles'[process].queue = None /\ \A k \in Handles \ {process} : handles'[k] = handles[k]
        BY <1>2, <1>3, <2>2 DEF NoHandle
      <3>2. /\ Cardinality(HandleRefs(x)') \in Nat
            /\ Cardinality(HandleRefs(x)') + One(handles[process].queue = x)
                  = Cardinality(HandleRefs(x)) + One(handles'[process].queue = x)
        BY <1>1, <2>2, <3>1, HandleChange
      <3> QED BY <1>2, <2>1, <2>2, <3>1, <3>2 DEF queueVars
    <2>3. CASE process \notin Handles
      <3>1. HandleRefs(x)' = HandleRefs(x) /\ One(o = x) = 0
        BY <1>2, <1>3, <2>3 DEF HandleRefs, One
      <3> QED BY <1>2, <2>1, <3>1 DEF queueVars
    <2> QED BY <2>2, <2>3
  <1>10. o \in Queues \cup {None}
    BY <1>3
  <1> HIDE DEF o
  <1>11. \E q \in {None} : Exchanged(t, q, o)
    BY <1>2, <1>3, <1>4, <1>5, <1>7, <1>8, <1>9 DEF Exchanged, queueVars
  <1> QED BY <1>10, <1>11, ExchangeKeeps

\* A duplicate is installed.
LEMMA SetKeeps ==
  ASSUME LifetimeConstants, ExclusiveSet, LifeInv, NEW t \in Threads, NEW g \in Handles,
         NEW h \in Handles, Set(t, g, h)
  PROVE  LifeInv'
  <1> DEFINE o == IF process \in Handles THEN handles[process].queue ELSE None
             steps == Do("queue", handles[process].queue)
             q == handles[g].queue
             new == [queue |-> q, user |-> None]
  <1>1. TypeInv
    BY DEF LifeInv
  <1>2. /\ UNCHANGED <<queueLife, ports, sources, attached, portVars, ending, ended, default, pc, own>>
        /\ \A u \in Clients : pc[u] # "duplicate"
        /\ process' = h /\ q # None /\ handles[h] = NoHandle
        /\ queueRefs' = [queueRefs EXCEPT ![q] = @ + 1]
        /\ process \in Handles => /\ handles' = [[handles EXCEPT ![h] = new] EXCEPT ![process] = NoHandle]
                                  /\ todo' = [todo EXCEPT ![t] = steps \o @]
        /\ process \notin Handles => handles' = [handles EXCEPT ![h] = new] /\ todo' = todo
    BY DEF Set, Exchange, GoOn, Usable, Free
  <1>3. /\ todo \in [Threads -> Seq(Things)] /\ queueRefs \in [Queues -> Int]
        /\ handles \in [Handles -> [queue : Queues \cup {None}, user : Clients \cup {None}]]
        /\ process \in Handles => handles[process].queue \in Queues
        /\ None \notin Queues /\ None \notin Handles /\ q \in Queues
    BY <1>1, <1>2 DEF TypeInv, QueuesOK, OthersOK, ThreadsOK, LifetimeConstants
  <1>4. \A u \in Threads : pc[u] # "duplicate"
    BY <1>1, <1>2 DEF TypeInv, ThreadsOK
  <1>5. process # h /\ handles[h].queue = None
    BY <1>2, <1>3 DEF NoHandle
  <1> HIDE DEF q
  <1>6. /\ handles' \in [Handles -> [queue : Queues \cup {None}, user : Clients \cup {None}]]
        /\ handles'[h].queue = q /\ handles'[h].user = None
        /\ process \in Handles => handles'[process].queue = None
        /\ \A k \in Handles \ {h, process} : handles'[k] = handles[k]
    <2>1. new \in [queue : Queues \cup {None}, user : Clients \cup {None}] /\ new.queue = q /\ new.user = None
      BY <1>3
    <2>2. /\ NoHandle \in [queue : Queues \cup {None}, user : Clients \cup {None}]
          /\ NoHandle.queue = None
      BY DEF NoHandle
    <2> HIDE DEF new
    <2>3. CASE process \in Handles
      BY <1>2, <1>3, <1>5, <2>1, <2>2, <2>3
    <2>4. CASE process \notin Handles
      BY <1>2, <1>3, <1>5, <2>1, <2>4
    <2> QED BY <2>3, <2>4
  <1>7. process \in Handles => steps \in Seq(Things)
    <2>1. process \in Handles => Item("queue", handles[process].queue) \in Things
      BY <1>3 DEF Item, Things
    <2> QED BY <2>1, DoWeights
  <1>8. /\ o \in Queues => todo'[t] = Do("queue", o) \o todo[t]
        /\ o = None => todo'[t] = todo[t]
        /\ \A u \in Threads \ {t} : todo'[u] = todo[u]
    BY <1>2, <1>3
  <1> HIDE DEF steps
  <1>9. todo' \in [Threads -> Seq(Things)]
    <2>1. process \in Handles => steps \o todo[t] \in Seq(Things)
      BY <1>3, <1>7, ConcatProperties
    <2>2. CASE process \in Handles
      BY <1>2, <1>3, <2>1, <2>2
    <2>3. CASE process \notin Handles
      BY <1>2, <1>3, <2>3
    <2> QED BY <2>2, <2>3
  <1>10. ASSUME NEW x \in Queues
         PROVE  /\ Cardinality(HandleRefs(x)') \in Nat
                /\ Cardinality(HandleRefs(x)') + One(o = x) = Cardinality(HandleRefs(x)) + One(q = x)
    <2>1. /\ One(None = x) = 0 /\ Cardinality(HandleRefs(x)) \in Nat /\ One(q = x) \in Nat
          /\ One(o = x) \in Nat
      BY <1>1, <1>3, CountTypes, OneType DEF One
    <2>2. CASE process \in Handles
      <3>1. /\ Cardinality(HandleRefs(x)') \in Nat
            /\ Cardinality(HandleRefs(x)') + One(handles[h].queue = x) + One(handles[process].queue = x)
                  = Cardinality(HandleRefs(x)) + One(handles'[h].queue = x) + One(handles'[process].queue = x)
        BY <1>1, <1>5, <1>6, <2>2, TwoHandles
      <3>2. /\ One(handles[h].queue = x) = 0 /\ One(handles'[process].queue = x) = 0
            /\ One(handles[process].queue = x) = One(o = x) /\ One(handles'[h].queue = x) = One(q = x)
        BY <1>5, <1>6, <2>1, <2>2
      <3> QED BY <2>1, <3>1, <3>2
    <2>3. CASE process \notin Handles
      <3>1. /\ Cardinality(HandleRefs(x)') \in Nat
            /\ Cardinality(HandleRefs(x)') + One(handles[h].queue = x)
                  = Cardinality(HandleRefs(x)) + One(handles'[h].queue = x)
        BY <1>1, <1>6, <2>3, HandleChange
      <3>2. One(handles[h].queue = x) = 0 /\ One(o = x) = 0 /\ One(handles'[h].queue = x) = One(q = x)
        BY <1>5, <1>6, <2>1, <2>3
      <3> QED BY <2>1, <3>1, <3>2
    <2> QED BY <2>2, <2>3
  <1>11. o \in Queues \cup {None} /\ handles[g].queue = q
    BY <1>3 DEF q
  <1>12. queueRefs' \in [Queues -> Int] /\ \A x \in Queues : queueRefs'[x] = queueRefs[x] + One(q = x)
    BY <1>2, <1>3 DEF One
  <1> HIDE DEF o
  <1>13. Exchanged(t, q, o)
    BY <1>2, <1>3, <1>4, <1>6, <1>8, <1>9, <1>10, <1>11, <1>12 DEF Exchanged
  <1> QED BY <1>3, <1>11, <1>13, ExchangeKeeps

-----------------------------------------------------------------------------
(* Queues that are made *)

\* A queue with its own ports: each has one context, and a pool object.
LEMMA QueueMade ==
  ASSUME LifetimeConstants, LifeInv, NEW q \in Queues, MakeQueue(q, 1),
         UNCHANGED <<entries, submitted, items, todo>>
  PROVE  /\ QueuesOK' /\ PortsOK' /\ LinksOK'
         /\ \A p \in Ports : PortCount(p)' /\ PoolCount(p)'
         /\ \A x \in Queues :
               /\ SourceRefs(x)' = SourceRefs(x)
               /\ queueRefs'[x] = queueRefs[x] + One(q = x)
               /\ queueLife'[x] = (IF x = q THEN "live" ELSE queueLife[x])
               /\ x = q => queueRefs[x] = 0 /\ Total({Item("delete", x)}, todo, Threads) = 0
  <1>1. TypeInv /\ CountsOK /\ OrderOK /\ LinksOK
    BY DEF LifeInv
  <1>2. /\ queueLife[q] = "none"
        /\ queueLife' = [queueLife EXCEPT ![q] = "live"]
        /\ queueRefs' = [queueRefs EXCEPT ![q] = 1]
        /\ ports' = [ports EXCEPT ![q] = [y \in Types |-> <<q, y>>]]
        /\ portLife' = [p \in Ports |-> IF p[1] = q THEN "live" ELSE portLife[p]]
        /\ portRefs' = [p \in Ports |-> IF p[1] = q THEN 1 ELSE portRefs[p]]
        /\ poolRefs' = [p \in Ports |-> IF p[1] = q THEN 1 ELSE poolRefs[p]]
        /\ attached' = [p \in Ports |-> IF p[1] = q THEN {p} ELSE attached[p]]
        /\ sources' = sources
    BY DEF MakeQueue
  <1>3. /\ queueRefs[q] = 0 /\ Number({Item("delete", q)}) = 0
        /\ \A y \in Types :
              /\ sources[q][y] = None /\ submitted[<<q, y>>] = 0 /\ ContextRefs(<<q, y>>) = {}
              /\ Number({Item("port", <<q, y>>)}) = 0 /\ Number({Item("erase", <<q, y>>)}) = 0
              /\ Number({Item("pool", <<q, y>>)}) = 0
    <2>1. queueRefs[q] = 0 /\ Number({Item("delete", q)}) = 0
      BY <1>2, Unmade
    <2>2. ASSUME NEW y \in Types
          PROVE  /\ sources[q][y] = None /\ submitted[<<q, y>>] = 0 /\ ContextRefs(<<q, y>>) = {}
                 /\ Number({Item("port", <<q, y>>)}) = 0 /\ Number({Item("erase", <<q, y>>)}) = 0
                 /\ Number({Item("pool", <<q, y>>)}) = 0
      <3>1. queueLife[q] = "none"
        BY <1>2
      <3>2. \A z \in Types :
              /\ sources[q][z] = None /\ portLife[<<q, z>>] = "none"
              /\ portRefs[<<q, z>>] = 0 /\ Users(<<q, z>>) = 0 /\ submitted[<<q, z>>] = 0
              /\ ContextRefs(<<q, z>>) = {} /\ Number({Item("port", <<q, z>>)}) = 0
              /\ Number({Item("erase", <<q, z>>)}) = 0 /\ Number({Item("pool", <<q, z>>)}) = 0
              /\ poolRefs[<<q, z>>] = 0
        BY <3>1, Unmade
      <3> QED BY <3>2
    <2> QED BY <2>1, <2>2
  <1>4. /\ queueLife \in [Queues -> {"none", "live", "deleted"}] /\ queueRefs \in [Queues -> Int]
        /\ ports \in [Queues -> [Types -> Ports \cup {None}]]
        /\ sources \in [Queues -> [Types -> Queues \cup {None}]]
        /\ attached \in [Ports -> SUBSET Ports] /\ None \notin Queues
    BY <1>1 DEF TypeInv, QueuesOK, LifetimeConstants
  <1>5. /\ \A p \in Ports : p[1] \in Queues /\ p[2] \in Types /\ p = <<p[1], p[2]>>
        /\ \A x \in Queues, y \in Types : <<x, y>> \in Ports /\ <<x, y>>[1] = x /\ <<x, y>>[2] = y
    BY DEF Ports
  <1>6. /\ \A x \in Queues : queueLife'[x] = (IF x = q THEN "live" ELSE queueLife[x])
        /\ \A x \in Queues \ {q} : ports'[x] = ports[x]
        /\ \A y \in Types : ports'[q][y] = <<q, y>>
    BY <1>2, <1>4
  <1>7. QueuesOK'
    <2>1. [y \in Types |-> <<q, y>>] \in [Types -> Ports \cup {None}]
      BY <1>5
    <2>2. ports' \in [Queues -> [Types -> Ports \cup {None}]]
      BY <1>2, <1>4, <2>1
    <2>3. /\ queueLife' \in [Queues -> {"none", "live", "deleted"}] /\ queueRefs' \in [Queues -> Int]
          /\ attached' \in [Ports -> SUBSET Ports]
      BY <1>2, <1>4
    <2> QED BY <1>2, <1>4, <2>2, <2>3 DEF QueuesOK
  <1>8. PortsOK'
    <2>1. /\ portLife' \in [Ports -> {"none", "live", "deleted"}] /\ portRefs' \in [Ports -> Int]
          /\ poolRefs' \in [Ports -> Int]
      BY <1>1, <1>2 DEF TypeInv, PortsOK
    <2> QED BY <1>1, <2>1 DEF TypeInv, PortsOK
  <1>9. LinksOK'
    <2>1. ASSUME NEW x \in Queues
          PROVE  /\ queueLife'[x] = "live" =>
                       \A y \in Types : /\ ports'[x][y] \in Ports
                                        /\ ports'[x][y][1] \in {x, sources'[x][y]}
                 /\ queueLife'[x] = "none" =>
                       \A y \in Types : sources'[x][y] = None /\ portLife'[<<x, y>>] = "none"
      <3>1. CASE x = q
        <4>1. queueLife'[x] = "live"
          BY <1>6, <3>1
        <4>2. ASSUME NEW y \in Types
              PROVE  ports'[x][y] \in Ports /\ ports'[x][y][1] = x
          <5>1. ports'[x][y] = <<q, y>>
            BY <1>6, <3>1
          <5>2. <<q, y>> \in Ports /\ <<q, y>>[1] = q
            BY <1>5
          <5> QED BY <3>1, <5>1, <5>2
        <4> QED BY <4>1, <4>2
      <3>2. CASE x # q
        <4>1. \A y \in Types : portLife'[<<x, y>>] = portLife[<<x, y>>]
          BY <1>2, <1>5, <3>2
        <4> QED BY <1>1, <1>2, <1>6, <3>2, <4>1 DEF LinksOK
      <3> QED BY <3>1, <3>2
    <2>2. ASSUME NEW p \in Ports, NEW c \in attached'[p]
          PROVE  queueLife'[c[1]] = "live"
      <3>1. CASE p[1] = q
        BY <1>2, <1>6, <3>1
      <3>2. CASE p[1] # q
        <4>1. c \in attached[p] /\ c \in Ports
          BY <1>2, <1>4, <3>2
        <4>2. queueLife[c[1]] = "live" /\ c[1] \in Queues
          BY <1>1, <1>5, <4>1 DEF LinksOK
        <4> QED BY <1>6, <4>2
      <3> QED BY <3>1, <3>2
    <2> QED BY <2>1, <2>2 DEF LinksOK
  <1>10. ASSUME NEW p \in Ports
         PROVE  PortCount(p)' /\ PoolCount(p)'
    <2>1. PortCount(p) /\ PoolCount(p)
      BY <1>1 DEF CountsOK
    <2>2. ContextRefs(p)' = {c \in Ports : queueLife'[c[1]] = "live" /\ ports'[c[1]][c[2]] = p}
      BY DEF ContextRefs
    <2>3. CASE p[1] = q
      <3> DEFINE y == p[2]
      <3>1. p = <<q, y>> /\ y \in Types
        BY <1>5, <2>3
      <3>2. /\ submitted[p] = 0 /\ ContextRefs(p) = {} /\ Number({Item("port", p)}) = 0
            /\ Number({Item("erase", p)}) = 0 /\ Number({Item("pool", p)}) = 0
        BY <1>3, <3>1
      <3>3. ASSUME NEW c \in Ports
            PROVE  c \in ContextRefs(p)' <=> c = p
        <4>1. CASE c[1] = q
          <5>1. ports'[c[1]][c[2]] = c /\ queueLife'[c[1]] = "live"
            BY <1>5, <1>6, <4>1
          <5> QED BY <2>2, <5>1
        <4>2. CASE c[1] # q
          <5>1. ~(queueLife[c[1]] = "live" /\ ports[c[1]][c[2]] = p)
            BY <3>2 DEF ContextRefs
          <5> QED BY <1>5, <1>6, <2>2, <2>3, <4>2, <5>1
        <4> QED BY <4>1, <4>2
      <3>4. ContextRefs(p)' = {p}
        BY <2>2, <3>3
      <3>5. Cardinality(ContextRefs(p)') = 1
        BY <3>4, FS_Singleton
      <3>6. portRefs'[p] = 1 /\ portLife'[p] = "live" /\ poolRefs'[p] = 1 /\ One(portLife'[p] = "live") = 1
        BY <1>2, <2>3 DEF One
      <3>7. PortCount(p)'
        BY <3>2, <3>5, <3>6 DEF PortCount, Users, Number
      <3>8. PoolCount(p)'
        BY <3>2, <3>6 DEF PoolCount, Number
      <3> QED BY <3>7, <3>8
    <2>4. CASE p[1] # q
      <3>1. ASSUME NEW c \in Ports
            PROVE  c \in ContextRefs(p)' <=> c \in ContextRefs(p)
        <4>1. CASE c[1] = q
          <5>1. ports'[c[1]][c[2]] # p /\ queueLife[c[1]] # "live"
            BY <1>2, <1>5, <1>6, <2>4, <4>1
          <5> QED BY <2>2, <5>1 DEF ContextRefs
        <4>2. CASE c[1] # q
          <5>1. ports'[c[1]][c[2]] = ports[c[1]][c[2]] /\ queueLife'[c[1]] = queueLife[c[1]]
            BY <1>5, <1>6, <4>2
          <5> QED BY <2>2, <5>1 DEF ContextRefs
        <4> QED BY <4>1, <4>2
      <3>2. ContextRefs(p)' = ContextRefs(p)
        BY <2>2, <3>1 DEF ContextRefs
      <3>3. portRefs'[p] = portRefs[p] /\ portLife'[p] = portLife[p] /\ poolRefs'[p] = poolRefs[p]
        BY <1>2, <2>4
      <3> QED BY <2>1, <3>2, <3>3 DEF PortCount, PoolCount, Users, Number
    <2> QED BY <2>3, <2>4
  <1>11. ASSUME NEW x \in Queues
         PROVE  SourceRefs(x)' = SourceRefs(x)
    <2>1. ASSUME NEW c \in Ports
          PROVE  (queueLife'[c[1]] = "live" /\ sources'[c[1]][c[2]] = x)
                    <=> (queueLife[c[1]] = "live" /\ sources[c[1]][c[2]] = x)
      <3>1. CASE c[1] = q
        <4>1. sources[c[1]][c[2]] = None /\ sources'[c[1]][c[2]] = None
          BY <1>2, <1>3, <1>5, <3>1
        <4>2. x # None
          BY <1>4
        <4> QED BY <4>1, <4>2
      <3>2. CASE c[1] # q
        BY <1>2, <1>5, <1>6, <3>2
      <3> QED BY <3>1, <3>2
    <2> QED BY <2>1 DEF SourceRefs
  <1>12. \A x \in Queues : /\ queueRefs'[x] = queueRefs[x] + One(q = x)
                           /\ x = q => queueRefs[x] = 0 /\ Total({Item("delete", x)}, todo, Threads) = 0
    <2>1. ASSUME NEW x \in Queues
          PROVE  queueRefs'[x] = queueRefs[x] + One(q = x)
      <3>1. CASE x = q
        BY <1>2, <1>3, <1>4, <3>1 DEF One
      <3>2. CASE x # q
        BY <1>2, <1>4, <3>2 DEF One
      <3> QED BY <3>1, <3>2
    <2>2. ASSUME NEW x \in Queues, x = q
          PROVE  queueRefs[x] = 0 /\ Total({Item("delete", x)}, todo, Threads) = 0
      BY <1>3, <2>2 DEF Number
    <2> QED BY <2>1, <2>2
  <1> QED BY <1>6, <1>7, <1>8, <1>9, <1>10, <1>11, <1>12

\* A new queue has one reference, that of its handle.
LEMMA CreateKeeps ==
  ASSUME LifetimeConstants, LifeInv, NEW t \in Threads, NEW q \in Queues, NEW h \in Handles,
         Create(t, q, h)
  PROVE  LifeInv'
  <1>1. TypeInv /\ CountsOK /\ OrderOK /\ LinksOK
    BY DEF LifeInv
  <1>2. /\ UNCHANGED <<entries, submitted, items, ending, ended, process, default, pc, todo, own>>
        /\ MakeQueue(q, 1)
        /\ handles' = [handles EXCEPT ![h] = [queue |-> q, user |-> t]]
        /\ handles[h] = NoHandle /\ t \in Clients
    BY DEF Create, NewHandle, Free, May
  <1>3. /\ QueuesOK' /\ PortsOK' /\ LinksOK'
        /\ \A p \in Ports : PortCount(p)' /\ PoolCount(p)'
        /\ \A x \in Queues :
              /\ SourceRefs(x)' = SourceRefs(x)
              /\ queueRefs'[x] = queueRefs[x] + One(q = x)
              /\ queueLife'[x] = (IF x = q THEN "live" ELSE queueLife[x])
              /\ x = q => queueRefs[x] = 0 /\ Total({Item("delete", x)}, todo, Threads) = 0
    BY <1>2, QueueMade
  <1>4. /\ handles \in [Handles -> [queue : Queues \cup {None}, user : Clients \cup {None}]]
        /\ todo \in [Threads -> Seq(Things)] /\ None \notin Queues
    BY <1>1 DEF TypeInv, OthersOK, ThreadsOK, LifetimeConstants
  <1>5. /\ handles' \in [Handles -> [queue : Queues \cup {None}, user : Clients \cup {None}]]
        /\ handles'[h].queue = q /\ handles[h].queue = None
        /\ \A k \in Handles \ {h} : handles'[k] = handles[k]
        /\ process # h
    <2>1. process \in Handles => handles[process].queue \in Queues
      BY <1>1 DEF TypeInv, ThreadsOK
    <2> QED BY <1>2, <1>4, <2>1 DEF NoHandle
  <1>6. \A K : Total(K, todo', Threads) \in Nat /\ Total(K, todo, Threads) \in Nat
    BY <1>2, <1>4, TodoType
  <1>7. TypeInv'
    <2>1. OthersOK' /\ ThreadsOK'
      BY <1>1, <1>2, <1>5 DEF TypeInv, OthersOK, ThreadsOK
    <2> QED BY <1>3, <2>1 DEF TypeInv
  <1>8. ASSUME NEW x \in Queues
         PROVE  QueueCount(x)'
    <2> DEFINE d == Direct(x)
               c == Direct(x)'
               n == Total(QueueItems(x), todo, Threads)
               m == Total(QueueItems(x), todo', Threads)
               e == Total({Item("delete", x)}, todo, Threads)
               f == Total({Item("delete", x)}, todo', Threads)
               r == queueRefs[x]
               s == queueRefs'[x]
    <2>1. c = d + (IF q = x THEN 1 ELSE 0) /\ c \in Nat
      <3> DEFINE dd == One(default = x)
                 hs == Cardinality(HandleRefs(x))
                 os == Cardinality(OwnRefs(x))
                 es == Total({x}, entries, Ports)
                 ss == Cardinality(SourceRefs(x))
                 ts == Cardinality(EndRefs(x))
                 hs2 == Cardinality(HandleRefs(x)')
      <3>1. d = dd + hs + os + es + ss + ts
        BY DEF Direct
      <3>2. /\ dd \in Nat /\ hs \in Nat /\ os \in Nat /\ es \in Nat /\ ss \in Nat /\ ts \in Nat
        BY <1>1, CountTypes
      <3>3. c = dd + hs2 + os + es + ss + ts
        BY <1>2, <1>3 DEF Direct, OwnRefs, SourceRefs, EndRefs
      <3>4. hs2 = hs + (IF q = x THEN 1 ELSE 0) /\ hs2 \in Nat
        <4>1. hs2 \in Nat /\ hs2 + One(handles[h].queue = x) = hs + One(handles'[h].queue = x)
          BY <1>1, <1>4, <1>5, HandleChange
        <4>2. /\ One(handles[h].queue = x) = 0
              /\ One(handles'[h].queue = x) = (IF q = x THEN 1 ELSE 0)
          BY <1>1, <1>4, <1>5 DEF One
        <4>3. hs \in Nat
          BY <3>2
        <4> HIDE DEF hs, hs2
        <4> QED BY <4>1, <4>2, <4>3
      <3> HIDE DEF c, d, dd, hs, os, es, ss, ts, hs2
      <3> QED BY <3>1, <3>2, <3>3, <3>4
    <2>2. s = r + (IF q = x THEN 1 ELSE 0)
      BY <1>3 DEF One
    <2>3. /\ d \in Nat /\ n \in Nat /\ m \in Nat /\ e \in Nat /\ f \in Nat /\ r \in Int
          /\ r = d + n /\ (r > 0 => queueLife[x] = "live")
          /\ e > 0 => queueLife[x] = "live" /\ r = 0
          /\ e <= 1
      BY <1>1, <1>6, QueueFacts
    <2>4. m = n /\ f = e
      BY <1>2
    <2>5. q = x => r = 0 /\ e = 0
      BY <1>3
    <2>6. queueLife'[x] = (IF q = x THEN "live" ELSE queueLife[x])
      BY <1>3
    <2> HIDE DEF d, c, n, m, e, f, r, s
    <2>7. /\ s = c + m /\ (s > 0 => queueLife'[x] = "live")
          /\ f > 0 => queueLife'[x] = "live" /\ s = 0
          /\ f <= 1
      BY <2>1, <2>2, <2>3, <2>4, <2>5, <2>6
    <2> QED BY <2>7 DEF QueueCount, Holders, Number, c, m, f, s
  <1>9. CountsOK'
    BY <1>1, <1>2, <1>3, <1>8, EndsKept DEF CountsOK
  <1>10. OrderOK'
    BY <1>1, <1>2 DEF OrderOK
  <1> QED BY <1>3, <1>7, <1>9, <1>10 DEF LifeInv

\* A new default queue has one reference, that of g_defaultProcessQueue.
LEMMA MakeDefaultKeeps ==
  ASSUME LifetimeConstants, LifeInv, NEW t \in Threads, NEW q \in Queues, MakeDefault(t, q)
  PROVE  LifeInv'
  <1>1. TypeInv /\ CountsOK /\ OrderOK /\ LinksOK
    BY DEF LifeInv
  <1>2. /\ UNCHANGED <<entries, submitted, items, handles, ending, ended, process, todo, own>>
        /\ pc' = [pc EXCEPT ![t] = "duplicate"] /\ pc[t] = "default"
        /\ default = None => MakeQueue(q, 1) /\ default' = q
        /\ default # None => UNCHANGED <<default, queueVars, portRefs, portLife, poolRefs>>
    BY DEF MakeDefault, Goto
  <1>3. /\ todo \in [Threads -> Seq(Things)] /\ None \notin Queues /\ default \in Queues \cup {None}
        /\ pc \in [Threads -> Labels] /\ own[t] = "default" /\ t \in Clients
        /\ own[t] \notin Queues /\ own[t] # None
    BY <1>1, <1>2 DEF TypeInv, OthersOK, ThreadsOK, LifetimeConstants
  <1>4. pc'[t] = "duplicate" /\ default' \in Queues /\ \A u \in Threads \ {t} : pc'[u] = pc[u]
    BY <1>2, <1>3
  <1>5. OthersOK' /\ ThreadsOK'
    <2>1. ThreadsOK'
      <3>1. /\ pc' \in [Threads -> Labels]
            /\ own' \in [Threads -> Queues \cup Handles \cup {"default", None}]
        BY <1>1, <1>2, <1>3 DEF Labels, TypeInv, ThreadsOK
      <3>2. ASSUME NEW u \in Threads
            PROVE  /\ pc'[u] \in {"submit", "terminate", "call"} <=> own'[u] \in Queues
                   /\ pc'[u] = "idle" <=> own'[u] = None
                   /\ pc'[u] = "default" => own'[u] = "default"
                   /\ pc'[u] \in {"default", "duplicate"} => u \in Clients
                   /\ pc'[u] = "duplicate" =>
                        \/ own'[u] = "default" /\ default' \in Queues
                        \/ own'[u] \in Handles /\ own'[u] = process'
        <4>1. CASE u = t
          BY <1>2, <1>3, <1>4, <4>1
        <4>2. CASE u # t
          BY <1>1, <1>2, <1>4, <4>2 DEF TypeInv, ThreadsOK
        <4> QED BY <4>1, <4>2
      <3>3. process' \in Handles => handles'[process'].queue \in Queues /\ handles'[process'].user = None
        BY <1>1, <1>2 DEF TypeInv, ThreadsOK
      <3> QED BY <1>2, <1>3, <3>1, <3>2, <3>3 DEF ThreadsOK
    <2>2. OthersOK'
      BY <1>1, <1>2, <1>4 DEF TypeInv, OthersOK
    <2> QED BY <2>1, <2>2
  <1>6. \A x \in Queues : EndCount(x)'
    <2> SUFFICES ASSUME NEW x \in Queues
                 PROVE  EndCount(x)'
      OBVIOUS
    <2>1. EndCount(x)
      BY <1>1 DEF CountsOK
    <2>2. EndingRefs(x)' = EndingRefs(x) /\ EndRefs(x)' = EndRefs(x)
      BY <1>2, <1>4 DEF EndingRefs, EndRefs
    <2> QED BY <1>2, <2>1, <2>2 DEF EndCount, Number, EndItems
  <1>7. OrderOK'
    BY <1>1, <1>2 DEF OrderOK
  <1>8. CASE default # None
    <2>1. CountsOK'
      BY <1>1, <1>2, <1>6, <1>8, QueuesKept, PortsKept, PoolsKept DEF CountsOK, queueVars
    <2>2. QueuesOK' /\ PortsOK' /\ LinksOK'
      BY <1>1, <1>2, <1>8, LinksKept DEF TypeInv, QueuesOK, PortsOK, queueVars
    <2> QED BY <1>5, <1>7, <2>1, <2>2 DEF LifeInv, TypeInv
  <1>9. CASE default = None
    <2>1. /\ QueuesOK' /\ PortsOK' /\ LinksOK'
          /\ \A p \in Ports : PortCount(p)' /\ PoolCount(p)'
          /\ \A x \in Queues :
                /\ SourceRefs(x)' = SourceRefs(x)
                /\ queueRefs'[x] = queueRefs[x] + One(q = x)
                /\ queueLife'[x] = (IF x = q THEN "live" ELSE queueLife[x])
                /\ x = q => queueRefs[x] = 0 /\ Total({Item("delete", x)}, todo, Threads) = 0
      BY <1>2, <1>9, QueueMade
    <2>2. \A K : Total(K, todo', Threads) \in Nat /\ Total(K, todo, Threads) \in Nat
      BY <1>2, <1>3, TodoType
    <2>3. ASSUME NEW x \in Queues
           PROVE  QueueCount(x)'
      <3> DEFINE d == Direct(x)
                 c == Direct(x)'
                 n == Total(QueueItems(x), todo, Threads)
                 m == Total(QueueItems(x), todo', Threads)
                 e == Total({Item("delete", x)}, todo, Threads)
                 f == Total({Item("delete", x)}, todo', Threads)
                 r == queueRefs[x]
                 s == queueRefs'[x]
      <3>1. c = d + (IF q = x THEN 1 ELSE 0) /\ c \in Nat
        <4> DEFINE dd == One(default = x)
                   hs == Cardinality(HandleRefs(x))
                   os == Cardinality(OwnRefs(x))
                   es == Total({x}, entries, Ports)
                   ss == Cardinality(SourceRefs(x))
                   ts == Cardinality(EndRefs(x))
                   dd2 == One(default' = x)
        <4>1. d = dd + hs + os + es + ss + ts
          BY DEF Direct
        <4>2. /\ dd \in Nat /\ hs \in Nat /\ os \in Nat /\ es \in Nat /\ ss \in Nat /\ ts \in Nat
          BY <1>1, CountTypes
        <4>3. c = dd2 + hs + os + es + ss + ts
          BY <1>2, <2>1 DEF Direct, HandleRefs, OwnRefs, SourceRefs, EndRefs
        <4>4. dd2 = dd + (IF q = x THEN 1 ELSE 0) /\ dd2 \in Nat
          BY <1>2, <1>3, <1>9 DEF One
        <4> HIDE DEF c, d, dd, hs, os, es, ss, ts, dd2
        <4> QED BY <4>1, <4>2, <4>3, <4>4
      <3>2. s = r + (IF q = x THEN 1 ELSE 0)
        BY <2>1 DEF One
      <3>3. /\ d \in Nat /\ n \in Nat /\ m \in Nat /\ e \in Nat /\ f \in Nat /\ r \in Int
            /\ r = d + n /\ (r > 0 => queueLife[x] = "live")
            /\ e > 0 => queueLife[x] = "live" /\ r = 0
            /\ e <= 1
        BY <1>1, <2>2, QueueFacts
      <3>4. m = n /\ f = e
        BY <1>2
      <3>5. q = x => r = 0 /\ e = 0
        BY <2>1
      <3>6. queueLife'[x] = (IF q = x THEN "live" ELSE queueLife[x])
        BY <2>1
      <3> HIDE DEF d, c, n, m, e, f, r, s
      <3>7. /\ s = c + m /\ (s > 0 => queueLife'[x] = "live")
            /\ f > 0 => queueLife'[x] = "live" /\ s = 0
            /\ f <= 1
        BY <3>1, <3>2, <3>3, <3>4, <3>5, <3>6
      <3> QED BY <3>7 DEF QueueCount, Holders, Number, c, m, f, s
    <2>4. CountsOK'
      BY <1>6, <2>1, <2>3 DEF CountsOK
    <2> QED BY <1>5, <1>7, <2>1, <2>4 DEF LifeInv, TypeInv
  <1> QED BY <1>8, <1>9

\* A port is alive, and so is the queue that made it.
Reached(p) ==
    /\ queueLife[p[1]] = "live" /\ Number({Item("delete", p[1])}) = 0
    /\ portLife[p] = "live" /\ Number({Item("erase", p)}) = 0

\* The ports of a queue that has a handle are alive, and the queues that made them.
LEMMA HandlePorts ==
  ASSUME LifetimeConstants, LifeInv, NEW g \in Handles, NEW a, a = handles[g].queue, a # None,
         NEW y \in Types, NEW p, p = ports[a][y]
  PROVE  p \in Ports /\ Reached(p)
  <1>1. a \in Queues /\ TypeInv /\ CountsOK /\ LinksOK
    BY DEF LifeInv, TypeInv, OthersOK
  <1>2. queueLife[a] = "live" /\ Number({Item("delete", a)}) = 0
    BY <1>1, Held
  <1>3. /\ p \in Ports /\ p[1] \in Queues /\ portLife[p] = "live" /\ Number({Item("erase", p)}) = 0
    BY <1>1, <1>2, LivePorts
  <1>4. p[1] \in {a, sources[a][y]}
    BY <1>1, <1>2 DEF LinksOK
  <1>5. CASE p[1] = a
    BY <1>2, <1>3, <1>5 DEF Reached
  <1>6. CASE p[1] # a
    <2>1. /\ <<a, y>> \in Ports /\ <<a, y>>[1] = a /\ <<a, y>>[2] = y
      BY <1>1 DEF Ports
    <2>2. \E c \in Ports : queueLife[c[1]] = "live" /\ sources[c[1]][c[2]] = p[1]
      BY <1>2, <1>4, <1>6, <2>1
    <2>3. queueLife[p[1]] = "live" /\ Number({Item("delete", p[1])}) = 0
      BY <1>1, <1>3, <2>2, Held
    <2> QED BY <1>3, <2>3 DEF Reached
  <1> QED BY <1>5, <1>6

\* A composite of two ports
LEMMA QueueComposed ==
  ASSUME LifetimeConstants, LifeInv, NEW q \in Queues, NEW p \in Ports, NEW r \in Ports,
         Compose(q, p, r), UNCHANGED <<entries, submitted, items, todo>>,
         Reached(p), Reached(r)
  PROVE  /\ QueuesOK' /\ PortsOK' /\ LinksOK'
         /\ \A o \in Ports : PortCount(o)' /\ PoolCount(o)'
         /\ \A x \in Queues :
               /\ Cardinality(SourceRefs(x)') \in Nat
               /\ Cardinality(SourceRefs(x)')
                     = Cardinality(SourceRefs(x)) + One(p[1] = x) + One(r[1] = x)
               /\ queueRefs'[x] = queueRefs[x] + One(p[1] = x) + One(r[1] = x) + One(q = x)
               /\ queueLife'[x] = (IF x = q THEN "live" ELSE queueLife[x])
               /\ x = q => queueRefs[x] = 0 /\ Total({Item("delete", x)}, todo, Threads) = 0
               /\ (p[1] = x \/ r[1] = x) =>
                     queueLife[x] = "live" /\ Total({Item("delete", x)}, todo, Threads) = 0
  <1> DEFINE taken == [y \in Types |-> IF y = "Work" THEN p ELSE r]
  <1>1. TypeInv /\ CountsOK /\ OrderOK /\ LinksOK
    BY DEF LifeInv
  <1>2. /\ queueLife[q] = "none"
        /\ queueLife' = [queueLife EXCEPT ![q] = "live"]
        /\ ports' = [ports EXCEPT ![q] = taken]
        /\ sources' = [sources EXCEPT ![q] = [y \in Types |-> taken[y][1]]]
        /\ portRefs' = [o \in Ports |-> portRefs[o] + Cardinality({y \in Types : taken[y] = o})]
        /\ queueRefs' = [s \in Queues |-> queueRefs[s] + Cardinality({y \in Types : taken[y][1] = s})
                                            + (IF s = q THEN 1 ELSE 0)]
        /\ attached' = [o \in Ports |->
                          attached[o] \cup {<<q, y>> : y \in {z \in Types : taken[z] = o}}]
        /\ portLife' = portLife /\ poolRefs' = poolRefs
    BY DEF Compose
  <1>3. /\ queueLife \in [Queues -> {"none", "live", "deleted"}] /\ queueRefs \in [Queues -> Int]
        /\ ports \in [Queues -> [Types -> Ports \cup {None}]]
        /\ sources \in [Queues -> [Types -> Queues \cup {None}]]
        /\ attached \in [Ports -> SUBSET Ports] /\ portRefs \in [Ports -> Int] /\ None \notin Queues
    BY <1>1 DEF TypeInv, QueuesOK, PortsOK, LifetimeConstants
  <1>4. /\ \A o \in Ports : o[1] \in Queues /\ o[2] \in Types /\ o = <<o[1], o[2]>>
        /\ \A x \in Queues, y \in Types : <<x, y>> \in Ports /\ <<x, y>>[1] = x /\ <<x, y>>[2] = y
    BY DEF Ports
  <1>5. /\ taken \in [Types -> Ports] /\ taken["Work"] = p /\ taken["Completion"] = r
        /\ \A y \in Types : taken[y] \in {p, r} /\ taken[y] \in Ports
        /\ "Work" \in Types /\ "Completion" \in Types
    BY DEF Types
  <1>6. p[1] \in Queues /\ r[1] \in Queues /\ p[1] # q /\ r[1] # q
    BY <1>2, <1>4 DEF Reached
  <1> HIDE DEF taken
  <1>7. /\ \A x \in Queues : queueLife'[x] = (IF x = q THEN "live" ELSE queueLife[x])
        /\ \A x \in Queues \ {q} : ports'[x] = ports[x] /\ sources'[x] = sources[x]
        /\ ports'[q] = taken /\ \A y \in Types : sources'[q][y] = taken[y][1]
    BY <1>2, <1>3
  <1>8. /\ \A o \in Ports : Cardinality({y \in Types : taken[y] = o}) = One(p = o) + One(r = o)
        /\ \A x \in Queues :
              Cardinality({y \in Types : taken[y][1] = x}) = One(p[1] = x) + One(r[1] = x)
    <2>1. ASSUME NEW o \in Ports
          PROVE  Cardinality({y \in Types : taken[y] = o}) = One(p = o) + One(r = o)
      <3> DEFINE Y == {y \in Types : taken[y] = o}
      <3>1. Y \in SUBSET Types /\ ("Work" \in Y <=> p = o) /\ ("Completion" \in Y <=> r = o)
        BY <1>5
      <3> HIDE DEF Y
      <3>2. One("Work" \in Y) = One(p = o) /\ One("Completion" \in Y) = One(r = o)
        BY <3>1 DEF One
      <3>3. Cardinality(Y) = One("Work" \in Y) + One("Completion" \in Y)
        BY <3>1, TypesCount
      <3> QED BY <3>2, <3>3 DEF Y
    <2>2. ASSUME NEW x \in Queues
          PROVE  Cardinality({y \in Types : taken[y][1] = x}) = One(p[1] = x) + One(r[1] = x)
      <3> DEFINE Y == {y \in Types : taken[y][1] = x}
      <3>1. Y \in SUBSET Types /\ ("Work" \in Y <=> p[1] = x) /\ ("Completion" \in Y <=> r[1] = x)
        BY <1>5
      <3> HIDE DEF Y
      <3>2. One("Work" \in Y) = One(p[1] = x) /\ One("Completion" \in Y) = One(r[1] = x)
        BY <3>1 DEF One
      <3>3. Cardinality(Y) = One("Work" \in Y) + One("Completion" \in Y)
        BY <3>1, TypesCount
      <3> QED BY <3>2, <3>3 DEF Y
    <2> QED BY <2>1, <2>2
  <1>9. /\ \A o \in Ports : portRefs'[o] = portRefs[o] + One(p = o) + One(r = o)
        /\ \A x \in Queues : queueRefs'[x] = queueRefs[x] + One(p[1] = x) + One(r[1] = x) + One(q = x)
    <2>1. ASSUME NEW o \in Ports
          PROVE  portRefs'[o] = portRefs[o] + One(p = o) + One(r = o)
      <3>1. portRefs'[o] = portRefs[o] + (One(p = o) + One(r = o))
        BY <1>2, <1>8
      <3>2. portRefs[o] \in Int /\ One(p = o) \in {0, 1} /\ One(r = o) \in {0, 1}
        BY <1>3, OneType
      <3> QED BY <3>1, <3>2
    <2>2. ASSUME NEW x \in Queues
          PROVE  queueRefs'[x] = queueRefs[x] + One(p[1] = x) + One(r[1] = x) + One(q = x)
      <3>1. queueRefs'[x] = queueRefs[x] + (One(p[1] = x) + One(r[1] = x)) + (IF x = q THEN 1 ELSE 0)
        BY <1>2, <1>8
      <3>2. /\ queueRefs[x] \in Int /\ One(p[1] = x) \in {0, 1} /\ One(r[1] = x) \in {0, 1}
            /\ One(q = x) = (IF x = q THEN 1 ELSE 0)
        BY <1>3, OneType DEF One
      <3> QED BY <3>1, <3>2
    <2> QED BY <2>1, <2>2
  <1>10. QueuesOK'
    <2>1. ports' \in [Queues -> [Types -> Ports \cup {None}]]
      BY <1>2, <1>3, <1>5
    <2>2. [y \in Types |-> taken[y][1]] \in [Types -> Queues \cup {None}]
      BY <1>4, <1>5
    <2>3. sources' \in [Queues -> [Types -> Queues \cup {None}]]
      BY <1>2, <1>3, <2>2
    <2>4. attached' \in [Ports -> SUBSET Ports]
      <3>1. ASSUME NEW o \in Ports
            PROVE  attached[o] \cup {<<q, y>> : y \in {z \in Types : taken[z] = o}} \in SUBSET Ports
        BY <1>3, <1>4
      <3> QED BY <1>2, <3>1
    <2>5. queueRefs' \in [Queues -> Int]
      <3>1. ASSUME NEW x \in Queues
            PROVE  queueRefs'[x] \in Int
        <4>1. /\ queueRefs[x] \in Int /\ One(p[1] = x) \in {0, 1} /\ One(r[1] = x) \in {0, 1}
              /\ One(q = x) \in {0, 1}
          BY <1>3, OneType
        <4> QED BY <1>9, <4>1
      <3>2. queueRefs' = [x \in Queues |-> queueRefs'[x]]
        BY <1>2
      <3> QED BY <3>1, <3>2
    <2>6. queueLife' \in [Queues -> {"none", "live", "deleted"}]
      BY <1>2, <1>3
    <2> QED BY <2>1, <2>3, <2>4, <2>5, <2>6 DEF QueuesOK
  <1>11. PortsOK'
    <2>1. portRefs' \in [Ports -> Int]
      <3>1. ASSUME NEW o \in Ports
            PROVE  portRefs'[o] \in Int
        <4>1. portRefs[o] \in Int /\ One(p = o) \in {0, 1} /\ One(r = o) \in {0, 1}
          BY <1>3, OneType
        <4> QED BY <1>9, <4>1
      <3>2. portRefs' = [o \in Ports |-> portRefs'[o]]
        BY <1>2
      <3> QED BY <3>1, <3>2
    <2> QED BY <1>1, <1>2, <2>1 DEF TypeInv, PortsOK
  <1>12. LinksOK'
    <2>1. ASSUME NEW x \in Queues
          PROVE  /\ queueLife'[x] = "live" =>
                       \A y \in Types : /\ ports'[x][y] \in Ports
                                        /\ ports'[x][y][1] \in {x, sources'[x][y]}
                 /\ queueLife'[x] = "none" =>
                       \A y \in Types : sources'[x][y] = None /\ portLife'[<<x, y>>] = "none"
      <3>1. CASE x = q
        <4>1. queueLife'[x] = "live"
          BY <1>7, <3>1
        <4>2. ASSUME NEW y \in Types
              PROVE  ports'[x][y] \in Ports /\ ports'[x][y][1] = sources'[x][y]
          <5>1. ports'[x][y] = taken[y] /\ sources'[x][y] = taken[y][1] /\ taken[y] \in Ports
            BY <1>5, <1>7, <3>1
          <5> QED BY <5>1
        <4> QED BY <4>1, <4>2
      <3>2. CASE x # q
        <4>1. queueLife'[x] = queueLife[x] /\ ports'[x] = ports[x] /\ sources'[x] = sources[x]
          BY <1>7, <3>2
        <4> QED BY <1>1, <1>2, <4>1 DEF LinksOK
      <3> QED BY <3>1, <3>2
    <2>2. ASSUME NEW o \in Ports, NEW c \in attached'[o]
          PROVE  queueLife'[c[1]] = "live"
      <3>1. c \in attached[o] \/ \E y \in Types : c = <<q, y>>
        BY <1>2
      <3>2. CASE c \in attached[o]
        <4>1. c \in Ports /\ queueLife[c[1]] = "live" /\ c[1] \in Queues
          BY <1>1, <1>3, <1>4, <3>2 DEF LinksOK
        <4> QED BY <1>7, <4>1
      <3>3. CASE \E y \in Types : c = <<q, y>>
        <4>1. c[1] = q
          BY <3>3
        <4> QED BY <1>7, <4>1
      <3> QED BY <3>1, <3>2, <3>3
    <2> QED BY <2>1, <2>2 DEF LinksOK
  <1>13. ASSUME NEW o \in Ports
         PROVE  PortCount(o)' /\ PoolCount(o)'
    <2> DEFINE A == ContextRefs(o)
               B == ContextRefs(o)'
               w == <<q, "Work">>
               z == <<q, "Completion">>
    <2>1. /\ A = {c \in Ports : queueLife[c[1]] = "live" /\ ports[c[1]][c[2]] = o}
          /\ B = {c \in Ports : queueLife'[c[1]] = "live" /\ ports'[c[1]][c[2]] = o}
      BY DEF ContextRefs
    <2>2. /\ w \in Ports /\ w[1] = q /\ w[2] = "Work" /\ z \in Ports /\ z[1] = q /\ z[2] = "Completion"
      BY <1>4, <1>5
    <2>3. IsFiniteSet(A)
      BY <1>1, PortFacts
    <2> HIDE DEF A, B, w, z
    <2>4. w \notin A /\ z \notin A /\ (w \in B <=> p = o) /\ (z \in B <=> r = o)
      <3>1. w \notin A /\ z \notin A
        BY <1>2, <2>1, <2>2
      <3>2. queueLife'[q] = "live" /\ ports'[q]["Work"] = p /\ ports'[q]["Completion"] = r
        BY <1>5, <1>7
      <3> QED BY <2>1, <2>2, <3>1, <3>2
    <2>5. A \ ({q} \X Types) = B \ ({q} \X Types)
      <3>1. ASSUME NEW c \in Ports, c \notin {q} \X Types
            PROVE  c \in A <=> c \in B
        <4>1. c[1] \in Queues /\ c[1] # q
          BY <1>4, <3>1
        <4>2. queueLife'[c[1]] = queueLife[c[1]] /\ ports'[c[1]] = ports[c[1]]
          BY <1>7, <4>1
        <4> QED BY <2>1, <4>2
      <3>2. A \subseteq Ports /\ B \subseteq Ports
        BY <2>1
      <3> QED BY <3>1, <3>2
    <2>6. /\ Cardinality(A) \in Nat /\ Cardinality(B) \in Nat
          /\ Cardinality(B) = Cardinality(A)
                + One(w \in B) - One(w \in A) + One(z \in B) - One(z \in A)
      BY <2>3, <2>5, PairUpdate DEF w, z
    <2>7. /\ One(w \in A) = 0 /\ One(z \in A) = 0
          /\ One(w \in B) = One(p = o) /\ One(z \in B) = One(r = o)
          /\ One(p = o) \in {0, 1} /\ One(r = o) \in {0, 1}
      BY <2>4 DEF One
    <2>8. Cardinality(B) = Cardinality(A) + One(p = o) + One(r = o)
      BY <2>6, <2>7
    <2> DEFINE n == Total({Item("port", o)}, todo, Threads)
               m == Total({Item("port", o)}, todo', Threads)
               e == Total({Item("erase", o)}, todo, Threads)
               f == Total({Item("erase", o)}, todo', Threads)
               a == Cardinality(A)
               b == Cardinality(B)
               u == One(p = o)
               v == One(r = o)
               k == portRefs[o]
               l == portRefs'[o]
               s == submitted[o]
               live == portLife[o] = "live"
    <2>9. /\ k \in Int /\ s \in Nat /\ a \in Nat /\ n \in Nat /\ e \in Nat
          /\ k = a + s + n /\ (k > 0 => live) /\ (e > 0 => live /\ k = 0) /\ e <= 1
      BY <1>1, PortFacts DEF A
    <2>10. m = n /\ f = e
      BY DEF m, n
    <2>11. b = a + u + v /\ u \in {0, 1} /\ v \in {0, 1} /\ l = k + u + v
      BY <1>9, <2>7, <2>8
    <2>12. u = 1 \/ v = 1 => live /\ e = 0
      <3>1. (p = o \/ r = o) => portLife[o] = "live" /\ Number({Item("erase", o)}) = 0
        BY DEF Reached
      <3>2. (u = 1 => p = o) /\ (v = 1 => r = o)
        BY OneType
      <3> QED BY <3>1, <3>2 DEF Number
    <2>13. portLife'[o] = portLife[o] /\ submitted'[o] = s /\ poolRefs'[o] = poolRefs[o]
      BY <1>2
    <2> HIDE DEF n, m, e, f, a, b, u, v, k, l, s, live
    <2>14. /\ l = b + s + m /\ (l > 0 => live) /\ (f > 0 => live /\ l = 0) /\ f <= 1
      BY <2>9, <2>10, <2>11, <2>12
    <2>15. PortCount(o)'
      BY <2>13, <2>14 DEF PortCount, Users, Number, b, B, m, f, l, live, s
    <2>16. PoolCount(o)'
      BY <1>1, <2>13 DEF CountsOK, PoolCount, Number
    <2> QED BY <2>15, <2>16
  <1>14. ASSUME NEW x \in Queues
         PROVE  /\ Cardinality(SourceRefs(x)') \in Nat
                /\ Cardinality(SourceRefs(x)')
                      = Cardinality(SourceRefs(x)) + One(p[1] = x) + One(r[1] = x)
    <2> DEFINE A == SourceRefs(x)
               B == SourceRefs(x)'
               w == <<q, "Work">>
               z == <<q, "Completion">>
    <2>1. /\ A = {c \in Ports : queueLife[c[1]] = "live" /\ sources[c[1]][c[2]] = x}
          /\ B = {c \in Ports : queueLife'[c[1]] = "live" /\ sources'[c[1]][c[2]] = x}
      BY DEF SourceRefs
    <2>2. /\ w \in Ports /\ w[1] = q /\ w[2] = "Work" /\ z \in Ports /\ z[1] = q /\ z[2] = "Completion"
      BY <1>4, <1>5
    <2>3. IsFiniteSet(A)
      BY <1>1, CountTypes
    <2> HIDE DEF A, B, w, z
    <2>4. w \notin A /\ z \notin A /\ (w \in B <=> p[1] = x) /\ (z \in B <=> r[1] = x)
      <3>1. w \notin A /\ z \notin A
        BY <1>2, <2>1, <2>2
      <3>2. queueLife'[q] = "live" /\ sources'[q]["Work"] = p[1] /\ sources'[q]["Completion"] = r[1]
        BY <1>5, <1>7
      <3> QED BY <2>1, <2>2, <3>1, <3>2
    <2>5. A \ ({q} \X Types) = B \ ({q} \X Types)
      <3>1. ASSUME NEW c \in Ports, c \notin {q} \X Types
            PROVE  c \in A <=> c \in B
        <4>1. c[1] \in Queues /\ c[1] # q
          BY <1>4, <3>1
        <4>2. queueLife'[c[1]] = queueLife[c[1]] /\ sources'[c[1]] = sources[c[1]]
          BY <1>7, <4>1
        <4> QED BY <2>1, <4>2
      <3>2. A \subseteq Ports /\ B \subseteq Ports
        BY <2>1
      <3> QED BY <3>1, <3>2
    <2>6. /\ Cardinality(A) \in Nat /\ Cardinality(B) \in Nat
          /\ Cardinality(B) = Cardinality(A)
                + One(w \in B) - One(w \in A) + One(z \in B) - One(z \in A)
      BY <2>3, <2>5, PairUpdate DEF w, z
    <2>7. /\ One(w \in A) = 0 /\ One(z \in A) = 0
          /\ One(w \in B) = One(p[1] = x) /\ One(z \in B) = One(r[1] = x)
          /\ One(p[1] = x) \in {0, 1} /\ One(r[1] = x) \in {0, 1}
      BY <2>4 DEF One
    <2>8. Cardinality(B) = Cardinality(A) + One(p[1] = x) + One(r[1] = x)
      BY <2>6, <2>7
    <2> QED BY <2>6, <2>8 DEF A, B
  <1>15. ASSUME NEW x \in Queues, x = q
         PROVE  queueRefs[x] = 0 /\ Total({Item("delete", x)}, todo, Threads) = 0
    BY <1>2, <1>15, Unmade DEF Number
  <1>16. ASSUME NEW x \in Queues, p[1] = x \/ r[1] = x
         PROVE  queueLife[x] = "live" /\ Total({Item("delete", x)}, todo, Threads) = 0
    BY <1>16 DEF Number, Reached
  <1> QED BY <1>7, <1>9, <1>10, <1>11, <1>12, <1>13, <1>14, <1>15, <1>16

\* A composite holds the queues of its ports.
LEMMA CreateCompositeKeeps ==
  ASSUME LifetimeConstants, LifeInv, NEW t \in Threads, NEW q \in Queues, NEW h \in Handles,
         CreateComposite(t, q, h)
  PROVE  LifeInv'
  <1>1. TypeInv /\ CountsOK /\ OrderOK /\ LinksOK
    BY DEF LifeInv
  <1>2. /\ UNCHANGED <<entries, submitted, items, ending, ended, process, default, pc, todo, own>>
        /\ handles' = [handles EXCEPT ![h] = [queue |-> q, user |-> t]]
        /\ handles[h] = NoHandle /\ t \in Clients
    BY DEF CreateComposite, NewHandle, Free, May
  <1>3. PICK p \in Ports, r \in Ports :
           Compose(q, p, r) /\ Reached(p) /\ Reached(r)
    <2>1. PICK g \in Handles, k \in Handles, y \in Types, z \in Types :
             /\ Usable(t, g) /\ Usable(t, k)
             /\ Compose(q, ports[handles[g].queue][y], ports[handles[k].queue][z])
      BY DEF CreateComposite
    <2> DEFINE p == ports[handles[g].queue][y]
               r == ports[handles[k].queue][z]
    <2>2. p \in Ports /\ Reached(p)
      <3>1. handles[g].queue # None
        BY <2>1 DEF Usable
      <3> QED BY <3>1, HandlePorts
    <2>3. r \in Ports /\ Reached(r)
      <3>1. handles[k].queue # None
        BY <2>1 DEF Usable
      <3> QED BY <3>1, HandlePorts
    <2>4. Compose(q, p, r)
      BY <2>1
    <2> HIDE DEF p, r
    <2> QED BY <2>2, <2>3, <2>4
  <1>4. /\ QueuesOK' /\ PortsOK' /\ LinksOK'
        /\ \A o \in Ports : PortCount(o)' /\ PoolCount(o)'
        /\ \A x \in Queues :
              /\ Cardinality(SourceRefs(x)') \in Nat
              /\ Cardinality(SourceRefs(x)')
                    = Cardinality(SourceRefs(x)) + One(p[1] = x) + One(r[1] = x)
              /\ queueRefs'[x] = queueRefs[x] + One(p[1] = x) + One(r[1] = x) + One(q = x)
              /\ queueLife'[x] = (IF x = q THEN "live" ELSE queueLife[x])
              /\ x = q => queueRefs[x] = 0 /\ Total({Item("delete", x)}, todo, Threads) = 0
              /\ (p[1] = x \/ r[1] = x) =>
                    queueLife[x] = "live" /\ Total({Item("delete", x)}, todo, Threads) = 0
    <2>1. UNCHANGED <<entries, submitted, items, todo>>
      BY <1>2
    <2> QED BY <1>3, <2>1, QueueComposed
  <1>5. /\ handles \in [Handles -> [queue : Queues \cup {None}, user : Clients \cup {None}]]
        /\ todo \in [Threads -> Seq(Things)] /\ None \notin Queues
    BY <1>1 DEF TypeInv, OthersOK, ThreadsOK, LifetimeConstants
  <1>6. /\ handles' \in [Handles -> [queue : Queues \cup {None}, user : Clients \cup {None}]]
        /\ handles'[h].queue = q /\ handles[h].queue = None
        /\ \A k \in Handles \ {h} : handles'[k] = handles[k]
        /\ process # h
    <2>1. process \in Handles => handles[process].queue \in Queues
      BY <1>1 DEF TypeInv, ThreadsOK
    <2> QED BY <1>2, <1>5, <2>1 DEF NoHandle
  <1>7. \A K : Total(K, todo', Threads) \in Nat /\ Total(K, todo, Threads) \in Nat
    BY <1>2, <1>5, TodoType
  <1>8. TypeInv'
    <2>1. OthersOK' /\ ThreadsOK'
      BY <1>1, <1>2, <1>6 DEF TypeInv, OthersOK, ThreadsOK
    <2> QED BY <1>4, <2>1 DEF TypeInv
  <1>9. ASSUME NEW x \in Queues
         PROVE  QueueCount(x)'
    <2> DEFINE d == Direct(x)
               c == Direct(x)'
               n == Total(QueueItems(x), todo, Threads)
               m == Total(QueueItems(x), todo', Threads)
               e == Total({Item("delete", x)}, todo, Threads)
               f == Total({Item("delete", x)}, todo', Threads)
               rr == queueRefs[x]
               s == queueRefs'[x]
               k == One(p[1] = x) + One(r[1] = x)
    <2>1. c = d + k + (IF q = x THEN 1 ELSE 0) /\ c \in Nat
      <3> DEFINE dd == One(default = x)
                 hs == Cardinality(HandleRefs(x))
                 os == Cardinality(OwnRefs(x))
                 es == Total({x}, entries, Ports)
                 ss == Cardinality(SourceRefs(x))
                 ts == Cardinality(EndRefs(x))
                 hs2 == Cardinality(HandleRefs(x)')
                 ss2 == Cardinality(SourceRefs(x)')
      <3>1. d = dd + hs + os + es + ss + ts
        BY DEF Direct
      <3>2. /\ dd \in Nat /\ hs \in Nat /\ os \in Nat /\ es \in Nat /\ ss \in Nat /\ ts \in Nat
        BY <1>1, CountTypes
      <3>3. c = dd + hs2 + os + es + ss2 + ts
        BY <1>2 DEF Direct, OwnRefs, EndRefs
      <3>4. hs2 = hs + (IF q = x THEN 1 ELSE 0) /\ hs2 \in Nat
        <4>1. hs2 \in Nat /\ hs2 + One(handles[h].queue = x) = hs + One(handles'[h].queue = x)
          BY <1>1, <1>5, <1>6, HandleChange
        <4>2. /\ One(handles[h].queue = x) = 0
              /\ One(handles'[h].queue = x) = (IF q = x THEN 1 ELSE 0)
          BY <1>1, <1>5, <1>6 DEF One
        <4>3. hs \in Nat
          BY <3>2
        <4> HIDE DEF hs, hs2
        <4> QED BY <4>1, <4>2, <4>3
      <3>5. ss2 = ss + k /\ ss2 \in Nat /\ k \in Nat
        <4>1. /\ ss2 = ss + One(p[1] = x) + One(r[1] = x) /\ ss2 \in Nat
              /\ One(p[1] = x) \in {0, 1} /\ One(r[1] = x) \in {0, 1}
          BY <1>4, OneType
        <4>2. ss \in Nat
          BY <3>2
        <4> HIDE DEF ss, ss2
        <4> QED BY <4>1, <4>2
      <3> HIDE DEF c, d, k, dd, hs, os, es, ss, ts, hs2, ss2
      <3> QED BY <3>1, <3>2, <3>3, <3>4, <3>5
    <2>2. s = rr + k + (IF q = x THEN 1 ELSE 0)
      <3>1. /\ s = rr + One(p[1] = x) + One(r[1] = x) + One(q = x) /\ rr \in Int
            /\ One(p[1] = x) \in {0, 1} /\ One(r[1] = x) \in {0, 1}
        BY <1>1, <1>4, OneType DEF TypeInv, QueuesOK
      <3>2. One(q = x) = (IF q = x THEN 1 ELSE 0)
        BY DEF One
      <3> HIDE DEF s, rr
      <3> QED BY <3>1, <3>2
    <2>3. /\ d \in Nat /\ n \in Nat /\ m \in Nat /\ e \in Nat /\ f \in Nat /\ rr \in Int
          /\ rr = d + n /\ (rr > 0 => queueLife[x] = "live")
          /\ e > 0 => queueLife[x] = "live" /\ rr = 0
          /\ e <= 1
      BY <1>1, <1>7, QueueFacts
    <2>4. m = n /\ f = e
      BY <1>2
    <2>5. q = x => rr = 0 /\ e = 0
      BY <1>4
    <2>6. queueLife'[x] = (IF q = x THEN "live" ELSE queueLife[x])
      BY <1>4
    <2>7. k \in 0 .. 2 /\ (k > 0 => queueLife[x] = "live" /\ e = 0)
      <3>1. /\ One(p[1] = x) \in {0, 1} /\ One(r[1] = x) \in {0, 1}
            /\ (One(p[1] = x) = 1 => p[1] = x) /\ (One(r[1] = x) = 1 => r[1] = x)
        BY OneType
      <3>2. (p[1] = x \/ r[1] = x) => queueLife[x] = "live" /\ e = 0
        BY <1>4
      <3> HIDE DEF e
      <3> QED BY <3>1, <3>2
    <2> HIDE DEF d, c, n, m, e, f, rr, s, k
    <2>8. /\ s = c + m /\ (s > 0 => queueLife'[x] = "live")
          /\ f > 0 => queueLife'[x] = "live" /\ s = 0
          /\ f <= 1
      BY <2>1, <2>2, <2>3, <2>4, <2>5, <2>6, <2>7
    <2> QED BY <2>8 DEF QueueCount, Holders, Number, c, m, f, s
  <1>10. CountsOK'
    BY <1>1, <1>2, <1>4, <1>9, EndsKept DEF CountsOK
  <1>11. OrderOK'
    BY <1>1, <1>2 DEF OrderOK
  <1> QED BY <1>4, <1>8, <1>10, <1>11 DEF LifeInv

-----------------------------------------------------------------------------
(* Every step keeps the invariant *)

\* Nothing changes.
LEMMA StutterKeeps ==
  ASSUME LifeInv, UNCHANGED vars
  PROVE  LifeInv'
  <1>1. /\ UNCHANGED <<queueRefs, queueLife, ports, sources, attached>>
        /\ UNCHANGED <<portRefs, portLife, entries, submitted, poolRefs, items>>
        /\ UNCHANGED <<handles, ending, ended, process, default, pc, todo, own>>
    BY DEF vars, queueVars, portVars
  <1>2. TypeInv'
    BY <1>1 DEF LifeInv, TypeInv, QueuesOK, PortsOK, OthersOK, ThreadsOK
  <1>3. CountsOK'
    <2>1. CountsOK
      BY DEF LifeInv
    <2>2. \A x \in Queues : QueueCount(x)'
      BY <1>1, <2>1, QueuesKept
    <2>3. \A x \in Queues : EndCount(x)'
      BY <1>1, <2>1, EndsKept
    <2>4. \A x \in Ports : PortCount(x)'
      BY <1>1, <2>1, PortsKept
    <2>5. \A x \in Ports : PoolCount(x)'
      BY <1>1, <2>1, PoolsKept
    <2> QED BY <2>2, <2>3, <2>4, <2>5 DEF CountsOK
  <1>4. OrderOK' /\ LinksOK'
    BY <1>1, LinksKept DEF LifeInv, OrderOK
  <1> QED BY <1>2, <1>3, <1>4 DEF LifeInv

\* No queue is made yet.
LEMMA InitLifeInv ==
  ASSUME LifetimeConstants, Init
  PROVE  LifeInv
  <1>1. \A K : Number(K) = 0
    <2> SUFFICES ASSUME NEW K
                 PROVE  Number(K) = 0
      OBVIOUS
    <2>1. \A t \in Threads : Positions(K, todo[t]) = {}
      BY DEF Init, Positions
    <2>2. Spots(K, todo, Threads) = {}
      BY <2>1 DEF Spots
    <2> QED BY <2>2, FS_EmptySet DEF Number, Total
  <1>2. TypeInv
    <2>1. None \notin Queues /\ None # "default" /\ None # "invalid" /\ "invalid" \notin Handles
      BY DEF LifetimeConstants
    <2>2. \A s : <<>> \in Seq(s)
      OBVIOUS
    <2>3. QueuesOK /\ PortsOK
      BY <2>2 DEF Init, QueuesOK, PortsOK, LifetimeConstants
    <2>4. OthersOK
      BY DEF Init, OthersOK, NoHandle
    <2>5. ThreadsOK
      BY <2>1, <2>2 DEF Init, ThreadsOK, Labels
    <2> QED BY <2>3, <2>4, <2>5 DEF TypeInv
  <1>3. ASSUME NEW q \in Queues
        PROVE  QueueCount(q) /\ EndCount(q)
    <2>1. None # q
      BY DEF LifetimeConstants
    <2>2. HandleRefs(q) = {} /\ OwnRefs(q) = {} /\ EndRefs(q) = {} /\ EndingRefs(q) = {}
      BY <2>1 DEF Init, NoHandle, HandleRefs, OwnRefs, EndRefs, EndingRefs
    <2>3. SourceRefs(q) = {}
      BY <2>1 DEF Init, SourceRefs, Ports
    <2>4. Total({q}, entries, Ports) = 0
      <3>1. \A p \in Ports : Positions({q}, entries[p]) = {}
        BY DEF Init, Positions
      <3>2. Spots({q}, entries, Ports) = {}
        BY <3>1 DEF Spots
      <3> QED BY <3>2, FS_EmptySet DEF Total
    <2>5. One(default = q) = 0 /\ One(q \in ended) = 0 /\ Cardinality({}) = 0
      BY <2>1, FS_EmptySet DEF Init, One
    <2>6. Direct(q) = 0
      BY <2>2, <2>3, <2>4, <2>5 DEF Direct
    <2>7. queueRefs[q] = 0
      BY DEF Init
    <2> QED BY <1>1, <2>2, <2>5, <2>6, <2>7 DEF QueueCount, Holders, EndCount
  <1>4. ASSUME NEW p \in Ports
        PROVE  PortCount(p) /\ PoolCount(p)
    <2>1. ContextRefs(p) = {}
      BY DEF Init, ContextRefs, Ports
    <2>2. /\ portRefs[p] = 0 /\ submitted[p] = 0 /\ poolRefs[p] = 0 /\ portLife[p] = "none"
          /\ One(portLife[p] = "live") = 0 /\ Cardinality({}) = 0
      BY FS_EmptySet DEF Init, One
    <2> QED BY <1>1, <2>1, <2>2 DEF PortCount, PoolCount, Users
  <1>5. OrderOK /\ LinksOK
    <2>1. OrderOK
      BY DEF Init, OrderOK, Ordered
    <2>2. LinksOK
      BY DEF Init, LinksOK, Ports
    <2> QED BY <2>1, <2>2
  <1> QED BY <1>2, <1>3, <1>4, <1>5 DEF LifeInv, CountsOK

\* One case for each action
LEMMA NextKeeps ==
  ASSUME LifetimeConstants, SetIsApart, LifeInv, Next
  PROVE  LifeInv'
  <1> PICK t \in Threads :
         \/ Step(t)
         \/ \E p \in Ports : CallPort(t, p)
         \/ \E q \in Queues, h \in Handles : Create(t, q, h) \/ CreateComposite(t, q, h)
         \/ \E g, h \in Handles : Duplicate(t, g, h) \/ Set(t, g, h)
         \/ \E h \in Handles : Close(t, h) \/ Submit(t, h) \/ Terminate(t, h) \/ Get(t, h)
         \/ SetNothing(t)
    BY DEF Next
  <1>1. CASE Step(t)
    <2>1. CASE ReleaseQueue(t)
      BY <2>1, ReleaseQueueKeeps
    <2>2. CASE DeleteQueue(t)
      BY <2>2, DeleteQueueKeeps
    <2>3. CASE ReleasePort(t)
      BY <2>3, ReleasePortKeeps
    <2>4. CASE DeletePort(t)
      BY <2>4, DeletePortKeeps
    <2>5. CASE QueueItem(t)
      BY <2>5, QueueItemKeeps
    <2>6. CASE ScheduleTermination(t)
      BY <2>6, ScheduleTerminationKeeps
    <2>7. CASE EndCall(t)
      BY <2>7, EndCallKeeps
    <2>8. CASE TakeTerminations(t)
      BY <2>8, TakeTerminationsKeeps
    <2>9. CASE CallTermination(t)
      BY <2>9, CallWorkTerminationKeeps, CallCompletionTerminationKeeps
    <2>10. CASE Complete(t)
      BY <2>10, CompleteKeeps
    <2>11. CASE ReleasePool(t)
      BY <2>11, ReleasePoolKeeps
    <2>12. ASSUME NEW q \in Queues, MakeDefault(t, q)
           PROVE  LifeInv'
      BY <2>12, MakeDefaultKeeps
    <2>13. ASSUME NEW h \in Handles, DuplicateCurrent(t, h)
           PROVE  LifeInv'
      BY <2>13, DuplicateCurrentKeeps
    <2> QED BY <1>1, <2>1, <2>2, <2>3, <2>4, <2>5, <2>6, <2>7, <2>8, <2>9, <2>10, <2>11, <2>12,
               <2>13 DEF Step
  <1>2. ASSUME NEW p \in Ports, CallPort(t, p)
        PROVE  LifeInv'
    BY <1>2, CallPortKeeps
  <1>3. ASSUME NEW q \in Queues, NEW h \in Handles, Create(t, q, h)
        PROVE  LifeInv'
    BY <1>3, CreateKeeps
  <1>4. ASSUME NEW q \in Queues, NEW h \in Handles, CreateComposite(t, q, h)
        PROVE  LifeInv'
    BY <1>4, CreateCompositeKeeps
  <1>5. ASSUME NEW g \in Handles, NEW h \in Handles, Duplicate(t, g, h)
        PROVE  LifeInv'
    BY <1>5, DuplicateKeeps
  <1>6. ASSUME NEW g \in Handles, NEW h \in Handles, Set(t, g, h)
        PROVE  LifeInv'
    <2>1. ExclusiveSet
      BY <1>6 DEF Set, May, SetIsApart
    <2> QED BY <1>6, <2>1, SetKeeps
  <1>7. ASSUME NEW h \in Handles, Close(t, h)
        PROVE  LifeInv'
    BY <1>7, CloseKeeps
  <1>8. ASSUME NEW h \in Handles, Submit(t, h)
        PROVE  LifeInv'
    BY <1>8, SubmitKeeps
  <1>9. ASSUME NEW h \in Handles, Terminate(t, h)
        PROVE  LifeInv'
    BY <1>9, TerminateKeeps
  <1>10. ASSUME NEW h \in Handles, Get(t, h)
         PROVE  LifeInv'
    BY <1>10, GetKeeps
  <1>11. CASE SetNothing(t)
    <2>1. ExclusiveSet
      BY <1>11 DEF SetNothing, May, SetIsApart
    <2> QED BY <1>11, <2>1, SetNothingKeeps
  <1> QED BY <1>1, <1>2, <1>3, <1>4, <1>5, <1>6, <1>7, <1>8, <1>9, <1>10, <1>11

-----------------------------------------------------------------------------
(* The theorems *)

\* The count of a queue, a port and a pool object is the number of the references that
\* lead to it, in every reachable state.
THEOREM LifetimeInvariant ==
  ASSUME LifetimeConstants, SetIsApart
  PROVE  Spec => []LifeInv
  <1>1. Init => LifeInv
    BY InitLifeInv
  <1>2. LifeInv /\ [Next]_vars => LifeInv'
    BY NextKeeps, StutterKeeps
  <1> QED BY <1>1, <1>2, PTL DEF Spec

\* Whoever follows a pointer to a task queue or a port (a handle, an entry, a termination,
\* a call, the process queue, a context that a port visits, a composite) finds it alive, if
\* XTaskQueueSetCurrentProcessTaskQueue closes no handle that is being duplicated.
THEOREM HeldAreAlive ==
  ASSUME LifetimeConstants, SetIsApart
  PROVE  Spec => []NothingDangles
  <1>1. LifeInv => NothingDangles
    BY LifeInvImplies
  <1> QED BY <1>1, LifetimeInvariant, PTL

\* The state of queues, ports and handles keeps its types; no count falls below zero.
THEOREM TypeCorrect ==
  ASSUME LifetimeConstants, SetIsApart
  PROVE  Spec => []TypeOK
  <1>1. LifeInv => TypeOK
    <2> SUFFICES ASSUME LifeInv
                 PROVE  TypeOK
      OBVIOUS
    <2>1. TypeInv /\ CountsOK
      BY DEF LifeInv
    <2>2. ASSUME NEW x \in Queues
          PROVE  queueRefs[x] \in Nat
      <3>1. /\ queueRefs[x] = Direct(x) + Total(QueueItems(x), todo, Threads) /\ Direct(x) \in Nat
            /\ Total(QueueItems(x), todo, Threads) \in Nat
        BY <2>1, QueueFacts
      <3> QED BY <3>1
    <2>3. ASSUME NEW x \in Ports
          PROVE  portRefs[x] \in Nat
      <3>1. /\ portRefs[x] = Cardinality(ContextRefs(x)) + submitted[x]
                                + Total({Item("port", x)}, todo, Threads)
            /\ Cardinality(ContextRefs(x)) \in Nat /\ submitted[x] \in Nat
            /\ Total({Item("port", x)}, todo, Threads) \in Nat
        BY <2>1, PortFacts
      <3> QED BY <3>1
    <2>4. ASSUME NEW x \in Ports
          PROVE  poolRefs[x] \in Nat
      <3>1. /\ poolRefs[x] = One(portLife[x] = "live") + Total({Item("pool", x)}, todo, Threads)
            /\ One(portLife[x] = "live") \in {0, 1} /\ Total({Item("pool", x)}, todo, Threads) \in Nat
        BY <2>1, PoolFacts
      <3> QED BY <3>1
    <2>5. /\ queueRefs \in [Queues -> Nat] /\ portRefs \in [Ports -> Nat]
          /\ poolRefs \in [Ports -> Nat] /\ submitted \in [Ports -> Nat]
      BY <2>1, <2>2, <2>3, <2>4 DEF TypeInv, QueuesOK, PortsOK
    <2> QED BY <2>1, <2>5 DEF TypeOK, TypeInv, QueuesOK, PortsOK, OthersOK, ThreadsOK
  <1> QED BY <1>1, LifetimeInvariant, PTL

=============================================================================
