------------------------- MODULE SubmitMonitorProofs -------------------------
(***************************************************************************)
(* Proofs about SubmitMonitor, for any number of queues, contexts,         *)
(* monitors, notifiers and slots.  The properties are not inductive: they  *)
(* hold because a reader has the mutex of what it reads for as long as it  *)
(* reads, so that no writer changes or swaps the buffers under it.         *)
(***************************************************************************)
EXTENDS SubmitMonitor, FiniteSetTheorems, FunctionTheorems, SequenceTheorems,
        WellFoundedInduction, TLAPS

Read(q) == slots[q][index[q]]

\* A mutex is held by the thread that reads, and the count of readers says so.
LocksOK ==
    /\ visitors = IF lock["vector"] = None THEN 0 ELSE 1
    /\ \A q \in Queues : callers[q] = IF lock[q] = None THEN 0 ELSE 1
    /\ \A t \in Notifiers :
          /\ pc[t] # "idle" <=> lock["vector"] = t
          /\ pc[t] = "invoke" => left[t] # <<>> /\ lock[QueueOf(Head(left[t]))] = t
          /\ \A q \in Queues :
                lock[q] = t => pc[t] = "invoke" /\ QueueOf(Head(left[t])) = q

\* The vector that is read holds the attached contexts, once each.
VectorOK ==
    LET read == contexts[current] IN
    /\ Range(read) = attached
    /\ \A i, j \in DOMAIN read : read[i] = read[j] => i = j

\* The slots that are read hold the registered monitors, once each.
SlotsOK ==
    \A q \in Queues :
        /\ {Read(q)[s].Token : s \in Active(q)} = {m \in held : MonitorQueue[m] = q}
        /\ \A r, s \in Active(q) : Read(q)[r].Token = Read(q)[s].Token => r = s

\* A reader has called the monitors in the slots before the one it is at.
CalledOK ==
    \A t \in Notifiers, q \in Queues :
        pc[t] = "invoke" /\ QueueOf(Head(left[t])) = q =>
            /\ slot[t] # 0
            /\ called[t] = {Read(q)[s].Token : s \in {r \in Active(q) : r < slot[t]}}

IInv == TypeOK /\ LocksOK /\ VectorOK /\ VisitedAreAttached /\ SlotsOK /\ CalledOK

-----------------------------------------------------------------------------
(* Where a context or a slot is read from *)

LEMMA ContextQueue ==
  ASSUME NEW c \in Contexts
  PROVE  QueueOf(c) \in Queues
  BY DEF Contexts, QueueOf

LEMMA ReaderQueue ==
  ASSUME TypeOK, LocksOK, NEW t \in Notifiers, pc[t] = "invoke"
  PROVE  QueueOf(Head(left[t])) \in Queues
  <1>1. left[t] \in Seq(Contexts) /\ left[t] # <<>>
    BY DEF TypeOK, LocksOK
  <1>2. Head(left[t]) \in Contexts
    BY <1>1, HeadTailProperties
  <1> QED BY <1>2, ContextQueue

\* Two readers are not at the same vector, nor at the same monitors.
LEMMA ReadersAreAlone ==
  ASSUME MonitorConstants, TypeOK, LocksOK, NEW t \in Notifiers, NEW u \in Notifiers,
         pc[t] # "idle", pc[u] # "idle"
  PROVE  t = u
  BY DEF LocksOK

LEMMA LeastNumber ==
  ASSUME NEW S, S \subseteq Nat, S # {}
  PROVE  \E m \in S : \A n \in S : ~ (n < m)
  <1> DEFINE less == {p \in Nat \X Nat : p[1] < p[2]}
  <1>1. IsWellFoundedOn(less, Nat)
    BY NatLessThanWellFounded DEF OpToRel
  <1>2. PICK m \in S : \A n \in S : ~ (<<n, m>> \in less)
    BY <1>1, WFMin
  <1> QED BY <1>2

\* The first free slot exists as soon as there is a free one.
LEMMA FreeSlotIsFree ==
  ASSUME MonitorConstants, NEW q \in Queues, HasSlot(q)
  PROVE  FreeSlot(q) \in Slots /\ ~Read(q)[FreeSlot(q)].Callback
  <1> DEFINE free == {s \in Slots : ~Read(q)[s].Callback}
             First(s) == s \in free /\ \A r \in 1 .. s - 1 : Read(q)[r].Callback
  <1>1. free # {} /\ free \subseteq Nat
    BY DEF HasSlot, Slots, Read, MonitorConstants
  <1>2. PICK s \in free : \A r \in free : ~ (r < s)
    BY <1>1, LeastNumber
  <1>3. First(s)
    <2>1. \A r \in 1 .. s - 1 : r \in Slots /\ r < s
      BY <1>2 DEF Slots, MonitorConstants
    <2> QED BY <1>2, <2>1
  <1>4. FreeSlot(q) = CHOOSE r \in Slots : ~Read(q)[r].Callback /\ \A u \in 1 .. r - 1 : Read(q)[u].Callback
    BY DEF FreeSlot, Read
  <1> QED BY <1>3, <1>4

-----------------------------------------------------------------------------
(* The vector *)

LEMMA AppendRead ==
  ASSUME NEW S, NEW f \in Seq(S), NEW x \in S, x \notin Range(f),
         \A i, j \in DOMAIN f : f[i] = f[j] => i = j
  PROVE  /\ Append(f, x) \in Seq(S) /\ Range(Append(f, x)) = Range(f) \cup {x}
         /\ \A i, j \in DOMAIN Append(f, x) : Append(f, x)[i] = Append(f, x)[j] => i = j
  <1> DEFINE g == Append(f, x)
  <1>1. /\ g \in Seq(S) /\ Len(g) = Len(f) + 1 /\ g[Len(f) + 1] = x
        /\ \A i \in 1 .. Len(f) : g[i] = f[i]
    BY AppendProperties
  <1>2. DOMAIN f = 1 .. Len(f) /\ DOMAIN g = 1 .. Len(f) + 1 /\ Len(f) \in Nat
    BY <1>1, LenProperties
  <1>3. \A i \in DOMAIN f : f[i] # x
    BY DEF Range
  <1>4. Range(g) = Range(f) \cup {x}
    BY <1>1, <1>2 DEF Range
  <1> HIDE DEF g
  <1>5. \A i, j \in DOMAIN g : g[i] = g[j] => i = j
    BY <1>1, <1>2, <1>3
  <1> QED BY <1>1, <1>4, <1>5 DEF g

LEMMA EraseRead ==
  ASSUME NEW S, NEW f \in Seq(S), NEW i \in DOMAIN f,
         \A j, k \in DOMAIN f : f[j] = f[k] => j = k
  PROVE  LET g == SubSeq(f, 1, i - 1) \o SubSeq(f, i + 1, Len(f)) IN
         /\ g \in Seq(S) /\ Range(g) = Range(f) \ {f[i]}
         /\ \A j, k \in DOMAIN g : g[j] = g[k] => j = k
  <1> DEFINE before == SubSeq(f, 1, i - 1)
             after == SubSeq(f, i + 1, Len(f))
             g == before \o after
             From(k) == IF k < i THEN k ELSE k + 1
  <1>1. Len(f) \in Nat /\ DOMAIN f = 1 .. Len(f) /\ i \in 1 .. Len(f) /\ \A k \in 1 .. Len(f) : f[k] \in S
    BY LenProperties, ElementOfSeq
  <1>2. /\ before \in Seq(S) /\ Len(before) = i - 1
        /\ \A k \in 1 .. i - 1 : before[k] = f[k]
    <2>1. 1 \in Int /\ i - 1 \in Int /\ \A k \in 1 .. i - 1 : f[k] \in S
      BY <1>1
    <2>2. /\ before \in Seq(S) /\ Len(before) = IF 1 <= i - 1 THEN i - 1 - 1 + 1 ELSE 0
          /\ \A k \in 1 .. i - 1 - 1 + 1 : before[k] = f[1 + k - 1]
      BY <2>1, SubSeqProperties
    <2> HIDE DEF before
    <2> QED BY <1>1, <2>2
  <1>3. /\ after \in Seq(S) /\ Len(after) = Len(f) - i
        /\ \A k \in 1 .. Len(f) - i : after[k] = f[i + k]
    <2>1. i + 1 \in Int /\ Len(f) \in Int /\ \A k \in i + 1 .. Len(f) : f[k] \in S
      BY <1>1
    <2>2. /\ after \in Seq(S) /\ Len(after) = IF i + 1 <= Len(f) THEN Len(f) - (i + 1) + 1 ELSE 0
          /\ \A k \in 1 .. Len(f) - (i + 1) + 1 : after[k] = f[i + 1 + k - 1]
      BY <2>1, SubSeqProperties
    <2> HIDE DEF after
    <2> QED BY <1>1, <2>2
  <1> HIDE DEF before, after
  <1>4. /\ g \in Seq(S) /\ Len(g) = Len(f) - 1
        /\ \A k \in 1 .. Len(f) - 1 : g[k] = IF k <= i - 1 THEN before[k] ELSE after[k - (i - 1)]
    <2>1. /\ g \in Seq(S) /\ Len(g) = Len(before) + Len(after)
          /\ \A k \in 1 .. Len(before) + Len(after) :
                g[k] = IF k <= Len(before) THEN before[k] ELSE after[k - Len(before)]
      <3>1. before \in Seq(S) /\ after \in Seq(S)
        BY <1>2, <1>3
      <3> QED BY ONLY <3>1, ConcatProperties
    <2> HIDE DEF g
    <2> QED BY <1>1, <1>2, <1>3, <2>1
  <1>5. DOMAIN g = 1 .. Len(f) - 1
    BY <1>4, LenProperties
  <1> HIDE DEF g
  <1>6. \A k \in 1 .. Len(f) - 1 : From(k) \in 1 .. Len(f) /\ From(k) # i /\ g[k] = f[From(k)]
    <2> SUFFICES ASSUME NEW k \in 1 .. Len(f) - 1
                 PROVE  From(k) \in 1 .. Len(f) /\ From(k) # i /\ g[k] = f[From(k)]
      OBVIOUS
    <2>1. CASE k < i
      BY <1>1, <1>2, <1>4, <2>1
    <2>2. CASE ~ (k < i)
      <3>1. k - (i - 1) \in 1 .. Len(f) - i /\ i + (k - (i - 1)) = k + 1
        BY <1>1, <2>2
      <3>2. after[k - (i - 1)] = f[k + 1]
        BY <1>3, <3>1
      <3> QED BY <1>1, <1>4, <2>2, <3>2
    <2> QED BY <2>1, <2>2
  <1>7. \A j \in 1 .. Len(f) : j # i => \E k \in 1 .. Len(f) - 1 : From(k) = j
    <2> SUFFICES ASSUME NEW j \in 1 .. Len(f), j # i PROVE \E k \in 1 .. Len(f) - 1 : From(k) = j
      OBVIOUS
    <2>1. CASE j < i
      BY <1>1, <2>1
    <2>2. CASE j > i
      <3>1. j - 1 \in 1 .. Len(f) - 1 /\ From(j - 1) = j
        BY <1>1, <2>2
      <3> QED BY <3>1
    <2> QED BY <1>1, <2>1, <2>2
  <1>8. Range(g) = Range(f) \ {f[i]}
    <2>1. \A k \in 1 .. Len(f) - 1 : g[k] \in Range(f) \ {f[i]}
      BY <1>1, <1>6 DEF Range
    <2>2. \A j \in 1 .. Len(f) : f[j] # f[i] => \E k \in 1 .. Len(f) - 1 : g[k] = f[j]
      <3> SUFFICES ASSUME NEW j \in 1 .. Len(f), f[j] # f[i]
                   PROVE  \E k \in 1 .. Len(f) - 1 : g[k] = f[j]
        OBVIOUS
      <3>1. PICK k \in 1 .. Len(f) - 1 : From(k) = j
        BY <1>7
      <3> QED BY <1>6, <3>1
    <2>3. ASSUME NEW x \in Range(g) PROVE x \in Range(f) \ {f[i]}
      <3>1. PICK k \in DOMAIN g : x = g[k]
        BY DEF Range
      <3> QED BY <1>5, <2>1, <3>1
    <2>4. ASSUME NEW x \in Range(f) \ {f[i]} PROVE x \in Range(g)
      <3>1. PICK j \in 1 .. Len(f) : x = f[j]
        BY <1>1 DEF Range
      <3>2. PICK k \in DOMAIN g : g[k] = f[j]
        BY <1>5, <2>2, <3>1
      <3> QED BY <3>1, <3>2 DEF Range
    <2> QED BY <2>3, <2>4
  <1>9. ASSUME NEW j \in DOMAIN g, NEW k \in DOMAIN g, g[j] = g[k] PROVE j = k
    <2>1. From(j) = From(k)
      <3>1. From(j) \in DOMAIN f /\ From(k) \in DOMAIN f /\ f[From(j)] = f[From(k)]
        BY <1>1, <1>5, <1>6, <1>9
      <3> QED BY ONLY <3>1, \A u, v \in DOMAIN f : f[u] = f[v] => u = v
    <2> QED BY <1>1, <1>5, <2>1
  <1> QED BY <1>4, <1>8, <1>9 DEF g, before, after
\* The vector is swapped while nobody reads it.
LEMMA SwapVectorKeeps ==
  ASSUME MonitorConstants, IInv, NEW f \in Seq(Contexts), SwapVector(f),
         attached' \subseteq Contexts, Range(f) = attached',
         \A i, j \in DOMAIN f : f[i] = f[j] => i = j
  PROVE  IInv'
  <1> USE DEF IInv, SwapVector, monitorVars, threadVars
  <1>1. contexts'[current'] = f /\ contexts' \in [0 .. 1 -> Seq(Contexts)] /\ current' \in 0 .. 1
    BY DEF TypeOK
  <1>2. TypeOK'
    BY <1>1 DEF TypeOK
  <1>3. LocksOK'
    BY DEF LocksOK
  <1>4. VectorOK'
    BY <1>1 DEF VectorOK
  <1>5. VisitedAreAttached'
    BY DEF VisitedAreAttached, LocksOK, MonitorConstants
  <1>6. SlotsOK' /\ CalledOK'
    BY DEF SlotsOK, CalledOK, Read, Active
  <1> QED BY <1>2, <1>3, <1>4, <1>5, <1>6

LEMMA AttachKeeps ==
  ASSUME MonitorConstants, IInv, NEW c \in Contexts, Attach(c)
  PROVE  IInv'
  <1> DEFINE read == contexts[current]
  <1>1. read \in Seq(Contexts) /\ c \notin Range(read) /\ Range(read) = attached
        /\ \A i, j \in DOMAIN read : read[i] = read[j] => i = j
    BY DEF IInv, TypeOK, VectorOK, Attach
  <1>2. SwapVector(Append(read, c)) /\ attached' = Range(read) \cup {c} /\ attached \subseteq Contexts
    BY <1>1 DEF IInv, TypeOK, Attach
  <1> HIDE DEF read
  <1>3. /\ Append(read, c) \in Seq(Contexts) /\ Range(Append(read, c)) = Range(read) \cup {c}
        /\ \A i, j \in DOMAIN Append(read, c) : Append(read, c)[i] = Append(read, c)[j] => i = j
    BY <1>1, AppendRead
  <1> QED BY <1>1, <1>2, <1>3, SwapVectorKeeps

LEMMA DetachKeeps ==
  ASSUME MonitorConstants, IInv, NEW c \in Contexts, Detach(c)
  PROVE  IInv'
  <1> DEFINE read == contexts[current]
             Rest(i) == SubSeq(read, 1, i - 1) \o SubSeq(read, i + 1, Len(read))
  <1>1. /\ read \in Seq(Contexts) /\ Range(read) = attached /\ attached \subseteq Contexts
        /\ \A i, j \in DOMAIN read : read[i] = read[j] => i = j
    BY DEF IInv, TypeOK, VectorOK
  <1>2. PICK i \in DOMAIN read : read[i] = c /\ SwapVector(Rest(i))
    BY DEF Detach
  <1>3. attached' = attached \ {c}
    BY DEF Detach
  <1>4. /\ Rest(i) \in Seq(Contexts) /\ Range(Rest(i)) = Range(read) \ {read[i]}
        /\ \A j, k \in DOMAIN Rest(i) : Rest(i)[j] = Rest(i)[k] => j = k
    <2> HIDE DEF read
    <2> QED BY <1>1, EraseRead
  <1> HIDE DEF read, Rest
  <1> QED BY <1>1, <1>2, <1>3, <1>4, SwapVectorKeeps

-----------------------------------------------------------------------------
(* The monitors of a queue *)

Buffers == [Slots -> [Token : Monitors \cup {None}, Callback : BOOLEAN]]

LEMMA ReadIsTyped ==
  ASSUME TypeOK, NEW q \in Queues
  PROVE  Read(q) \in Buffers /\ slots[q] \in [0 .. 1 -> Buffers] /\ index[q] \in 0 .. 1
  <1>1. slots \in [Queues -> [0 .. 1 -> Buffers]] /\ index \in [Queues -> 0 .. 1]
    BY DEF TypeOK, Buffers
  <1> QED BY <1>1 DEF Read

LEMMA SwapIsTyped ==
  ASSUME TypeOK, NEW q \in Queues, NEW f \in Buffers, SwapSlots(q, f)
  PROVE  /\ slots' \in [Queues -> [0 .. 1 -> Buffers]] /\ index' \in [Queues -> 0 .. 1]
         /\ \A p \in Queues : slots'[p][index'[p]] = IF p = q THEN f ELSE Read(p)
  <1>1. /\ slots \in [Queues -> [0 .. 1 -> Buffers]] /\ index \in [Queues -> 0 .. 1]
        /\ slots' = [slots EXCEPT ![q][1 - index[q]] = f]
        /\ index' = [index EXCEPT ![q] = 1 - index[q]]
    BY DEF TypeOK, Buffers, SwapSlots
  <1>2. 1 - index[q] \in 0 .. 1
    BY <1>1
  <1>3. /\ \A p \in Queues : index'[p] = IF p = q THEN 1 - index[q] ELSE index[p]
        /\ index' \in [Queues -> 0 .. 1]
    BY <1>1, <1>2
  <1>4. /\ \A p \in Queues \ {q} : slots'[p] = slots[p]
        /\ slots'[q] = [slots[q] EXCEPT ![1 - index[q]] = f]
    BY <1>1
  <1>5. slots' \in [Queues -> [0 .. 1 -> Buffers]] /\ slots'[q][1 - index[q]] = f
    BY <1>1, <1>2
  <1> QED BY <1>3, <1>4, <1>5 DEF Read

\* The buffers of a queue are swapped while nobody reads them.
LEMMA SwapSlotsKeeps ==
  ASSUME MonitorConstants, IInv, NEW q \in Queues,
         NEW f \in Buffers, SwapSlots(q, f), held' \cup refused' \subseteq Monitors,
         {f[s].Token : s \in {r \in Slots : f[r].Callback}} = {m \in held' : MonitorQueue[m] = q},
         \A r, s \in Slots : f[r].Callback /\ f[s].Callback /\ f[r].Token = f[s].Token => r = s,
         \A p \in Queues \ {q} : {m \in held' : MonitorQueue[m] = p} = {m \in held : MonitorQueue[m] = p}
  PROVE  IInv'
  <1> USE DEF IInv, SwapSlots, vectorVars, threadVars
  <1>1. slots' \in [Queues -> [0 .. 1 -> Buffers]] /\ index' \in [Queues -> 0 .. 1]
    BY SwapIsTyped
  <1>2. \A p \in Queues : Read(p)' = IF p = q THEN f ELSE Read(p)
    BY SwapIsTyped DEF Read
  <1>3. \A p \in Queues : Active(p)' = IF p = q THEN {r \in Slots : f[r].Callback} ELSE Active(p)
    BY <1>2 DEF Active, Read
  <1>4. TypeOK'
    BY <1>1 DEF TypeOK, Buffers
  <1>5. LocksOK' /\ VectorOK' /\ VisitedAreAttached'
    BY DEF LocksOK, VectorOK, VisitedAreAttached
  <1>6. SlotsOK'
    <2> SUFFICES ASSUME NEW p \in Queues
                 PROVE  /\ {Read(p)'[s].Token : s \in Active(p)'} = {m \in held' : MonitorQueue[m] = p}
                        /\ \A r, s \in Active(p)' : Read(p)'[r].Token = Read(p)'[s].Token => r = s
      BY DEF SlotsOK
    <2>1. CASE p = q
      BY <1>2, <1>3, <2>1
    <2>2. CASE p # q
      BY <1>2, <1>3, <2>2 DEF SlotsOK
    <2> QED BY <2>1, <2>2
  <1>7. CalledOK'
    <2> SUFFICES ASSUME NEW t \in Notifiers, NEW p \in Queues,
                        pc[t] = "invoke", QueueOf(Head(left[t])) = p
                 PROVE  /\ slot[t] # 0
                        /\ called[t] = {Read(p)'[s].Token : s \in {r \in Active(p)' : r < slot[t]}}
      BY DEF CalledOK
    <2>1. p # q
      BY DEF LocksOK, MonitorConstants
    <2> QED BY <1>2, <1>3, <2>1 DEF CalledOK
  <1> QED BY <1>4, <1>5, <1>6, <1>7

LEMMA RegisterKeeps ==
  ASSUME MonitorConstants, IInv, NEW m \in Monitors, Register(m)
  PROVE  IInv'
  <1> DEFINE q == MonitorQueue[m]
             n == FreeSlot(q)
             f == [Read(q) EXCEPT ![n] = [Token |-> m, Callback |-> TRUE]]
             own == {l \in held : MonitorQueue[l] = q}
  <1>1. /\ q \in Queues /\ m \notin held /\ held' = held \cup {m} /\ UNCHANGED refused
        /\ HasSlot(q) /\ SwapSlots(q, f)
    BY DEF Register, Read, MonitorConstants
  <1>2. n \in Slots /\ ~Read(q)[n].Callback
    BY <1>1, FreeSlotIsFree
  <1>3. Read(q) \in Buffers
    BY <1>1, ReadIsTyped DEF IInv
  <1>4. Active(q) = {s \in Slots : Read(q)[s].Callback} /\ n \notin Active(q)
    BY <1>2 DEF Active, Read
  <1>5. {Read(q)[s].Token : s \in Active(q)} = own
        /\ \A r, s \in Active(q) : Read(q)[r].Token = Read(q)[s].Token => r = s
    BY <1>1 DEF IInv, SlotsOK
  <1> HIDE DEF n, q
  <1>6. f \in Buffers
    BY <1>2, <1>3 DEF Buffers
  <1>7. \A s \in Slots : f[s] = IF s = n THEN [Token |-> m, Callback |-> TRUE] ELSE Read(q)[s]
    BY <1>3 DEF Buffers
  <1> HIDE DEF f
  <1>8. {r \in Slots : f[r].Callback} = Active(q) \cup {n}
    BY <1>2, <1>4, <1>7
  <1>9. {f[s].Token : s \in {r \in Slots : f[r].Callback}} = {l \in held' : MonitorQueue[l] = q}
    <2>1. {f[s].Token : s \in Active(q) \cup {n}} = {Read(q)[s].Token : s \in Active(q)} \cup {m}
      <3>1. f[n].Token = m /\ \A s \in Active(q) : f[s].Token = Read(q)[s].Token
        BY <1>2, <1>4, <1>7
      <3> QED BY <3>1
    <2>2. {l \in held' : MonitorQueue[l] = q} = own \cup {m}
      BY <1>1 DEF q
    <2> QED BY <1>5, <1>8, <2>1, <2>2
  <1>10. \A r, s \in Slots : f[r].Callback /\ f[s].Callback /\ f[r].Token = f[s].Token => r = s
    <2>1. \A s \in Active(q) : Read(q)[s].Token # m
      BY <1>1, <1>5
    <2> QED BY <1>2, <1>4, <1>5, <1>7, <2>1
  <1>11. /\ held' \cup refused' \subseteq Monitors
         /\ \A p \in Queues \ {q} : {l \in held' : MonitorQueue[l] = p} = {l \in held : MonitorQueue[l] = p}
    BY <1>1 DEF IInv, TypeOK, q
  <1> QED BY <1>1, <1>6, <1>9, <1>10, <1>11, SwapSlotsKeeps
\* The buffer that nobody reads is written, and not swapped.
LEMMA RegisterFailsKeeps ==
  ASSUME MonitorConstants, IInv, NEW m \in Monitors, RegisterFails(m)
  PROVE  IInv'
  <1> USE DEF IInv, vectorVars, threadVars
  <1> DEFINE q == MonitorQueue[m]
  <1>1. /\ q \in Queues /\ UNCHANGED <<index, callers, held, vectorVars, lock, threadVars>>
        /\ slots' = [slots EXCEPT ![q][1 - index[q]] = Read(q)]
        /\ refused' = refused \cup {m}
    BY DEF RegisterFails, Read, MonitorConstants
  <1> HIDE DEF q
  <1>2. Read(q) \in Buffers /\ 1 - index[q] \in 0 .. 1 /\ 1 - index[q] # index[q]
    BY <1>1, ReadIsTyped
  <1>3. slots' \in [Queues -> [0 .. 1 -> Buffers]]
    <2>1. slots \in [Queues -> [0 .. 1 -> Buffers]]
      BY DEF TypeOK, Buffers
    <2> QED BY <1>1, <1>2, <2>1
  <1>4. \A p \in Queues : Read(p)' = Read(p)
    <2> SUFFICES ASSUME NEW p \in Queues PROVE Read(p)' = Read(p)
      OBVIOUS
    <2>1. slots[p] \in [0 .. 1 -> Buffers] /\ index[p] \in 0 .. 1 /\ slots \in [Queues -> [0 .. 1 -> Buffers]]
      BY ReadIsTyped DEF TypeOK, Buffers
    <2>2. slots'[p] = IF p = q THEN [slots[q] EXCEPT ![1 - index[q]] = Read(q)] ELSE slots[p]
      BY <1>1, <2>1
    <2>3. slots'[p][index[p]] = slots[p][index[p]]
      BY <1>2, <2>1, <2>2
    <2> QED BY <1>1, <2>3 DEF Read
  <1>5. \A p \in Queues : Active(p)' = Active(p)
    BY <1>4 DEF Active, Read
  <1>6. TypeOK'
    BY <1>1, <1>3 DEF TypeOK, Buffers
  <1>7. LocksOK' /\ VectorOK' /\ VisitedAreAttached'
    BY <1>1 DEF LocksOK, VectorOK, VisitedAreAttached
  <1>8. SlotsOK'
    BY <1>1, <1>4, <1>5 DEF SlotsOK
  <1>9. CalledOK'
    BY <1>1, <1>4, <1>5 DEF CalledOK
  <1> QED BY <1>6, <1>7, <1>8, <1>9

LEMMA UnregisterKeeps ==
  ASSUME MonitorConstants, IInv, NEW m \in Monitors, Unregister(m)
  PROVE  IInv'
  <1> DEFINE q == MonitorQueue[m]
             other == slots[q][1 - index[q]]
             f == [s \in Slots |-> IF Read(q)[s].Token = m
                                   THEN [other[s] EXCEPT !.Callback = FALSE] ELSE Read(q)[s]]
             own == {l \in held : MonitorQueue[l] = q}
  <1>1. q \in Queues
    BY DEF MonitorConstants
  <1> HIDE DEF q
  <1>2. Read(q) \in Buffers /\ other \in Buffers
    BY <1>1, ReadIsTyped DEF IInv
  <1>3. m \in held /\ held' = held \ {m} /\ UNCHANGED refused
    BY DEF Unregister
  <1>4. SwapSlots(q, f)
    BY DEF Unregister, Read, q
  <1>5. /\ Active(q) = {s \in Slots : Read(q)[s].Callback}
        /\ {Read(q)[s].Token : s \in Active(q)} = own
        /\ \A r, s \in Active(q) : Read(q)[r].Token = Read(q)[s].Token => r = s
    BY <1>1 DEF IInv, SlotsOK, Active, Read
  <1>6. f \in Buffers
    BY <1>2 DEF Buffers
  <1>7. \A s \in Slots : /\ f[s].Callback <=> Read(q)[s].Callback /\ Read(q)[s].Token # m
                         /\ f[s].Callback => f[s].Token = Read(q)[s].Token
    BY <1>2 DEF Buffers
  <1> HIDE DEF f, other
  <1>8. {f[s].Token : s \in {r \in Slots : f[r].Callback}} = {l \in held' : MonitorQueue[l] = q}
    <2>1. {r \in Slots : f[r].Callback} = {r \in Active(q) : Read(q)[r].Token # m}
      BY <1>5, <1>7
    <2>2. {f[s].Token : s \in {r \in Active(q) : Read(q)[r].Token # m}} = own \ {m}
      BY <1>5, <1>7
    <2>3. {l \in held' : MonitorQueue[l] = q} = own \ {m}
      BY <1>3
    <2> QED BY <2>1, <2>2, <2>3
  <1>9. \A r, s \in Slots : f[r].Callback /\ f[s].Callback /\ f[r].Token = f[s].Token => r = s
    BY <1>5, <1>7
  <1>10. /\ held' \cup refused' \subseteq Monitors
         /\ \A p \in Queues \ {q} : {l \in held' : MonitorQueue[l] = p} = {l \in held : MonitorQueue[l] = p}
    BY <1>3 DEF IInv, TypeOK, q
  <1> QED BY <1>1, <1>4, <1>6, <1>8, <1>9, <1>10, SwapSlotsKeeps

-----------------------------------------------------------------------------
(* The readers *)

\* What a reader does leaves the buffers as they are.
LEMMA ReadingKeeps ==
  ASSUME IInv, UNCHANGED <<contexts, current, attached, slots, index, held, refused>>
  PROVE  VectorOK' /\ SlotsOK' /\ \A q \in Queues : Read(q)' = Read(q) /\ Active(q)' = Active(q)
  BY DEF IInv, VectorOK, SlotsOK, Read, Active

LEMMA NotifyKeeps ==
  ASSUME MonitorConstants, IInv, NEW t \in Notifiers, Notify(t)
  PROVE  IInv'
  <1> USE DEF IInv, Notify, monitorVars
  <1>1. contexts[current] \in Seq(Contexts) /\ Range(contexts[current]) = attached
    BY DEF TypeOK, VectorOK
  <1>2. VectorOK' /\ SlotsOK' /\ \A q \in Queues : Read(q)' = Read(q) /\ Active(q)' = Active(q)
    BY ReadingKeeps
  <1>3. \A u \in Notifiers : pc[u] = "idle"
    BY DEF LocksOK, MonitorConstants
  <1>4. TypeOK'
    <2>1. lock' \in [Queues \cup {"vector"} -> Notifiers \cup {None}] /\ visitors' \in Nat
      BY DEF TypeOK
    <2>2. left' \in [Notifiers -> Seq(Contexts)] /\ pc' \in [Notifiers -> {"idle", "visit", "invoke"}]
      BY <1>1 DEF TypeOK
    <2>3. visits' \in [Notifiers -> 0 .. Visits]
      BY DEF TypeOK, MonitorConstants
    <2> QED BY <2>1, <2>2, <2>3 DEF TypeOK
  <1>5. \A u \in Notifiers : pc'[u] = IF u = t THEN "visit" ELSE "idle"
    BY <1>3 DEF TypeOK
  <1>6. LocksOK'
    BY <1>3, <1>5 DEF LocksOK, TypeOK, MonitorConstants
  <1>7. VisitedAreAttached'
    BY <1>1, <1>5 DEF VisitedAreAttached, TypeOK
  <1>8. CalledOK'
    BY <1>5 DEF CalledOK
  <1> QED BY <1>2, <1>4, <1>6, <1>7, <1>8

LEMMA InvokeKeeps ==
  ASSUME MonitorConstants, IInv, NEW t \in Notifiers, Invoke(t)
  PROVE  IInv'
  <1> USE DEF IInv, Invoke, vectorVars
  <1> DEFINE q == QueueOf(Head(left[t]))
  <1>1. q \in Queues
    <2>1. left[t] \in Seq(Contexts) /\ left[t] # <<>>
      BY DEF TypeOK
    <2> QED BY <2>1, HeadTailProperties, ContextQueue
  <1>2. VectorOK' /\ SlotsOK' /\ \A p \in Queues : Read(p)' = Read(p) /\ Active(p)' = Active(p)
    BY ReadingKeeps
  <1>3. /\ lock' = [lock EXCEPT ![q] = t] /\ callers' = [callers EXCEPT ![q] = @ + 1]
        /\ lock[q] = None /\ pc[t] = "visit" /\ left[t] # <<>>
        /\ UNCHANGED <<left, visitors>>
    BY DEF vectorVars
  <1>4. \A u \in Notifiers : u # t => pc[u] = "idle"
    BY <1>3, ReadersAreAlone
  <1>5. \A u \in Notifiers : pc'[u] = IF u = t THEN "invoke" ELSE pc[u]
    BY DEF TypeOK
  <1>6. TypeOK'
    <2>1. lock' \in [Queues \cup {"vector"} -> Notifiers \cup {None}] /\ callers' \in [Queues -> Nat]
      BY <1>1, <1>3 DEF TypeOK
    <2>2. /\ slot' \in [Notifiers -> 0 .. SubmitCallbackMax + 1] /\ called' \in [Notifiers -> SUBSET Monitors]
          /\ pc' \in [Notifiers -> {"idle", "visit", "invoke"}]
      BY DEF TypeOK, MonitorConstants
    <2> QED BY <2>1, <2>2 DEF TypeOK
  <1> HIDE DEF q
  <1>7. LocksOK'
    <2>1. \A p \in Queues : lock'[p] = IF p = q THEN t ELSE lock[p]
      BY <1>1, <1>3 DEF TypeOK
    <2>2. lock'["vector"] = lock["vector"]
      BY <1>1, <1>3 DEF TypeOK, MonitorConstants
    <2>3. \A p \in Queues : callers'[p] = IF lock'[p] = None THEN 0 ELSE 1
      BY <1>1, <1>3, <2>1 DEF TypeOK, LocksOK, MonitorConstants
    <2>4. ASSUME NEW u \in Notifiers
          PROVE  /\ pc'[u] # "idle" <=> lock'["vector"] = u
                 /\ pc'[u] = "invoke" => left'[u] # <<>> /\ lock'[QueueOf(Head(left'[u]))] = u
                 /\ \A p \in Queues :
                       lock'[p] = u => pc'[u] = "invoke" /\ QueueOf(Head(left'[u])) = p
      <3>1. CASE u = t
        BY <1>1, <1>3, <1>5, <2>1, <2>2, <3>1 DEF LocksOK, q
      <3>2. CASE u # t
        BY <1>3, <1>4, <1>5, <2>1, <2>2, <3>2 DEF LocksOK
      <3> QED BY <3>1, <3>2
    <2>5. visitors' = IF lock'["vector"] = None THEN 0 ELSE 1
      BY <1>3, <2>2 DEF LocksOK
    <2> QED BY <2>3, <2>4, <2>5 DEF LocksOK
  <1>8. VisitedAreAttached'
    BY <1>3, <1>4, <1>5 DEF VisitedAreAttached
  <1>9. CalledOK'
    <2> SUFFICES ASSUME NEW u \in Notifiers, NEW p \in Queues, pc'[u] = "invoke"
                 PROVE  /\ slot'[u] # 0
                        /\ called'[u] = {Read(p)'[s].Token : s \in {r \in Active(p)' : r < slot'[u]}}
      BY DEF CalledOK
    <2>1. u = t
      BY <1>4, <1>5
    <2>2. slot'[u] = 1 /\ called'[u] = {}
      BY <2>1 DEF TypeOK
    <2>3. {r \in Active(p)' : r < 1} = {}
      BY DEF Active, Slots, MonitorConstants
    <2> QED BY <2>2, <2>3
  <1> QED BY <1>2, <1>6, <1>7, <1>8, <1>9
LEMMA CallMonitorKeeps ==
  ASSUME MonitorConstants, IInv, NEW t \in Notifiers, CallMonitor(t)
  PROVE  IInv'
  <1> USE DEF IInv, vectorVars, monitorVars
  <1> DEFINE q == QueueOf(Head(left[t]))
             n == slot[t]
             new == IF Read(q)[n].Callback THEN {Read(q)[n].Token} ELSE {}
  <1>1. /\ pc[t] = "invoke" /\ n \in Slots /\ n \in 1 .. SubmitCallbackMax
        /\ UNCHANGED <<vectorVars, monitorVars, lock, pc, left, visits>>
        /\ called' = [called EXCEPT ![t] = @ \cup new]
        /\ slot' = [slot EXCEPT ![t] = n + 1]
    BY DEF CallMonitor, Read, Slots
  <1>2. q \in Queues
    BY <1>1, ReaderQueue
  <1>3. VectorOK' /\ SlotsOK' /\ \A p \in Queues : Read(p)' = Read(p) /\ Active(p)' = Active(p)
    BY <1>1, ReadingKeeps
  <1>4. n # 0 /\ called[t] = {Read(q)[s].Token : s \in {r \in Active(q) : r < n}}
    BY <1>1, <1>2 DEF CalledOK
  <1>5. new = {Read(q)[s].Token : s \in {r \in Active(q) : r = n}}
    BY <1>1 DEF Active, Read
  <1>6. new \subseteq Monitors
    <2>1. \A s \in Active(q) : Read(q)[s].Token \in Monitors
      BY <1>2 DEF SlotsOK, TypeOK
    <2> QED BY <1>5, <2>1
  <1>7. {r \in Active(q) : r < n + 1} = {r \in Active(q) : r < n} \cup {r \in Active(q) : r = n}
    BY <1>1 DEF Active, Slots, MonitorConstants
  <1>8. \A p \in Queues : p = q => called'[t] = {Read(p)[s].Token : s \in {r \in Active(p) : r < slot'[t]}}
    <2>1. called'[t] = called[t] \cup new /\ slot'[t] = n + 1
      BY <1>1 DEF TypeOK
    <2> HIDE DEF q, n, new
    <2> QED BY <1>4, <1>5, <1>7, <2>1
  <1> HIDE DEF new
  <1>9. TypeOK'
    <2>1. called' \in [Notifiers -> SUBSET Monitors]
      BY <1>1, <1>6 DEF TypeOK
    <2>2. slot' \in [Notifiers -> 0 .. SubmitCallbackMax + 1]
      BY <1>1 DEF TypeOK, MonitorConstants
    <2> QED BY <1>1, <2>1, <2>2 DEF TypeOK
  <1>10. LocksOK' /\ VisitedAreAttached'
    BY <1>1 DEF LocksOK, VisitedAreAttached
  <1>11. CalledOK'
    <2> SUFFICES ASSUME NEW u \in Notifiers, NEW p \in Queues, pc[u] = "invoke",
                        QueueOf(Head(left[u])) = p
                 PROVE  /\ slot'[u] # 0
                        /\ called'[u] = {Read(p)[s].Token : s \in {r \in Active(p) : r < slot'[u]}}
      BY <1>1, <1>3 DEF CalledOK
    <2>1. u = t
      BY <1>1, ReadersAreAlone
    <2>2. slot'[t] = n + 1 /\ n + 1 # 0
      BY <1>1 DEF TypeOK, MonitorConstants
    <2> QED BY <1>8, <2>1, <2>2
  <1> QED BY <1>3, <1>9, <1>10, <1>11

LEMMA EndInvokeKeeps ==
  ASSUME MonitorConstants, IInv, NEW t \in Notifiers, EndInvoke(t)
  PROVE  IInv'
  <1> USE DEF IInv, vectorVars
  <1> DEFINE q == QueueOf(Head(left[t]))
  <1>1. /\ pc[t] = "invoke" /\ left[t] # <<>> /\ q \in Queues /\ lock[q] = t
        /\ lock' = [lock EXCEPT ![q] = None] /\ callers' = [callers EXCEPT ![q] = @ - 1]
        /\ left' = [left EXCEPT ![t] = Tail(@)]
        /\ slot' = [slot EXCEPT ![t] = 0] /\ called' = [called EXCEPT ![t] = {}]
        /\ pc' = [pc EXCEPT ![t] = "visit"]
        /\ UNCHANGED <<vectorVars, slots, index, held, refused, visits>>
    BY ReaderQueue DEF EndInvoke, LocksOK
  <1> HIDE DEF q
  <1>2. VectorOK' /\ SlotsOK'
    BY <1>1, ReadingKeeps
  <1>3. \A u \in Notifiers : u # t => pc[u] = "idle"
    BY <1>1, ReadersAreAlone
  <1>4. \A u \in Notifiers : pc'[u] = IF u = t THEN "visit" ELSE "idle"
    BY <1>1, <1>3 DEF TypeOK
  <1>5. /\ left[t] \in Seq(Contexts) /\ Tail(left[t]) \in Seq(Contexts)
        /\ Range(Tail(left[t])) \subseteq Range(left[t])
    <2>1. left[t] \in Seq(Contexts)
      BY DEF TypeOK
    <2>2. /\ Tail(left[t]) \in Seq(Contexts) /\ Len(Tail(left[t])) = Len(left[t]) - 1
          /\ \A i \in 1 .. Len(Tail(left[t])) : Tail(left[t])[i] = left[t][i + 1]
      BY <1>1, <2>1, HeadTailProperties
    <2>3. \A i \in DOMAIN Tail(left[t]) : i + 1 \in DOMAIN left[t]
      BY <2>1, <2>2, LenProperties
    <2> QED BY <2>1, <2>2, <2>3, LenProperties DEF Range
  <1>6. \A p \in Queues : /\ lock'[p] = IF p = q THEN None ELSE lock[p]
                          /\ callers'[p] = IF p = q THEN callers[p] - 1 ELSE callers[p]
    BY <1>1 DEF TypeOK
  <1>7. lock'["vector"] = t
    BY <1>1 DEF TypeOK, LocksOK, MonitorConstants
  <1>8. \A p \in Queues : callers'[p] = IF lock'[p] = None THEN 0 ELSE 1
    BY <1>1, <1>6 DEF LocksOK, MonitorConstants
  <1>9. TypeOK'
    <2>1. lock' \in [Queues \cup {"vector"} -> Notifiers \cup {None}]
      BY <1>1 DEF TypeOK
    <2>2. callers' \in [Queues -> Nat]
      BY <1>1, <1>8 DEF TypeOK
    <2>3. left' \in [Notifiers -> Seq(Contexts)]
      BY <1>1, <1>5 DEF TypeOK
    <2>4. /\ slot' \in [Notifiers -> 0 .. SubmitCallbackMax + 1] /\ called' \in [Notifiers -> SUBSET Monitors]
          /\ pc' \in [Notifiers -> {"idle", "visit", "invoke"}]
      BY <1>1 DEF TypeOK, MonitorConstants
    <2> QED BY <1>1, <2>1, <2>2, <2>3, <2>4 DEF TypeOK
  <1>10. LocksOK'
    <2>1. ASSUME NEW u \in Notifiers
          PROVE  /\ pc'[u] # "idle" <=> lock'["vector"] = u
                 /\ pc'[u] = "invoke" => left'[u] # <<>> /\ lock'[QueueOf(Head(left'[u]))] = u
                 /\ \A p \in Queues :
                       lock'[p] = u => pc'[u] = "invoke" /\ QueueOf(Head(left'[u])) = p
      <3>1. pc'[u] # "idle" <=> lock'["vector"] = u
        BY <1>4, <1>7
      <3>2. \A p \in Queues : lock'[p] # u
        BY <1>1, <1>3, <1>6 DEF LocksOK, MonitorConstants, q
      <3> QED BY <1>4, <3>1, <3>2
    <2>2. visitors' = IF lock'["vector"] = None THEN 0 ELSE 1
      BY <1>1, <1>7 DEF LocksOK, MonitorConstants
    <2> QED BY <1>8, <2>1, <2>2 DEF LocksOK
  <1>11. VisitedAreAttached'
    BY <1>1, <1>3, <1>4, <1>5 DEF VisitedAreAttached, TypeOK
  <1>12. CalledOK'
    BY <1>4 DEF CalledOK
  <1> QED BY <1>2, <1>9, <1>10, <1>11, <1>12

LEMMA EndVisitKeeps ==
  ASSUME MonitorConstants, IInv, NEW t \in Notifiers, EndVisit(t)
  PROVE  IInv'
  <1> USE DEF IInv, EndVisit, monitorVars
  <1>1. VectorOK' /\ SlotsOK'
    BY ReadingKeeps
  <1>2. \A u \in Notifiers : u # t => pc[u] = "idle"
    BY ReadersAreAlone
  <1>3. \A u \in Notifiers : pc'[u] = "idle"
    BY <1>2 DEF TypeOK
  <1>4. /\ lock'["vector"] = None /\ \A q \in Queues : lock'[q] = lock[q]
        /\ visitors' = 0
    <2>1. lock["vector"] = t /\ visitors = 1
      BY DEF LocksOK, MonitorConstants
    <2>2. lock' = [lock EXCEPT !["vector"] = None] /\ "vector" \notin Queues
          /\ lock \in [Queues \cup {"vector"} -> Notifiers \cup {None}]
      BY DEF TypeOK, MonitorConstants
    <2> QED BY <2>1, <2>2
  <1>5. TypeOK'
    BY <1>4 DEF TypeOK
  <1>6. LocksOK'
    BY <1>2, <1>3, <1>4 DEF LocksOK, MonitorConstants
  <1>7. VisitedAreAttached' /\ CalledOK'
    BY <1>3 DEF VisitedAreAttached, CalledOK
  <1> QED BY <1>1, <1>5, <1>6, <1>7

-----------------------------------------------------------------------------
(* The theorems *)

LEMMA InitEstablishes ==
  ASSUME MonitorConstants, Init
  PROVE  IInv
  <1> USE DEF Init, Empty, MonitorConstants
  <1>1. TypeOK
    BY DEF TypeOK
  <1>2. LocksOK /\ VectorOK
    BY DEF LocksOK, VectorOK, Range
  <1>3. VisitedAreAttached /\ CalledOK
    BY DEF VisitedAreAttached, CalledOK
  <1>4. \A q \in Queues : Active(q) = {}
    BY DEF Active
  <1>5. SlotsOK
    BY <1>4 DEF SlotsOK
  <1> QED BY <1>1, <1>2, <1>3, <1>5 DEF IInv

LEMMA StepPreserves ==
  ASSUME MonitorConstants, IInv, [Next]_vars
  PROVE  IInv'
  <1>1. CASE UNCHANGED vars
    BY <1>1 DEF vars, vectorVars, monitorVars, threadVars, IInv, TypeOK, LocksOK, VectorOK,
                VisitedAreAttached, SlotsOK, CalledOK, Read, Active
  <1>2. ASSUME NEW c \in Contexts, Attach(c) \/ Detach(c) PROVE IInv'
    BY <1>2, AttachKeeps, DetachKeeps
  <1>3. ASSUME NEW m \in Monitors, Register(m) \/ RegisterFails(m) \/ Unregister(m) PROVE IInv'
    BY <1>3, RegisterKeeps, RegisterFailsKeeps, UnregisterKeeps
  <1>4. ASSUME NEW t \in Notifiers,
               Notify(t) \/ Invoke(t) \/ CallMonitor(t) \/ EndInvoke(t) \/ EndVisit(t)
        PROVE  IInv'
    BY <1>4, NotifyKeeps, InvokeKeeps, CallMonitorKeeps, EndInvokeKeeps, EndVisitKeeps
  <1> QED BY <1>1, <1>2, <1>3, <1>4 DEF Next

\* A slot for each monitor: there are as many active slots as registered monitors.
LEMMA SlotsAreCounted ==
  ASSUME MonitorConstants, IInv
  PROVE  MonitorsAreActive
  <1> SUFFICES ASSUME NEW q \in Queues
               PROVE  LET own == {m \in held : MonitorQueue[m] = q} IN
                      /\ {Read(q)[s].Token : s \in Active(q)} = own
                      /\ Cardinality(Active(q)) = Cardinality(own)
    BY DEF MonitorsAreActive, Read
  <1> DEFINE own == {m \in held : MonitorQueue[m] = q}
             f == [s \in Active(q) |-> Read(q)[s].Token]
  <1>1. {Read(q)[s].Token : s \in Active(q)} = own
        /\ \A r, s \in Active(q) : Read(q)[r].Token = Read(q)[s].Token => r = s
    BY DEF IInv, SlotsOK
  <1>2. IsFiniteSet(Active(q))
    <2>1. IsFiniteSet(Slots) /\ Active(q) \subseteq Slots
      BY FS_Interval DEF Slots, Active, MonitorConstants
    <2> QED BY <2>1, FS_Subset
  <1>3. f \in Bijection(Active(q), own)
    <2> DEFINE A == Active(q)
               token(s) == Read(q)[s].Token
    <2> HIDE DEF A, token
    <2>1. f = [s \in A |-> token(s)]
      BY DEF A, token
    <2>2. {token(s) : s \in A} = own /\ \A r, s \in A : token(r) = token(s) => r = s
      BY <1>1 DEF A, token
    <2> HIDE DEF f, own
    <2>3. f \in [A -> own] /\ \A s \in A : f[s] = token(s)
      BY <2>1, <2>2
    <2>4. f \in Injection(A, own)
      BY <2>2, <2>3 DEF Injection, IsInjective
    <2>5. f \in Surjection(A, own)
      BY <2>2, <2>3 DEF Surjection
    <2> QED BY <2>4, <2>5 DEF Bijection, A
  <1> QED BY <1>1, <1>2, <1>3, FS_Bijection DEF ExistsBijection

\* A reader past the last slot has called every monitor of its queue.
LEMMA ReadersHaveCalled ==
  ASSUME MonitorConstants, IInv
  PROVE  MonitorsAreCalled
  <1> SUFFICES ASSUME NEW t \in Notifiers, pc[t] = "invoke"
               PROVE  LET own == {m \in held : MonitorQueue[m] = QueueOf(Head(left[t]))} IN
                      /\ called[t] \subseteq own
                      /\ slot[t] \notin Slots => called[t] = own
    BY DEF MonitorsAreCalled
  <1> DEFINE q == QueueOf(Head(left[t]))
  <1>1. q \in Queues
    BY ReaderQueue DEF IInv
  <1>2. slot[t] # 0 /\ called[t] = {Read(q)[s].Token : s \in {r \in Active(q) : r < slot[t]}}
    BY <1>1 DEF IInv, CalledOK
  <1>3. {Read(q)[s].Token : s \in Active(q)} = {m \in held : MonitorQueue[m] = q}
    BY <1>1 DEF IInv, SlotsOK
  <1>4. slot[t] \notin Slots => \A r \in Active(q) : r < slot[t]
    BY <1>2 DEF IInv, TypeOK, Slots, Active, MonitorConstants
  <1> HIDE DEF q
  <1>5. slot[t] \notin Slots => {r \in Active(q) : r < slot[t]} = Active(q)
    BY <1>4
  <1>6. called[t] \subseteq {Read(q)[s].Token : s \in Active(q)}
    BY <1>2
  <1> QED BY <1>2, <1>3, <1>5, <1>6 DEF q

\* Whoever reads a buffer holds its mutex and is counted, so that what it read still holds.
THEOREM MonitorInvariant ==
  ASSUME MonitorConstants
  PROVE  Spec => []IInv
  <1>1. Init => IInv
    BY InitEstablishes
  <1>2. IInv /\ [Next]_vars => IInv'
    BY StepPreserves
  <1> QED BY <1>1, <1>2, PTL DEF Spec

\* Registering, unregistering and notifying keep the types of the state of the monitors
\* and of the vector; the counts of readers never fall below zero.
THEOREM TypeCorrect ==
  ASSUME MonitorConstants
  PROVE  Spec => []TypeOK
  <1>1. IInv => TypeOK
    BY DEF IInv
  <1> QED BY <1>1, MonitorInvariant, PTL

\* No registration is lost or comes back over the swaps of the two buffers of
\* SubmitCallback, for any number of queues, monitors and slots.
THEOREM NoLostRegistration ==
  ASSUME MonitorConstants
  PROVE  Spec => []MonitorsAreActive
  <1>1. IInv => MonitorsAreActive
    BY SlotsAreCounted
  <1> QED BY <1>1, MonitorInvariant, PTL

\* SubmitCallback::Invoke calls every monitor that is registered with the queue, and
\* none that Unregister has returned for, whoever registers meanwhile.
THEOREM EveryMonitorIsCalled ==
  ASSUME MonitorConstants
  PROVE  Spec => []MonitorsAreCalled
  <1>1. IInv => MonitorsAreCalled
    BY ReadersHaveCalled
  <1> QED BY <1>1, MonitorInvariant, PTL

\* AtomicVector::Visit is called back only with contexts that are attached: none that
\* Detach has returned for is still to come.
THEOREM OnlyAttachedAreVisited ==
  ASSUME MonitorConstants
  PROVE  Spec => []VisitedAreAttached
  <1>1. IInv => VisitedAreAttached
    BY DEF IInv
  <1> QED BY <1>1, MonitorInvariant, PTL
=============================================================================
