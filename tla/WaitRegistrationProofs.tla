------------------------- MODULE WaitRegistrationProofs -------------------------
(***************************************************************************)
(* Proofs about WaitRegistration, for any number of registrations,         *)
(* contexts and threads: a registration does not go deaf, its callback has *)
(* one entry at a time, and who follows a pointer to it finds it alive.    *)
(* The last needs that terminations are apart from waiters and signals     *)
(* (EndsApart), for a termination deletes whatever the count is.           *)
(***************************************************************************)
EXTENDS WaitRegistration, FiniteSetTheorems, SequenceTheorems, TLAPS

-----------------------------------------------------------------------------
(* The invariant *)

Labels == {"idle", "add", "token", "remove", "disarm", "close", "append", "push", "called",
           "waiting", "release", "take", "cancel"}
AtReg == {"add", "token", "remove", "disarm", "close", "append", "push", "called"}
CopyAt == {"waiting", "append", "push", "release", "cancel"}

SharedOK ==
    /\ life \in [Regs -> {"none", "live", "deleted"}] /\ refs \in [Regs -> Int]
    /\ deleted \subseteq Regs /\ appended \subseteq Regs /\ armed \subseteq Regs
    /\ waits \subseteq Regs /\ events \subseteq Regs /\ registry \subseteq Regs
    /\ signaled \subseteq Regs
    /\ signals \in [Regs -> Nat] /\ status \in [Contexts -> {"Active", "Terminating"}]

QueueOK == queue \in Seq([of : Regs, registration : Regs \cup {None}])

LocalsOK ==
    /\ pc \in [Threads -> Labels] /\ reg \in [Threads -> Regs \cup Contexts \cup {None}]
    /\ snap \in [Threads -> SUBSET Regs] /\ heard \in [Threads -> SUBSET Regs]

PlacesOK ==
    \A t \in Threads :
        /\ pc[t] \in AtReg => reg[t] \in Regs
        /\ pc[t] \in {"take", "cancel"} => reg[t] \in Ended
        /\ pc[t] = "cancel" => \A r \in snap[t] : RegContext[r] = reg[t]
        /\ pc[t] \notin CopyAt => snap[t] = {}

ShapeOK == SharedOK /\ QueueOK /\ LocalsOK /\ PlacesOK

\* The thread has the entry of a registration in hand, before the queue or after it.
Carries(t, r) == pc[t] \in {"push", "called"} /\ reg[t] = r

\* An entry is in one place, its registration has "appended" set, and it points to its
\* registration or to none.
EntriesOK ==
    /\ \A k \in DOMAIN queue :
          /\ queue[k].registration \in {queue[k].of, None} /\ queue[k].of \in appended
          /\ \A j \in DOMAIN queue : queue[j].of = queue[k].of => j = k
          /\ \A t \in Threads : ~Carries(t, queue[k].of)
    /\ \A t \in Threads, r \in Regs : Carries(t, r) =>
          /\ r \in appended
          /\ \A u \in Threads : Carries(u, r) => u = t

\* The thread has the registration to itself, to add it or to take it away.
Owns(t, r) ==
    \/ pc[t] \in {"add", "disarm", "close"} /\ reg[t] = r
    \/ pc[t] = "cancel" /\ r \in snap[t]

\* RegisterWaitHandle has not put it into the arrays.
Fresh(r) == life[r] = "none" \/ \E t \in Threads : pc[t] = "add" /\ reg[t] = r

\* One thread at most takes a registration away, after it left m_waits.
OwnersOK ==
    \A r \in Regs :
        /\ r \in waits => r \notin deleted /\ \A t \in Threads : ~Owns(t, r)
        /\ \A t, u \in Threads : Owns(t, r) /\ Owns(u, r) => t = u
        /\ \A t \in Threads : pc[t] = "cancel" /\ r \in snap[t] => r \notin deleted
        /\ \A t \in Threads : pc[t] \in {"disarm", "close"} /\ reg[t] = r => r \in deleted
        /\ r \in deleted /\ r \in armed => \E t \in Threads : pc[t] = "disarm" /\ reg[t] = r

\* Nobody has a pointer to a fresh registration but the thread that adds it.
FreshOK ==
    \A r \in Regs : Fresh(r) =>
        /\ r \notin armed \cup appended \cup waits \cup deleted
        /\ \A t \in Threads :
              /\ pc[t] \in AtReg \ {"add", "token", "remove"} => reg[t] # r
              /\ r \notin snap[t]
              /\ life[r] = "none" => ~(pc[t] = "add" /\ reg[t] = r)

\* An entry of the registration is on its way.
Waited(r) ==
    \/ \E k \in DOMAIN queue : queue[k].of = r
    \/ \E t \in Threads : Carries(t, r)

\* A registration in m_waits hears: "appended" is set only while an entry is on its way,
\* and else the pool has its wait or its callback.
HearsOK ==
    \A r \in waits :
        /\ r \in appended => Waited(r)
        /\ r \in appended \/ r \in armed \/ InWaitCallback(r)
        /\ \A k \in DOMAIN queue : queue[k].of = r => queue[k].registration = r

-----------------------------------------------------------------------------
(* Every step keeps it *)

USE DEF WaitConstants, Threads, regVars, portVars, signalVars, localVars, Goto, Set

\* The step of one thread leaves the others alone.
Others(t) ==
    \A u \in Threads \ {t} : pc'[u] = pc[u] /\ reg'[u] = reg[u] /\ snap'[u] = snap[u]

LEMMA ReturnLocals ==
  ASSUME LocalsOK, NEW t \in Threads, Return(t)
  PROVE  /\ LocalsOK' /\ Others(t)
         /\ pc'[t] = "idle" /\ reg'[t] = None /\ snap'[t] = {} /\ heard'[t] = {}
  BY DEF LocalsOK, Labels, Return, Others

LEMMA ReturnPlaces ==
  ASSUME LocalsOK, PlacesOK, NEW t \in Threads, Return(t)
  PROVE  PlacesOK'
  BY ReturnLocals DEF PlacesOK, Others, AtReg, CopyAt

LEMMA QueueElements ==
  ASSUME QueueOK, NEW k \in DOMAIN queue
  PROVE  queue[k].of \in Regs /\ queue[k].registration \in Regs \cup {None}
  <1> DEFINE E == [of : Regs, registration : Regs \cup {None}]
  <1>1. queue \in Seq(E)
    BY DEF QueueOK
  <1> HIDE DEF E
  <1>2. queue[k] \in E
    BY <1>1
  <1> QED BY <1>2 DEF E

\* What an entry at the end, or none at the head, makes of the queue
LEMMA QueueAppend ==
  ASSUME QueueOK, NEW e \in [of : Regs, registration : Regs \cup {None}],
         queue' = Append(queue, e)
  PROVE  /\ QueueOK' /\ Len(queue) \in Nat
         /\ DOMAIN queue = 1 .. Len(queue) /\ DOMAIN queue' = 1 .. Len(queue) + 1
         /\ \A k \in DOMAIN queue : queue'[k] = queue[k]
         /\ queue'[Len(queue) + 1] = e
  BY DEF QueueOK

LEMMA QueueTail ==
  ASSUME QueueOK, queue # <<>>, queue' = Tail(queue)
  PROVE  /\ QueueOK' /\ Len(queue) \in Nat \ {0}
         /\ DOMAIN queue = 1 .. Len(queue) /\ DOMAIN queue' = 1 .. Len(queue) - 1
         /\ \A k \in DOMAIN queue' : queue'[k] = queue[k + 1]
         /\ Head(queue) = queue[1]
         /\ Head(queue) \in [of : Regs, registration : Regs \cup {None}]
  <1> DEFINE E == [of : Regs, registration : Regs \cup {None}]
  <1>1. queue \in Seq(E)
    BY DEF QueueOK
  <1> HIDE DEF E
  <1>2. Head(queue) \in E /\ queue' \in Seq(E)
    BY <1>1, HeadTailProperties
  <1>3. /\ Len(queue) \in Nat \ {0} /\ Len(queue') = Len(queue) - 1
        /\ DOMAIN queue = 1 .. Len(queue) /\ Head(queue) = queue[1]
        /\ DOMAIN queue' = 1 .. Len(queue')
        /\ \A k \in 1 .. Len(queue) - 1 : queue'[k] = queue[k + 1]
    BY <1>1, <1>2
  <1> QED BY <1>2, <1>3 DEF E, QueueOK

LEMMA SharedKept ==
  ASSUME WaitConstants, ShapeOK, Next
  PROVE  SharedOK'
  <1> USE DEF ShapeOK, SharedOK, PlacesOK, AtReg, Release
  <1>1. ASSUME NEW r \in Regs, Signal(r)
        PROVE  SharedOK'
    BY <1>1 DEF Signal
  <1>2. ASSUME NEW t \in Threads, NEW r \in Regs,
               \/ Register(t, r) \/ Unregister(t, r) \/ Fire(t, r) \/ Wake(t, r)
        PROVE  SharedOK'
    BY <1>2 DEF Register, Unregister, Fire, Wake
  <1>3. ASSUME NEW t \in Threads, NEW c \in Contexts, Cancel(t, c)
        PROVE  SharedOK'
    BY <1>3 DEF Cancel
  <1>4. ASSUME NEW t \in Threads,
               \/ Add(t) \/ AddFails(t) \/ Token(t) \/ Remove(t)
               \/ Disarm(t)
        PROVE  SharedOK'
    BY <1>4 DEF Add, AddFails, Token, Remove, Disarm
  <1>5. ASSUME NEW t \in Threads,
               \/ Close(t) \/ ReleaseCopy(t)
        PROVE  SharedOK'
    BY <1>5 DEF Close, ReleaseCopy
  <1>6. ASSUME NEW t \in Threads, Wait(t)
        PROVE  SharedOK'
    BY <1>6 DEF Wait
  <1>7. ASSUME NEW t \in Threads,
               \/ WakeOther(t) \/ TakeWaits(t) \/ EndCancel(t)
        PROVE  SharedOK'
    BY <1>7 DEF WakeOther, TakeWaits, EndCancel
  <1>8. ASSUME NEW t \in Threads, TestAndSet(t)
        PROVE  SharedOK'
    BY <1>8 DEF TestAndSet
  <1>9. ASSUME NEW t \in Threads,
               \/ Push(t) \/ Pop(t)
        PROVE  SharedOK'
    BY <1>9 DEF Push, Pop
  <1>10. ASSUME NEW t \in Threads, Rearm(t)
        PROVE  SharedOK'
    BY <1>10 DEF Rearm, LocalsOK
  <1>11. ASSUME NEW t \in Threads, CancelWait(t)
        PROVE  SharedOK'
    BY <1>11 DEF CancelWait, LocalsOK
  <1> QED BY <1>1, <1>2, <1>3, <1>4, <1>5, <1>6, <1>7, <1>8, <1>9, <1>10, <1>11 DEF Next

LEMMA LocalsKept ==
  ASSUME WaitConstants, ShapeOK, Next
  PROVE  LocalsOK'
  <1> USE DEF ShapeOK, SharedOK, LocalsOK, PlacesOK, AtReg, Labels, Release
  <1>1. ASSUME NEW r \in Regs, Signal(r)
        PROVE  LocalsOK'
    BY <1>1 DEF Signal
  <1>2. ASSUME NEW t \in Threads, NEW r \in Regs,
               \/ Register(t, r) \/ Unregister(t, r) \/ Fire(t, r) \/ Wake(t, r)
        PROVE  LocalsOK'
    BY <1>2 DEF Register, Unregister, Fire, Wake
  <1>3. ASSUME NEW t \in Threads, NEW c \in Contexts, Cancel(t, c)
        PROVE  LocalsOK'
    BY <1>3 DEF Cancel
  <1>4. ASSUME NEW t \in Threads,
               \/ AddFails(t) \/ Close(t) \/ WakeOther(t) \/ ReleaseCopy(t)
               \/ Rearm(t) \/ EndCancel(t)
        PROVE  LocalsOK'
    BY <1>4, ReturnLocals DEF AddFails, Close, WakeOther, ReleaseCopy, Rearm, EndCancel
  <1>5. ASSUME NEW t \in Threads,
               \/ TestAndSet(t) \/ Push(t)
        PROVE  LocalsOK'
    BY <1>5, ReturnLocals DEF TestAndSet, Push, Done
  <1>6. ASSUME NEW t \in Threads,
               \/ Token(t) \/ Remove(t)
        PROVE  LocalsOK'
    BY <1>6, ReturnLocals DEF Token, Remove
  <1>7. ASSUME NEW t \in Threads,
               \/ Add(t) \/ Disarm(t) \/ Wait(t)
        PROVE  LocalsOK'
    BY <1>7 DEF Add, Disarm, Wait
  <1>8. ASSUME NEW t \in Threads, TakeWaits(t)
        PROVE  LocalsOK'
    BY <1>8 DEF TakeWaits
  <1>9. ASSUME NEW t \in Threads, CancelWait(t)
        PROVE  LocalsOK'
    BY <1>9 DEF CancelWait
  <1>10. ASSUME NEW t \in Threads, Pop(t)
        PROVE  LocalsOK'
    <2>1. CASE Head(queue).registration = None
      BY <1>10, <2>1 DEF Pop
    <2>2. CASE Head(queue).registration # None
      <3>1. Head(queue) \in [of : Regs, registration : Regs \cup {None}]
        BY <1>10, HeadTailProperties DEF Pop, QueueOK
      <3>2. Head(queue).registration \in Regs
        BY <2>2, <3>1
      <3> QED BY <1>10, <2>2, <3>2 DEF Pop
    <2> QED BY <2>1, <2>2
  <1> QED BY <1>1, <1>2, <1>3, <1>4, <1>5, <1>6, <1>7, <1>8, <1>9, <1>10 DEF Next

LEMMA QueueKept ==
  ASSUME WaitConstants, ShapeOK, Next
  PROVE  QueueOK'
  <1> USE DEF ShapeOK, QueueOK
  <1>1. ASSUME NEW r \in Regs, Signal(r)
        PROVE  QueueOK'
    BY <1>1 DEF Signal
  <1>2. ASSUME NEW t \in Threads, NEW r \in Regs,
               \/ Register(t, r) \/ Unregister(t, r) \/ Fire(t, r) \/ Wake(t, r)
        PROVE  QueueOK'
    BY <1>2 DEF Register, Unregister, Fire, Wake
  <1>3. ASSUME NEW t \in Threads, NEW c \in Contexts, Cancel(t, c)
        PROVE  QueueOK'
    BY <1>3 DEF Cancel
  <1>4. ASSUME NEW t \in Threads,
               \/ Add(t) \/ AddFails(t) \/ Token(t) \/ Remove(t)
               \/ Disarm(t) \/ Close(t) \/ TestAndSet(t) \/ Wait(t)
               \/ WakeOther(t) \/ ReleaseCopy(t) \/ Rearm(t) \/ TakeWaits(t)
               \/ EndCancel(t)
        PROVE  QueueOK'
    BY <1>4 DEF Add, AddFails, Token, Remove, Disarm, Close, TestAndSet, Wait, WakeOther,
       ReleaseCopy, Rearm, TakeWaits, EndCancel
  <1>5. ASSUME NEW t \in Threads, Push(t)
        PROVE  QueueOK'
    BY <1>5 DEF Push, Entry, PlacesOK, AtReg
  <1>6. ASSUME NEW t \in Threads, Pop(t)
        PROVE  QueueOK'
    BY <1>6 DEF Pop
  <1>7. ASSUME NEW t \in Threads, CancelWait(t)
        PROVE  QueueOK'
    <2>1. PICK r \in snap[t] :
              queue' = IF r \in appended THEN queue
                       ELSE Append(queue, [of |-> r, registration |-> None])
      BY <1>7 DEF CancelWait
    <2>2. [of |-> r, registration |-> None] \in [of : Regs, registration : Regs \cup {None}]
      BY DEF LocalsOK
    <2>3. Append(queue, [of |-> r, registration |-> None])
              \in Seq([of : Regs, registration : Regs \cup {None}])
      BY <2>2, AppendProperties
    <2> QED BY <2>1, <2>3
  <1> QED BY <1>1, <1>2, <1>3, <1>4, <1>5, <1>6, <1>7 DEF Next

LEMMA PlacesKept ==
  ASSUME WaitConstants, ShapeOK, Next
  PROVE  PlacesOK'
  <1> USE DEF ShapeOK, LocalsOK, PlacesOK, AtReg, CopyAt
  <1>1. ASSUME NEW r \in Regs, Signal(r)
        PROVE  PlacesOK'
    BY <1>1 DEF Signal
  <1>2. ASSUME NEW t \in Threads, NEW r \in Regs,
               \/ Register(t, r) \/ Unregister(t, r) \/ Fire(t, r) \/ Wake(t, r)
        PROVE  PlacesOK'
    BY <1>2 DEF Register, Unregister, Fire, Wake
  <1>3. ASSUME NEW t \in Threads, NEW c \in Contexts, Cancel(t, c)
        PROVE  PlacesOK'
    BY <1>3 DEF Cancel
  <1>4. ASSUME NEW t \in Threads,
               \/ AddFails(t) \/ Close(t) \/ WakeOther(t) \/ ReleaseCopy(t)
               \/ Rearm(t) \/ EndCancel(t)
        PROVE  PlacesOK'
    BY <1>4, ReturnPlaces DEF AddFails, Close, WakeOther, ReleaseCopy, Rearm, EndCancel
  <1>5. ASSUME NEW t \in Threads,
               \/ TestAndSet(t) \/ Push(t)
        PROVE  PlacesOK'
    <2>1. CASE Return(t)
      BY <2>1, ReturnPlaces
    <2>2. CASE ~Return(t)
      BY <1>5, <2>2 DEF TestAndSet, Push, Done
    <2> QED BY <2>1, <2>2
  <1>6. ASSUME NEW t \in Threads,
               \/ Token(t) \/ Remove(t)
        PROVE  PlacesOK'
    <2>1. CASE Return(t)
      BY <2>1, ReturnPlaces
    <2>2. CASE ~Return(t)
      BY <1>6, <2>2 DEF Token, Remove
    <2> QED BY <2>1, <2>2
  <1>7. ASSUME NEW t \in Threads,
               \/ Add(t) \/ Disarm(t) \/ Wait(t)
        PROVE  PlacesOK'
    BY <1>7 DEF Add, Disarm, Wait
  <1>8. ASSUME NEW t \in Threads, TakeWaits(t)
        PROVE  PlacesOK'
    BY <1>8 DEF TakeWaits
  <1>9. ASSUME NEW t \in Threads, CancelWait(t)
        PROVE  PlacesOK'
    BY <1>9 DEF CancelWait
  <1>10. ASSUME NEW t \in Threads, Pop(t)
        PROVE  PlacesOK'
    <2>1. Head(queue) \in [of : Regs, registration : Regs \cup {None}]
      BY <1>10, HeadTailProperties DEF Pop, QueueOK
    <2> QED BY <1>10, <2>1 DEF Pop
  <1> QED BY <1>1, <1>2, <1>3, <1>4, <1>5, <1>6, <1>7, <1>8, <1>9, <1>10 DEF Next

LEMMA EntriesPush ==
  ASSUME ShapeOK, EntriesOK, NEW t \in Threads, Push(t)
  PROVE  EntriesOK'
  <1> DEFINE n == Len(queue)
             r == reg[t]
             in(p) == p \in {"push", "called"}
  <1>1. /\ r \in Regs /\ queue' = Append(queue, Entry(r)) /\ pc[t] = "push"
        /\ UNCHANGED appended
    BY DEF Push, ShapeOK, PlacesOK, AtReg
  <1>2. pc'[t] \in {"idle", "release"} /\ Others(t)
    BY DEF Push, Done, Return, Others, ShapeOK, LocalsOK
  <1>3. Entry(r) \in [of : Regs, registration : Regs \cup {None}]
    BY <1>1 DEF Entry
  <1>4. /\ n \in Nat /\ DOMAIN queue = 1 .. n /\ DOMAIN queue' = 1 .. n + 1
        /\ \A k \in DOMAIN queue : queue'[k] = queue[k] /\ queue[k].of \in Regs
        /\ queue'[n + 1].of = r /\ queue'[n + 1].registration = r
    <2>1. /\ n \in Nat /\ DOMAIN queue = 1 .. n /\ DOMAIN queue' = 1 .. n + 1
          /\ \A k \in DOMAIN queue : queue'[k] = queue[k]
          /\ queue'[n + 1] = Entry(r)
      BY <1>1, <1>3, QueueAppend DEF ShapeOK
    <2>2. \A k \in DOMAIN queue : queue[k].of \in Regs
      BY QueueElements DEF ShapeOK
    <2> QED BY <2>1, <2>2 DEF Entry
  <1>5. /\ r \in appended /\ \A k \in DOMAIN queue : queue[k].of # r
        /\ \A u \in Threads : in(pc[u]) /\ reg[u] = r => u = t
    BY <1>1 DEF EntriesOK, Carries
  <1>6. \A u \in Threads :
           in(pc'[u]) => u # t /\ in(pc[u]) /\ reg'[u] = reg[u] /\ reg[u] # r
    BY <1>2, <1>5 DEF Others
  <1> HIDE DEF n, r
  <1>7. \A u, v \in Threads, q \in Regs :
           in(pc'[u]) /\ reg'[u] = q =>
              q \in appended /\ (in(pc'[v]) /\ reg'[v] = q => v = u)
    BY <1>6 DEF EntriesOK, Carries
  <1>8. ASSUME NEW k \in DOMAIN queue'
        PROVE  /\ queue'[k].registration \in {queue'[k].of, None} /\ queue'[k].of \in appended
               /\ \A j \in DOMAIN queue' : queue'[j].of = queue'[k].of => j = k
               /\ \A u \in Threads : ~(in(pc'[u]) /\ reg'[u] = queue'[k].of)
    <2>1. \A j \in DOMAIN queue' : j = n + 1 \/ (j # n + 1 /\ j \in DOMAIN queue)
      BY <1>4
    <2>2. CASE k = n + 1
      BY <1>4, <1>5, <1>6, <2>1, <2>2
    <2>3. CASE k \in DOMAIN queue
      <3>1. /\ queue[k].registration \in {queue[k].of, None} /\ queue[k].of \in appended
            /\ \A j \in DOMAIN queue : queue[j].of = queue[k].of => j = k
            /\ \A u \in Threads : ~(in(pc[u]) /\ reg[u] = queue[k].of)
        BY <2>3 DEF EntriesOK, Carries
      <3> QED BY <1>4, <1>5, <1>6, <2>1, <2>3, <3>1
    <2> QED BY <2>1, <2>2, <2>3
  <1> QED BY <1>1, <1>7, <1>8 DEF EntriesOK, Carries

LEMMA EntriesPop ==
  ASSUME WaitConstants, ShapeOK, EntriesOK, NEW t \in Threads, Pop(t)
  PROVE  EntriesOK'
  <1> DEFINE n == Len(queue)
             r == queue[1].of
             in(p) == p \in {"push", "called"}
  <1>1. queue # <<>> /\ queue' = Tail(queue) /\ pc[t] = "idle" /\ UNCHANGED appended
    BY DEF Pop
  <1>2. /\ n \in Nat \ {0} /\ DOMAIN queue = 1 .. n /\ DOMAIN queue' = 1 .. n - 1
        /\ \A k \in DOMAIN queue' : queue'[k] = queue[k + 1]
        /\ Head(queue) = queue[1] /\ r \in Regs
    BY <1>1, QueueTail DEF ShapeOK
  <1>3. /\ 1 \in DOMAIN queue /\ r \in appended
        /\ \A j \in DOMAIN queue : queue[j].of = r => j = 1
        /\ \A u \in Threads : ~(in(pc[u]) /\ reg[u] = r)
    BY <1>2 DEF EntriesOK, Carries
  <1>4. /\ pc'[t] = "idle" \/ (pc'[t] = "called" /\ reg'[t] = r)
        /\ \A u \in Threads \ {t} : pc'[u] = pc[u] /\ reg'[u] = reg[u]
    <2>1. queue[1].registration # None => queue[1].registration = r
      BY <1>3 DEF EntriesOK
    <2>2. pc \in [Threads -> Labels] /\ reg \in [Threads -> Regs \cup Contexts \cup {None}]
      BY DEF ShapeOK, LocalsOK
    <2> HIDE DEF r
    <2> QED BY <1>1, <1>2, <2>1, <2>2 DEF Pop
  <1> HIDE DEF n, r
  <1>5. \A u \in Threads : in(pc'[u]) =>
           \/ u # t /\ in(pc[u]) /\ reg'[u] = reg[u] /\ reg[u] # r
           \/ u = t /\ reg'[u] = r
    BY <1>3, <1>4
  <1>6. \A u, v \in Threads, q \in Regs :
           in(pc'[u]) /\ reg'[u] = q =>
              q \in appended /\ (in(pc'[v]) /\ reg'[v] = q => v = u)
    BY <1>3, <1>5 DEF EntriesOK, Carries
  <1>7. ASSUME NEW k \in DOMAIN queue'
        PROVE  /\ queue'[k].registration \in {queue'[k].of, None} /\ queue'[k].of \in appended
               /\ \A j \in DOMAIN queue' : queue'[j].of = queue'[k].of => j = k
               /\ \A u \in Threads : ~(in(pc'[u]) /\ reg'[u] = queue'[k].of)
    <2>1. \A j \in DOMAIN queue' : /\ j + 1 \in DOMAIN queue /\ queue'[j] = queue[j + 1]
                                   /\ j + 1 # 1 /\ j \in Int
      BY <1>2
    <2>2. /\ queue[k + 1].registration \in {queue[k + 1].of, None}
          /\ queue[k + 1].of \in appended
          /\ \A j \in DOMAIN queue : queue[j].of = queue[k + 1].of => j = k + 1
          /\ \A u \in Threads : ~(in(pc[u]) /\ reg[u] = queue[k + 1].of)
      BY <2>1 DEF EntriesOK, Carries
    <2>3. queue[k + 1].of # r
      BY <1>3, <2>1
    <2>4. \A j \in DOMAIN queue' : queue'[j].of = queue'[k].of => j = k
      BY <2>1, <2>2
    <2> QED BY <1>5, <2>1, <2>2, <2>3, <2>4
  <1> QED BY <1>1, <1>6, <1>7 DEF EntriesOK, Carries

LEMMA EntriesKept ==
  ASSUME WaitConstants, ShapeOK, EntriesOK, Next
  PROVE  EntriesOK'
  <1> USE DEF ShapeOK, LocalsOK, EntriesOK, Carries
  <1>1. ASSUME NEW r \in Regs, Signal(r)
        PROVE  EntriesOK'
    BY <1>1 DEF Signal
  <1>2. ASSUME NEW t \in Threads, NEW r \in Regs,
               \/ Register(t, r) \/ Unregister(t, r) \/ Fire(t, r) \/ Wake(t, r)
        PROVE  EntriesOK'
    BY <1>2 DEF Register, Unregister, Fire, Wake
  <1>3. ASSUME NEW t \in Threads, NEW c \in Contexts, Cancel(t, c)
        PROVE  EntriesOK'
    BY <1>3 DEF Cancel
  <1>4. ASSUME NEW t \in Threads,
               \/ Add(t) \/ AddFails(t) \/ Token(t) \/ Remove(t)
               \/ Disarm(t) \/ Close(t)
        PROVE  EntriesOK'
    BY <1>4, ReturnLocals DEF Add, AddFails, Token, Remove, Disarm, Close, Return
  <1>5. ASSUME NEW t \in Threads,
               \/ Wait(t) \/ WakeOther(t) \/ ReleaseCopy(t) \/ TakeWaits(t)
               \/ EndCancel(t)
        PROVE  EntriesOK'
    BY <1>5 DEF Wait, WakeOther, ReleaseCopy, TakeWaits, EndCancel, Return
  <1>6. ASSUME NEW t \in Threads, TestAndSet(t)
        PROVE  EntriesOK'
    BY <1>6 DEF TestAndSet, Done, Return, PlacesOK, AtReg
  <1>7. ASSUME NEW t \in Threads, Push(t)
        PROVE  EntriesOK'
    BY <1>7, EntriesPush
  <1>8. ASSUME NEW t \in Threads, Pop(t)
        PROVE  EntriesOK'
    BY <1>8, EntriesPop
  <1>9. ASSUME NEW t \in Threads, Rearm(t)
        PROVE  EntriesOK'
    BY <1>9 DEF Rearm, Return, PlacesOK, AtReg
  <1>10. ASSUME NEW t \in Threads, CancelWait(t)
        PROVE  EntriesOK'
    BY <1>10 DEF CancelWait, QueueOK
  <1> QED BY <1>1, <1>2, <1>3, <1>4, <1>5, <1>6, <1>7, <1>8, <1>9, <1>10 DEF Next

\* The step of a thread that is not about to own a registration
LEMMA OwnersStay ==
  ASSUME OwnersOK, NEW t \in Threads, Others(t), pc[t] # "disarm",
         pc'[t] \notin {"add", "disarm", "close", "cancel"},
         UNCHANGED <<deleted, waits>>, armed' \subseteq armed
  PROVE  OwnersOK'
  BY DEF OwnersOK, Owns, Others

LEMMA OwnersKept ==
  ASSUME WaitConstants, ShapeOK, OwnersOK, FreshOK, Next
  PROVE  OwnersOK'
  <1> USE DEF ShapeOK, SharedOK, LocalsOK, PlacesOK, AtReg, CopyAt, OwnersOK, Owns
  <1>1. ASSUME NEW r \in Regs, Signal(r)
        PROVE  OwnersOK'
    BY <1>1 DEF Signal
  <1>2. ASSUME NEW t \in Threads, NEW r \in Regs, Register(t, r)
        PROVE  OwnersOK'
    BY <1>2 DEF Register, FreshOK, Fresh
  <1>3. ASSUME NEW t \in Threads, NEW r \in Regs, Unregister(t, r)
        PROVE  OwnersOK'
    BY <1>3 DEF Unregister
  <1>4. ASSUME NEW t \in Threads, NEW r \in Regs, Fire(t, r)
        PROVE  OwnersOK'
    BY <1>4 DEF Fire
  <1>5. ASSUME NEW t \in Threads, NEW r \in Regs, Wake(t, r)
        PROVE  OwnersOK'
    BY <1>5 DEF Wake
  <1>6. ASSUME NEW t \in Threads, NEW c \in Contexts, Cancel(t, c)
        PROVE  OwnersOK'
    BY <1>6 DEF Cancel
  <1>7. ASSUME NEW t \in Threads, Add(t)
        PROVE  OwnersOK'
    BY <1>7 DEF Add, FreshOK, Fresh
  <1>8. ASSUME NEW t \in Threads, AddFails(t)
        PROVE  OwnersOK'
    BY <1>8 DEF AddFails, Return
  <1>9. ASSUME NEW t \in Threads, Token(t)
        PROVE  OwnersOK'
    BY <1>9 DEF Token, Return
  <1>10. ASSUME NEW t \in Threads, Remove(t)
        PROVE  OwnersOK'
    <2>1. CASE reg[t] \in waits
      BY <1>10, <2>1 DEF Remove
    <2>2. CASE reg[t] \notin waits
      <3>1. Return(t) /\ pc[t] = "remove" /\ UNCHANGED <<deleted, waits, armed>>
        BY <1>10, <2>2 DEF Remove
      <3> QED BY <3>1, ReturnLocals, OwnersStay
    <2> QED BY <2>1, <2>2
  <1>11. ASSUME NEW t \in Threads, Disarm(t)
        PROVE  OwnersOK'
    BY <1>11 DEF Disarm, Return
  <1>12. ASSUME NEW t \in Threads, Close(t)
        PROVE  OwnersOK'
    BY <1>12 DEF Close, Return
  <1>13. ASSUME NEW t \in Threads, Wait(t)
        PROVE  OwnersOK'
    BY <1>13 DEF Wait
  <1>14. ASSUME NEW t \in Threads,
               \/ WakeOther(t) \/ ReleaseCopy(t) \/ EndCancel(t)
        PROVE  OwnersOK'
    <2>1. Return(t) /\ pc[t] # "disarm" /\ UNCHANGED <<deleted, waits, armed>>
      BY <1>14 DEF WakeOther, ReleaseCopy, EndCancel
    <2> QED BY <2>1, ReturnLocals, OwnersStay
  <1>15. ASSUME NEW t \in Threads, TestAndSet(t)
        PROVE  OwnersOK'
    <2>1. /\ pc[t] = "append" /\ pc'[t] \in {"idle", "release", "push"} /\ Others(t)
          /\ UNCHANGED <<deleted, waits, armed>>
      BY <1>15 DEF TestAndSet, Done, Return, Others
    <2> QED BY <2>1, OwnersStay
  <1>16. ASSUME NEW t \in Threads, Push(t)
        PROVE  OwnersOK'
    <2>1. /\ pc[t] = "push" /\ pc'[t] \in {"idle", "release"} /\ Others(t)
          /\ UNCHANGED <<deleted, waits, armed>>
      BY <1>16 DEF Push, Done, Return, Others
    <2> QED BY <2>1, OwnersStay
  <1>17. ASSUME NEW t \in Threads, Pop(t)
        PROVE  OwnersOK'
    <2>1. /\ pc[t] = "idle" /\ pc'[t] \in {"idle", "called"} /\ Others(t)
          /\ UNCHANGED <<deleted, waits, armed>>
      BY <1>17 DEF Pop, Others
    <2> QED BY <2>1, OwnersStay
  <1>18. ASSUME NEW t \in Threads, Rearm(t)
        PROVE  OwnersOK'
    BY <1>18 DEF Rearm, Return
  <1>19. ASSUME NEW t \in Threads, TakeWaits(t)
        PROVE  OwnersOK'
    BY <1>19 DEF TakeWaits
  <1>20. ASSUME NEW t \in Threads, CancelWait(t)
        PROVE  OwnersOK'
    BY <1>20 DEF CancelWait
  <1> QED BY <1>1, <1>2, <1>3, <1>4, <1>5, <1>6, <1>7, <1>8, <1>9, <1>10, <1>11, <1>12, <1>13,
             <1>14, <1>15, <1>16, <1>17, <1>18, <1>19, <1>20 DEF Next

\* The step of a thread that takes no registration in hand but one that was appended
LEMMA FreshStay ==
  ASSUME FreshOK, NEW t \in Threads, Others(t), pc[t] # "add",
         pc'[t] \in {"idle", "release"} \/ (pc'[t] = "called" /\ reg'[t] \in appended),
         snap'[t] \subseteq snap[t], UNCHANGED <<life, armed, appended, waits, deleted>>
  PROVE  FreshOK'
  <1>1. \A r \in Regs : Fresh(r)' => Fresh(r)
    BY DEF Fresh, Others
  <1> QED BY <1>1 DEF FreshOK, AtReg, Others

LEMMA FreshKept ==
  ASSUME WaitConstants, ShapeOK, OwnersOK, FreshOK, EntriesOK, Next
  PROVE  FreshOK'
  <1> USE DEF ShapeOK, SharedOK, LocalsOK, PlacesOK, AtReg, CopyAt, FreshOK, Fresh
  <1>1. ASSUME NEW r \in Regs, Signal(r)
        PROVE  FreshOK'
    BY <1>1 DEF Signal
  <1>2. ASSUME NEW t \in Threads, NEW r \in Regs, Register(t, r)
        PROVE  FreshOK'
    BY <1>2 DEF Register
  <1>3. ASSUME NEW t \in Threads, NEW r \in Regs, Unregister(t, r)
        PROVE  FreshOK'
    BY <1>3 DEF Unregister
  <1>4. ASSUME NEW t \in Threads, NEW r \in Regs, Fire(t, r)
        PROVE  FreshOK'
    BY <1>4 DEF Fire
  <1>5. ASSUME NEW t \in Threads, NEW r \in Regs, Wake(t, r)
        PROVE  FreshOK'
    BY <1>5 DEF Wake
  <1>6. ASSUME NEW t \in Threads, NEW c \in Contexts, Cancel(t, c)
        PROVE  FreshOK'
    BY <1>6 DEF Cancel
  <1>7. ASSUME NEW t \in Threads, Add(t)
        PROVE  FreshOK'
    BY <1>7 DEF Add, OwnersOK, Owns
  <1>8. ASSUME NEW t \in Threads, AddFails(t)
        PROVE  FreshOK'
    BY <1>8 DEF AddFails, Return, OwnersOK, Owns
  <1>9. ASSUME NEW t \in Threads, Token(t)
        PROVE  FreshOK'
    BY <1>9 DEF Token, Return
  <1>10. ASSUME NEW t \in Threads, Remove(t)
        PROVE  FreshOK'
    BY <1>10 DEF Remove, Return
  <1>11. ASSUME NEW t \in Threads, Disarm(t)
        PROVE  FreshOK'
    BY <1>11 DEF Disarm, Return
  <1>12. ASSUME NEW t \in Threads, Close(t)
        PROVE  FreshOK'
    BY <1>12 DEF Close, Return, Release
  <1>13. ASSUME NEW t \in Threads, Wait(t)
        PROVE  FreshOK'
    BY <1>13 DEF Wait
  <1>14. ASSUME NEW t \in Threads,
               \/ WakeOther(t) \/ ReleaseCopy(t) \/ EndCancel(t)
        PROVE  FreshOK'
    BY <1>14 DEF WakeOther, ReleaseCopy, EndCancel, Return, Release
  <1>15. ASSUME NEW t \in Threads, TestAndSet(t)
        PROVE  FreshOK'
    BY <1>15 DEF TestAndSet, Done, Return
  <1>16. ASSUME NEW t \in Threads, Push(t)
        PROVE  FreshOK'
    <2>1. /\ pc[t] = "push" /\ pc'[t] \in {"idle", "release"} /\ Others(t)
          /\ snap'[t] \subseteq snap[t] /\ UNCHANGED <<life, armed, appended, waits, deleted>>
      BY <1>16 DEF Push, Done, Return, Others
    <2> QED BY <2>1, FreshStay
  <1>17. ASSUME NEW t \in Threads, Pop(t)
        PROVE  FreshOK'
    <2>1. /\ pc[t] = "idle" /\ Others(t)
          /\ snap'[t] = snap[t] /\ UNCHANGED <<life, armed, appended, waits, deleted>>
      BY <1>17 DEF Pop, Others
    <2>2. /\ 1 \in DOMAIN queue /\ Head(queue) = queue[1]
      BY <1>17, QueueTail DEF Pop
    <2>3. queue[1].registration # None => queue[1].registration \in appended
      BY <2>2 DEF EntriesOK
    <2>4. \/ pc'[t] = "idle"
          \/ pc'[t] = "called" /\ reg'[t] \in appended
      BY <1>17, <2>2, <2>3 DEF Pop
    <2> QED BY <2>1, <2>4, FreshStay
  <1>18. ASSUME NEW t \in Threads, Rearm(t)
        PROVE  FreshOK'
    BY <1>18 DEF Rearm, Return, Release
  <1>19. ASSUME NEW t \in Threads, TakeWaits(t)
        PROVE  FreshOK'
    BY <1>19 DEF TakeWaits
  <1>20. ASSUME NEW t \in Threads, CancelWait(t)
        PROVE  FreshOK'
    BY <1>20 DEF CancelWait
  <1> QED BY <1>1, <1>2, <1>3, <1>4, <1>5, <1>6, <1>7, <1>8, <1>9, <1>10, <1>11, <1>12, <1>13,
             <1>14, <1>15, <1>16, <1>17, <1>18, <1>19, <1>20 DEF Next

LEMMA HearsStay ==
  ASSUME HearsOK, NEW t \in Threads, Others(t), pc[t] \notin {"append", "push", "called"},
         UNCHANGED <<queue, appended>>, waits' \subseteq waits,
         \A r \in waits' : r \in armed => r \in armed'
  PROVE  HearsOK'
  <1>1. ASSUME NEW r
        PROVE  /\ Waited(r) => Waited(r)'
               /\ InWaitCallback(r) => InWaitCallback(r)'
    BY DEF Waited, Carries, InWaitCallback, Others
  <1> QED BY <1>1 DEF HearsOK

LEMMA HearsPush ==
  ASSUME ShapeOK, EntriesOK, HearsOK, NEW t \in Threads, Push(t)
  PROVE  HearsOK'
  <1> DEFINE n == Len(queue)
  <1>1. /\ reg[t] \in Regs /\ queue' = Append(queue, Entry(reg[t])) /\ pc[t] = "push"
        /\ UNCHANGED <<appended, armed, waits>>
    BY DEF Push, ShapeOK, PlacesOK, AtReg
  <1>2. pc'[t] \in {"idle", "release"} /\ Others(t)
    BY DEF Push, Done, Return, Others, ShapeOK, LocalsOK
  <1>3. Entry(reg[t]) \in [of : Regs, registration : Regs \cup {None}]
    BY <1>1 DEF Entry
  <1>4. /\ n + 1 \in DOMAIN queue' /\ \A k \in DOMAIN queue' : k = n + 1 \/ k \in DOMAIN queue
        /\ \A k \in DOMAIN queue : k \in DOMAIN queue' /\ queue'[k] = queue[k]
        /\ queue'[n + 1].of = reg[t] /\ queue'[n + 1].registration = reg[t]
    BY <1>1, <1>3, QueueAppend DEF ShapeOK, Entry
  <1> HIDE DEF n
  <1>5. /\ reg[t] \in appended
        /\ \A r : r \in appended /\ InWaitCallback(r) => InWaitCallback(r)' \/ r \in appended
    BY <1>1 DEF EntriesOK, Carries
  <1>6. ASSUME NEW r, Waited(r)
        PROVE  Waited(r)'
    <2>1. CASE \E k \in DOMAIN queue : queue[k].of = r
      BY <1>4, <2>1 DEF Waited
    <2>2. CASE \E u \in Threads : Carries(u, r)
      BY <1>2, <1>4, <2>2 DEF Waited, Carries, Others
    <2> QED BY <1>6, <2>1, <2>2 DEF Waited
  <1>7. ASSUME NEW r, InWaitCallback(r), r \notin appended
        PROVE  InWaitCallback(r)'
    BY <1>2, <1>5, <1>7 DEF InWaitCallback, Others
  <1>8. \A r \in waits, k \in DOMAIN queue' :
           queue'[k].of = r => queue'[k].registration = r
    BY <1>4 DEF HearsOK
  <1> QED BY <1>1, <1>6, <1>7, <1>8 DEF HearsOK

LEMMA HearsPop ==
  ASSUME WaitConstants, ShapeOK, HearsOK, NEW t \in Threads, Pop(t)
  PROVE  HearsOK'
  <1>1. /\ queue # <<>> /\ queue' = Tail(queue) /\ pc[t] = "idle"
        /\ UNCHANGED <<appended, armed, waits>>
    BY DEF Pop
  <1>2. /\ \A k \in DOMAIN queue' : k + 1 \in DOMAIN queue /\ queue'[k] = queue[k + 1]
        /\ \A k \in DOMAIN queue : k = 1 \/ (k - 1 \in DOMAIN queue' /\ queue'[k - 1] = queue[k])
        /\ Head(queue) = queue[1]
    <2>1. /\ Len(queue) \in Nat \ {0} /\ DOMAIN queue = 1 .. Len(queue)
          /\ DOMAIN queue' = 1 .. Len(queue) - 1
          /\ \A k \in DOMAIN queue' : queue'[k] = queue[k + 1]
          /\ Head(queue) = queue[1]
      BY <1>1, QueueTail DEF ShapeOK
    <2>2. ASSUME NEW k \in DOMAIN queue, k # 1
          PROVE  k - 1 \in DOMAIN queue' /\ queue'[k - 1] = queue[k]
      <3>1. k - 1 \in 1 .. Len(queue) - 1 /\ (k - 1) + 1 = k
        BY <2>1, <2>2
      <3> QED BY <2>1, <3>1
    <2> QED BY <2>1, <2>2
  <1>3. /\ \A u \in Threads \ {t} : pc'[u] = pc[u] /\ reg'[u] = reg[u]
        /\ queue[1].registration # None =>
              pc'[t] = "called" /\ reg'[t] = queue[1].registration
    BY <1>1, <1>2 DEF Pop, ShapeOK, LocalsOK
  <1>4. ASSUME NEW r \in waits, Waited(r)
        PROVE  Waited(r)'
    <2>1. ASSUME NEW k \in DOMAIN queue, queue[k].of = r
          PROVE  Waited(r)'
      <3>1. queue[k].registration = r /\ r # None
        BY <2>1 DEF HearsOK, ShapeOK, SharedOK, WaitConstants
      <3>2. CASE k = 1
        BY <1>3, <3>1, <3>2 DEF Waited, Carries
      <3>3. CASE k # 1
        BY <1>2, <2>1, <3>3 DEF Waited
      <3> QED BY <3>2, <3>3
    <2>2. CASE \E u \in Threads : Carries(u, r)
      BY <1>1, <1>3, <2>2 DEF Waited, Carries
    <2> QED BY <1>4, <2>1, <2>2 DEF Waited
  <1>5. \A r : InWaitCallback(r) => InWaitCallback(r)'
    BY <1>1, <1>3 DEF InWaitCallback
  <1>6. \A r \in waits, k \in DOMAIN queue' :
           queue'[k].of = r => queue'[k].registration = r
    BY <1>2 DEF HearsOK
  <1> QED BY <1>1, <1>4, <1>5, <1>6 DEF HearsOK

\* What the end of a context takes from its copy is not in m_waits any more.
LEMMA HearsCancel ==
  ASSUME ShapeOK, OwnersOK, HearsOK, NEW t \in Threads, CancelWait(t)
  PROVE  HearsOK'
  <1>1. PICK r \in snap[t] :
          /\ armed' = armed \ {r} /\ appended' = appended \cup {r}
          /\ queue' = IF r \in appended THEN queue
                      ELSE Append(queue, [of |-> r, registration |-> None])
    BY DEF CancelWait
  <1>2. UNCHANGED <<pc, reg, waits>> /\ pc[t] = "cancel"
    BY DEF CancelWait
  <1>3. r \notin waits /\ r \in Regs
    BY <1>2 DEF OwnersOK, Owns, ShapeOK, LocalsOK
  <1>4. \A k \in DOMAIN queue : k \in DOMAIN queue' /\ queue'[k] = queue[k]
    <2>1. CASE r \in appended
      BY <1>1, <2>1
    <2>2. CASE r \notin appended
      <3>1. [of |-> r, registration |-> None] \in [of : Regs, registration : Regs \cup {None}]
        BY <1>3
      <3> QED BY <1>1, <2>2, <3>1, QueueAppend DEF ShapeOK
    <2> QED BY <2>1, <2>2
  <1>5. \A k \in DOMAIN queue' : k \in DOMAIN queue \/ queue'[k].of = r
    <2>1. CASE r \in appended
      BY <1>1, <2>1
    <2>2. CASE r \notin appended
      <3>1. [of |-> r, registration |-> None] \in [of : Regs, registration : Regs \cup {None}]
        BY <1>3
      <3> QED BY <1>1, <2>2, <3>1, QueueAppend DEF ShapeOK
    <2> QED BY <2>1, <2>2
  <1>6. \A q : Waited(q) => Waited(q)'
    BY <1>2, <1>4 DEF Waited, Carries
  <1>7. \A q : InWaitCallback(q)' = InWaitCallback(q)
    BY <1>2 DEF InWaitCallback
  <1> QED BY <1>1, <1>2, <1>3, <1>4, <1>5, <1>6, <1>7 DEF HearsOK

LEMMA HearsKept ==
  ASSUME WaitConstants, ShapeOK, EntriesOK, OwnersOK, FreshOK, HearsOK, Next
  PROVE  HearsOK'
  <1> USE DEF ShapeOK, SharedOK, LocalsOK
  <1>1. ASSUME NEW r \in Regs, Signal(r)
        PROVE  HearsOK'
    BY <1>1 DEF Signal, HearsOK, Waited, Carries, InWaitCallback
  <1>2. ASSUME NEW t \in Threads, NEW r \in Regs,
               \/ Register(t, r) \/ Unregister(t, r) \/ Wake(t, r)
        PROVE  HearsOK'
    <2>1. /\ Others(t) /\ pc[t] \notin {"append", "push", "called"}
          /\ UNCHANGED <<queue, appended, waits, armed>>
      BY <1>2 DEF Register, Unregister, Wake, Others
    <2> QED BY <2>1, HearsStay
  <1>3. ASSUME NEW t \in Threads, NEW r \in Regs, Fire(t, r)
        PROVE  HearsOK'
    BY <1>3 DEF Fire, HearsOK, Waited, Carries, InWaitCallback
  <1>4. ASSUME NEW t \in Threads, NEW c \in Contexts, Cancel(t, c)
        PROVE  HearsOK'
    <2>1. /\ Others(t) /\ pc[t] \notin {"append", "push", "called"}
          /\ UNCHANGED <<queue, appended, waits, armed>>
      BY <1>4 DEF Cancel, Others
    <2> QED BY <2>1, HearsStay
  <1>5. ASSUME NEW t \in Threads,
               \/ AddFails(t) \/ Token(t) \/ Remove(t) \/ Close(t)
               \/ WakeOther(t) \/ ReleaseCopy(t) \/ TakeWaits(t) \/ EndCancel(t)
        PROVE  HearsOK'
    <2>1. /\ Others(t) /\ pc[t] \notin {"append", "push", "called"}
          /\ UNCHANGED <<queue, appended>>
          /\ waits' \subseteq waits /\ \A r \in waits' : r \in armed => r \in armed'
      BY <1>5 DEF AddFails, Token, Remove, Close, WakeOther, ReleaseCopy, TakeWaits, EndCancel,
         Others, Return
    <2> QED BY <2>1, HearsStay
  <1>6. ASSUME NEW t \in Threads, Wait(t)
        PROVE  HearsOK'
    <2>1. /\ Others(t) /\ pc[t] \notin {"append", "push", "called"}
          /\ UNCHANGED <<queue, appended>>
          /\ waits' \subseteq waits /\ \A r \in waits' : r \in armed => r \in armed'
      BY <1>6 DEF Wait, Others
    <2> QED BY <2>1, HearsStay
  <1>7. ASSUME NEW t \in Threads, Disarm(t)
        PROVE  HearsOK'
    <2>1. /\ Others(t) /\ pc[t] \notin {"append", "push", "called"}
          /\ UNCHANGED <<queue, appended>>
          /\ waits' \subseteq waits /\ \A r \in waits' : r \in armed => r \in armed'
      BY <1>7 DEF Disarm, Others, OwnersOK, Owns
    <2> QED BY <2>1, HearsStay
  <1>8. ASSUME NEW t \in Threads, Add(t)
        PROVE  HearsOK'
    BY <1>8 DEF Add, HearsOK, FreshOK, Fresh, EntriesOK, Waited, Carries, InWaitCallback,
       PlacesOK, AtReg
  <1>9. ASSUME NEW t \in Threads, TestAndSet(t)
        PROVE  HearsOK'
    BY <1>9 DEF TestAndSet, Done, Return, HearsOK, Waited, Carries, InWaitCallback, PlacesOK,
       AtReg
  <1>10. ASSUME NEW t \in Threads, Push(t)
        PROVE  HearsOK'
    BY <1>10, HearsPush
  <1>11. ASSUME NEW t \in Threads, Pop(t)
        PROVE  HearsOK'
    BY <1>11, HearsPop
  <1>12. ASSUME NEW t \in Threads, Rearm(t)
        PROVE  HearsOK'
    BY <1>12 DEF Rearm, Return, HearsOK, Waited, Carries, InWaitCallback, PlacesOK, AtReg,
       OwnersOK, EntriesOK
  <1>13. ASSUME NEW t \in Threads, CancelWait(t)
        PROVE  HearsOK'
    BY <1>13, HearsCancel
  <1> QED BY <1>1, <1>2, <1>3, <1>4, <1>5, <1>6, <1>7, <1>8, <1>9, <1>10, <1>11, <1>12, <1>13
             DEF Next

-----------------------------------------------------------------------------
(* References.  A registration has its first reference until it is closed  *)
(* (Kept), one for its entry (Carried), and one for each copy of m_waits.  *)
(* The count is at least their sum: Wait may lose some.                    *)

Kept(r) == r \notin deleted \/ \E t \in Threads : pc[t] \in {"disarm", "close"} /\ reg[t] = r

Carried(r) ==
    \/ \E k \in DOMAIN queue : queue[k].registration = r
    \/ \E t \in Threads : Carries(t, r)

Copies(r) ==
    {t \in Threads : pc[t] \in {"waiting", "append", "push", "release"} /\ r \in snap[t]}

One(b) == IF b THEN 1 ELSE 0

Held(r) == One(Kept(r)) + One(Carried(r)) + Cardinality(Copies(r))

Used(r) ==
    \/ r \in waits \cup armed \/ Carried(r) \/ Copies(r) # {}
    \/ \E t \in Threads : Owns(t, r) \/ (pc[t] = "append" /\ reg[t] = r)

RefOK(r) ==
    /\ refs[r] \in Nat
    /\ Used(r) => life[r] = "live"
    /\ life[r] = "live" => refs[r] >= Held(r)

\* Who is about to append an entry has a copy, or the pool's callback, which is waited for.
AppendOK ==
    \A t \in Threads : pc[t] = "append" =>
        reg[t] \in snap[t] \/ (t \in PoolThreads /\ Kept(reg[t]))

RefsOK == AppendOK /\ \A r \in Regs : RefOK(r)

\* Terminations are apart from waiters and from signals: at most one of them may have a
\* registration in hand when CancelPendingEntries deletes it.
EndsApart ==
    Ended = {} \/ (Waiters = {} /\ \A r \in Regs : RegContext[r] \in Ended => Signals[r] = 0)

QuietOK ==
    Ended # {} =>
        /\ \A t \in Threads :
              /\ pc[t] \notin {"waiting", "release"}
              /\ pc[t] \in {"append", "push"} => t \in PoolThreads
              /\ pc[t] # "cancel" => snap[t] = {}
        /\ \A r \in Regs : RegContext[r] \in Ended =>
              /\ r \notin signaled /\ signals[r] = 0 /\ ~Carried(r)
              /\ \A t \in Threads : pc[t] = "append" => reg[t] # r

\* The callback of an entry is carried from the submission to the end of the call.
LEMMA CarriedPush ==
  ASSUME ShapeOK, NEW t \in Threads, Push(t), NEW q
  PROVE  Carried(q)' <=> Carried(q)
  <1> DEFINE n == Len(queue)
  <1>1. /\ reg[t] \in Regs /\ queue' = Append(queue, Entry(reg[t])) /\ pc[t] = "push"
    BY DEF Push, ShapeOK, PlacesOK, AtReg
  <1>2. pc'[t] \in {"idle", "release"} /\ Others(t)
    BY DEF Push, Done, Return, Others, ShapeOK, LocalsOK
  <1>3. Entry(reg[t]) \in [of : Regs, registration : Regs \cup {None}]
    BY <1>1 DEF Entry
  <1>4. /\ n + 1 \in DOMAIN queue' /\ \A k \in DOMAIN queue' : k = n + 1 \/ k \in DOMAIN queue
        /\ \A k \in DOMAIN queue : k \in DOMAIN queue' /\ queue'[k] = queue[k]
        /\ queue'[n + 1].registration = reg[t]
    BY <1>1, <1>3, QueueAppend DEF ShapeOK, Entry
  <1> HIDE DEF n
  <1>5. CASE q = reg[t]
    BY <1>1, <1>4, <1>5 DEF Carried, Carries
  <1>6. CASE q # reg[t]
    <2>1. \A u \in Threads : Carries(u, q)' <=> Carries(u, q)
      BY <1>1, <1>2, <1>6 DEF Carries, Others
    <2>2. (\E k \in DOMAIN queue' : queue'[k].registration = q)
             <=> \E k \in DOMAIN queue : queue[k].registration = q
      BY <1>4, <1>6
    <2> QED BY <2>1, <2>2 DEF Carried
  <1> QED BY <1>5, <1>6

LEMMA CarriedPop ==
  ASSUME ShapeOK, NEW t \in Threads, Pop(t), NEW q, q # None
  PROVE  Carried(q)' <=> Carried(q)
  <1>1. queue # <<>> /\ queue' = Tail(queue) /\ pc[t] = "idle"
    BY DEF Pop
  <1>2. /\ \A k \in DOMAIN queue' : k + 1 \in DOMAIN queue /\ queue'[k] = queue[k + 1]
        /\ \A k \in DOMAIN queue : k = 1 \/ (k - 1 \in DOMAIN queue' /\ queue'[k - 1] = queue[k])
        /\ Head(queue) = queue[1] /\ 1 \in DOMAIN queue
    <2>1. /\ Len(queue) \in Nat \ {0} /\ DOMAIN queue = 1 .. Len(queue)
          /\ DOMAIN queue' = 1 .. Len(queue) - 1
          /\ \A k \in DOMAIN queue' : queue'[k] = queue[k + 1]
          /\ Head(queue) = queue[1]
      BY <1>1, QueueTail DEF ShapeOK
    <2>2. ASSUME NEW k \in DOMAIN queue, k # 1
          PROVE  k - 1 \in DOMAIN queue' /\ queue'[k - 1] = queue[k]
      <3>1. k - 1 \in 1 .. Len(queue) - 1 /\ (k - 1) + 1 = k
        BY <2>1, <2>2
      <3> QED BY <2>1, <3>1
    <2> QED BY <2>1, <2>2
  <1>3. /\ \A u \in Threads \ {t} : pc'[u] = pc[u] /\ reg'[u] = reg[u]
        /\ queue[1].registration # None =>
              pc'[t] = "called" /\ reg'[t] = queue[1].registration
        /\ queue[1].registration = None => pc'[t] = "idle"
    BY <1>1, <1>2 DEF Pop, ShapeOK, LocalsOK
  <1>4. ASSUME NEW u \in Threads
        PROVE  Carries(u, q)' <=> (Carries(u, q) \/ (u = t /\ queue[1].registration = q))
    BY <1>1, <1>3 DEF Carries
  <1>5. (\E k \in DOMAIN queue' : queue'[k].registration = q) \/ queue[1].registration = q
           <=> \E k \in DOMAIN queue : queue[k].registration = q
    BY <1>2
  <1> QED BY <1>4, <1>5 DEF Carried

LEMMA CarriedCancel ==
  ASSUME ShapeOK, NEW t \in Threads, CancelWait(t), NEW q, q # None
  PROVE  Carried(q)' <=> Carried(q)
  <1>1. PICK r \in snap[t] :
          queue' = IF r \in appended THEN queue
                   ELSE Append(queue, [of |-> r, registration |-> None])
    BY DEF CancelWait
  <1>2. UNCHANGED <<pc, reg>> /\ r \in Regs
    BY DEF CancelWait, ShapeOK, LocalsOK
  <1>3. CASE r \in appended
    BY <1>1, <1>2, <1>3 DEF Carried, Carries
  <1>4. CASE r \notin appended
    <2>1. [of |-> r, registration |-> None] \in [of : Regs, registration : Regs \cup {None}]
      BY <1>2
    <2>2. /\ \A k \in DOMAIN queue : k \in DOMAIN queue' /\ queue'[k] = queue[k]
          /\ \A k \in DOMAIN queue' : k \in DOMAIN queue \/ queue'[k].registration = None
      BY <1>1, <1>4, <2>1, QueueAppend DEF ShapeOK
    <2> QED BY <1>2, <2>2 DEF Carried, Carries
  <1> QED BY <1>3, <1>4

LEMMA AppendStay ==
  ASSUME AppendOK, NEW t \in Threads, Others(t), pc'[t] # "append",
         pc[t] \notin {"disarm", "close"}, UNCHANGED deleted
  PROVE  AppendOK'
  <1>1. \A r : Kept(r) => Kept(r)'
    BY DEF Kept, Others
  <1> QED BY <1>1 DEF AppendOK, Others

LEMMA QuietKept ==
  ASSUME WaitConstants, EndsApart, ShapeOK, EntriesOK, QuietOK, Next
  PROVE  QuietOK'
  <1> USE DEF ShapeOK, SharedOK, LocalsOK, PlacesOK, AtReg, CopyAt, EndsApart, QuietOK, Carried,
         Carries
  <1>1. ASSUME NEW r \in Regs, Signal(r)
        PROVE  QuietOK'
    BY <1>1 DEF Signal
  <1>2. ASSUME NEW t \in Threads, NEW r \in Regs,
               \/ Register(t, r) \/ Unregister(t, r)
        PROVE  QuietOK'
    BY <1>2 DEF Register, Unregister
  <1>3. ASSUME NEW t \in Threads, NEW r \in Regs, Fire(t, r)
        PROVE  QuietOK'
    BY <1>3 DEF Fire
  <1>4. ASSUME NEW t \in Threads, NEW r \in Regs, Wake(t, r)
        PROVE  QuietOK'
    BY <1>4 DEF Wake
  <1>5. ASSUME NEW t \in Threads, NEW c \in Contexts, Cancel(t, c)
        PROVE  QuietOK'
    BY <1>5 DEF Cancel
  <1>6. ASSUME NEW t \in Threads,
               \/ Add(t) \/ AddFails(t) \/ Token(t) \/ Remove(t)
               \/ Disarm(t) \/ Close(t)
        PROVE  QuietOK'
    BY <1>6 DEF Add, AddFails, Token, Remove, Disarm, Close, Return
  <1>7. ASSUME NEW t \in Threads, TestAndSet(t)
        PROVE  QuietOK'
    BY <1>7 DEF TestAndSet, Return, Done
  <1>8. ASSUME NEW t \in Threads, Push(t)
        PROVE  QuietOK'
    <2>1. /\ pc[t] = "push" /\ reg[t] \in Regs /\ Others(t)
          /\ t \in PoolThreads => pc'[t] = "idle" /\ snap'[t] = {}
          /\ UNCHANGED <<signaled, signals>>
      BY <1>8 DEF Push, Done, Return, Others
    <2>2. \A r \in Regs : Carried(r)' <=> Carried(r)
      BY <1>8, CarriedPush DEF ShapeOK
    <2> HIDE DEF Carried
    <2> QED BY <2>1, <2>2 DEF Others
  <1>9. ASSUME NEW t \in Threads, Wait(t)
        PROVE  QuietOK'
    BY <1>9 DEF Wait
  <1>10. ASSUME NEW t \in Threads, WakeOther(t)
        PROVE  QuietOK'
    BY <1>10 DEF WakeOther, Return
  <1>11. ASSUME NEW t \in Threads, ReleaseCopy(t)
        PROVE  QuietOK'
    BY <1>11 DEF ReleaseCopy, Return
  <1>12. ASSUME NEW t \in Threads, Pop(t)
        PROVE  QuietOK'
    <2>1. /\ pc[t] = "idle" /\ pc'[t] \in {"idle", "called"} /\ Others(t)
          /\ UNCHANGED <<signaled, signals, snap>>
      BY <1>12 DEF Pop, Others
    <2>2. ASSUME NEW r \in Regs
          PROVE  Carried(r)' <=> Carried(r)
      <3>1. r # None
        OBVIOUS
      <3> HIDE DEF Carried
      <3> QED BY <1>12, <3>1, CarriedPop DEF ShapeOK
    <2> HIDE DEF Carried
    <2> QED BY <2>1, <2>2 DEF Others
  <1>13. ASSUME NEW t \in Threads, Rearm(t)
        PROVE  QuietOK'
    BY <1>13 DEF Rearm, Return
  <1>14. ASSUME NEW t \in Threads, TakeWaits(t)
        PROVE  QuietOK'
    BY <1>14 DEF TakeWaits
  <1>15. ASSUME NEW t \in Threads, EndCancel(t)
        PROVE  QuietOK'
    BY <1>15 DEF EndCancel, Return
  <1>16. ASSUME NEW t \in Threads, CancelWait(t)
        PROVE  QuietOK'
    BY <1>16 DEF CancelWait
  <1> QED BY <1>1, <1>2, <1>3, <1>4, <1>5, <1>6, <1>7, <1>8, <1>9, <1>10, <1>11, <1>12, <1>13,
             <1>14, <1>15, <1>16 DEF Next

LEMMA AppendKept ==
  ASSUME WaitConstants, ShapeOK, OwnersOK, FreshOK, RefsOK, Next
  PROVE  AppendOK'
  <1> USE DEF ShapeOK, SharedOK, LocalsOK, PlacesOK, AtReg, CopyAt, RefsOK, AppendOK, Kept,
         OwnersOK
  <1>1. ASSUME NEW r \in Regs, Signal(r)
        PROVE  AppendOK'
    BY <1>1 DEF Signal
  <1>2. ASSUME NEW t \in Threads, NEW r \in Regs, Register(t, r)
        PROVE  AppendOK'
    BY <1>2 DEF Register
  <1>3. ASSUME NEW t \in Threads, NEW r \in Regs, Unregister(t, r)
        PROVE  AppendOK'
    BY <1>3 DEF Unregister
  <1>4. ASSUME NEW t \in Threads, NEW r \in Regs, Fire(t, r)
        PROVE  AppendOK'
    BY <1>4 DEF Fire
  <1>5. ASSUME NEW t \in Threads, NEW r \in Regs, Wake(t, r)
        PROVE  AppendOK'
    BY <1>5 DEF Wake
  <1>6. ASSUME NEW t \in Threads, NEW c \in Contexts, Cancel(t, c)
        PROVE  AppendOK'
    BY <1>6 DEF Cancel
  <1>7. ASSUME NEW t \in Threads, Add(t)
        PROVE  AppendOK'
    BY <1>7 DEF Add
  <1>8. ASSUME NEW t \in Threads, AddFails(t)
        PROVE  AppendOK'
    <2>1. /\ Others(t) /\ pc[t] \notin {"disarm", "close"} /\ pc'[t] # "append"
          /\ UNCHANGED deleted
      BY <1>8 DEF AddFails, Return, Done, Others
    <2> QED BY <2>1, AppendStay
  <1>9. ASSUME NEW t \in Threads, Token(t)
        PROVE  AppendOK'
    <2>1. /\ Others(t) /\ pc[t] \notin {"disarm", "close"} /\ pc'[t] # "append"
          /\ UNCHANGED deleted
      BY <1>9 DEF Token, Return, Done, Others
    <2> QED BY <2>1, AppendStay
  <1>10. ASSUME NEW t \in Threads, Remove(t)
        PROVE  AppendOK'
    BY <1>10 DEF Remove, Return
  <1>11. ASSUME NEW t \in Threads, Disarm(t)
        PROVE  AppendOK'
    BY <1>11 DEF Disarm
  <1>12. ASSUME NEW t \in Threads, Close(t)
        PROVE  AppendOK'
    BY <1>12 DEF Close, Return, InWaitCallback
  <1>13. ASSUME NEW t \in Threads, TestAndSet(t)
        PROVE  AppendOK'
    BY <1>13 DEF TestAndSet, Return, Done
  <1>14. ASSUME NEW t \in Threads, Push(t)
        PROVE  AppendOK'
    <2>1. /\ Others(t) /\ pc[t] \notin {"disarm", "close"} /\ pc'[t] # "append"
          /\ UNCHANGED deleted
      BY <1>14 DEF Push, Return, Done, Others
    <2> QED BY <2>1, AppendStay
  <1>15. ASSUME NEW t \in Threads, Wait(t)
        PROVE  AppendOK'
    BY <1>15 DEF Wait
  <1>16. ASSUME NEW t \in Threads, WakeOther(t)
        PROVE  AppendOK'
    BY <1>16 DEF WakeOther, Return
  <1>17. ASSUME NEW t \in Threads, ReleaseCopy(t)
        PROVE  AppendOK'
    BY <1>17 DEF ReleaseCopy, Return
  <1>18. ASSUME NEW t \in Threads, Pop(t)
        PROVE  AppendOK'
    <2>1. /\ Others(t) /\ pc[t] \notin {"disarm", "close"} /\ pc'[t] # "append"
          /\ UNCHANGED deleted
      BY <1>18 DEF Pop, Return, Done, Others
    <2> QED BY <2>1, AppendStay
  <1>19. ASSUME NEW t \in Threads, Rearm(t)
        PROVE  AppendOK'
    BY <1>19 DEF Rearm, Return
  <1>20. ASSUME NEW t \in Threads, TakeWaits(t)
        PROVE  AppendOK'
    BY <1>20 DEF TakeWaits
  <1>21. ASSUME NEW t \in Threads, EndCancel(t)
        PROVE  AppendOK'
    BY <1>21 DEF EndCancel, Return
  <1>22. ASSUME NEW t \in Threads, CancelWait(t)
        PROVE  AppendOK'
    BY <1>22 DEF CancelWait
  <1> QED BY <1>1, <1>2, <1>3, <1>4, <1>5, <1>6, <1>7, <1>8, <1>9, <1>10, <1>11, <1>12, <1>13,
             <1>14, <1>15, <1>16, <1>17, <1>18, <1>19, <1>20, <1>21, <1>22 DEF Next

LEMMA CopiesFinite ==
  ASSUME IsFiniteSet(Threads), NEW r
  PROVE  /\ IsFiniteSet(Copies(r)) /\ Cardinality(Copies(r)) \in Nat
         /\ IsFiniteSet(Copies(r)') /\ Cardinality(Copies(r)') \in Nat
  <1>1. Copies(r) \subseteq Threads /\ Copies(r)' \subseteq Threads
    BY DEF Copies
  <1> QED BY <1>1, FS_Subset, FS_CardinalityType

LEMMA RefStay ==
  ASSUME IsFiniteSet(Threads), NEW r \in Regs, RefOK(r), refs'[r] = refs[r], life'[r] = life[r],
         Used(r)' => Used(r), Kept(r)' => Kept(r), Carried(r)' => Carried(r),
         Copies(r)' \subseteq Copies(r)
  PROVE  RefOK(r)'
  <1>1. Cardinality(Copies(r)') <= Cardinality(Copies(r))
    BY CopiesFinite, FS_Subset
  <1>2. Held(r)' <= Held(r) /\ Held(r) \in Int /\ Held(r)' \in Int
    BY <1>1, CopiesFinite DEF Held, One
  <1> QED BY <1>2 DEF RefOK

\* What is used after a step is kept, carried or copied.
LEMMA UsedIsHeld ==
  ASSUME OwnersOK', FreshOK', AppendOK', NEW r \in Regs, Used(r)', ~Fresh(r)'
  PROVE  Kept(r)' \/ Carried(r)' \/ Copies(r)' # {}
  <1>1. CASE r \in waits' \cup armed'
    BY <1>1 DEF OwnersOK, Kept
  <1>2. ASSUME NEW t \in Threads, Owns(t, r)'
        PROVE  Kept(r)'
    BY <1>2 DEF OwnersOK, Owns, Kept, Fresh
  <1>3. ASSUME NEW t \in Threads, pc'[t] = "append", reg'[t] = r
        PROVE  Kept(r)' \/ Copies(r)' # {}
    BY <1>3 DEF AppendOK, Copies
  <1> QED BY <1>1, <1>2, <1>3 DEF Used

\* A reference that is released was there, and the last one deletes a registration that
\* nobody uses.
LEMMA RefFalls ==
  ASSUME IsFiniteSet(Threads), OwnersOK', FreshOK', AppendOK', NEW r \in Regs, RefOK(r),
         life[r] = "live", Held(r)' + 1 <= Held(r), ~Fresh(r)',
         refs'[r] = refs[r] - 1, life'[r] = IF refs[r] = 1 THEN "deleted" ELSE life[r]
  PROVE  RefOK(r)'
  <1>1. /\ Held(r) \in Nat /\ Held(r)' \in Nat
        /\ Held(r)' = One(Kept(r)') + One(Carried(r)') + Cardinality(Copies(r)')
    BY CopiesFinite DEF Held, One
  <1>2. refs[r] \in Nat /\ refs'[r] \in Nat /\ refs'[r] >= Held(r)'
    BY <1>1 DEF RefOK
  <1>3. CASE refs[r] = 1
    <2>1. Held(r)' = 0
      BY <1>1, <1>2, <1>3
    <2>2. ~Kept(r)' /\ ~Carried(r)' /\ Cardinality(Copies(r)') = 0
      BY <1>1, <2>1, CopiesFinite DEF One
    <2>3. Copies(r)' = {}
      BY <2>2, CopiesFinite, FS_EmptySet
    <2>4. Used(r)' => Kept(r)' \/ Carried(r)' \/ Copies(r)' # {}
      BY UsedIsHeld
    <2> QED BY <1>2, <1>3, <2>2, <2>3, <2>4 DEF RefOK
  <1>4. CASE refs[r] # 1
    BY <1>2, <1>4 DEF RefOK
  <1> QED BY <1>3, <1>4

LEMMA NotCarried ==
  ASSUME WaitConstants, EntriesOK, NEW r \in Regs, r \notin appended
  PROVE  ~Carried(r)
  <1>1. r # None
    OBVIOUS
  <1> QED BY <1>1 DEF EntriesOK, Carried

\* The first reference
LEMMA RefRegister ==
  ASSUME WaitConstants, IsFiniteSet(Threads), ShapeOK, EntriesOK, FreshOK, RefsOK,
         NEW t \in Threads, NEW r \in Regs, Register(t, r), NEW q \in Regs
  PROVE  RefOK(q)'
  <1>1. /\ Others(t) /\ pc[t] = "idle" /\ pc'[t] = "add" /\ reg'[t] = r /\ snap' = snap
        /\ UNCHANGED <<deleted, armed, waits, queue>> /\ life[r] = "none"
        /\ life'[r] = "live" /\ refs'[r] = 1
        /\ \A p \in Regs \ {r} : life'[p] = life[p] /\ refs'[p] = refs[p]
    BY DEF Register, Others, ShapeOK, SharedOK, LocalsOK
  <1>2. \A p : Carried(p)' => Carried(p)
    BY <1>1 DEF Carried, Carries, Others
  <1>3. \A p : Copies(p)' \subseteq Copies(p) /\ (Kept(p)' => Kept(p))
    BY <1>1 DEF Copies, Kept, Others
  <1>4. CASE q = r
    <2>1. Fresh(r)
      BY <1>1 DEF Fresh
    <2>2. ~Carried(r) /\ Copies(r) = {}
      BY <2>1, NotCarried DEF FreshOK, Copies
    <2>3. ~Carried(r)' /\ Copies(r)' = {} /\ Cardinality({}) = 0
      BY <1>2, <1>3, <2>2, FS_EmptySet
    <2>4. Held(r)' <= 1
      BY <2>3 DEF Held, One
    <2> QED BY <1>1, <1>4, <2>4 DEF RefOK
  <1>5. CASE q # r
    <2>1. Used(q)' => Used(q)
      BY <1>1, <1>2, <1>3, <1>5 DEF Used, Owns, Others
    <2> QED BY <1>1, <1>2, <1>3, <1>5, <2>1, RefStay DEF RefsOK
  <1> QED BY <1>4, <1>5

\* A registration that found the arrays full was never used.
LEMMA RefAddFails ==
  ASSUME WaitConstants, IsFiniteSet(Threads), ShapeOK, EntriesOK, OwnersOK, FreshOK, RefsOK,
         NEW t \in Threads, AddFails(t), NEW q \in Regs
  PROVE  RefOK(q)'
  <1>0. PICK r \in Regs : r = reg[t]
    BY DEF AddFails, ShapeOK, PlacesOK, AtReg
  <1>1. /\ Others(t) /\ pc[t] = "add" /\ pc'[t] = "idle" /\ snap'[t] = {} /\ r \in Regs
        /\ UNCHANGED <<deleted, armed, waits, queue, refs>> /\ life'[r] = "deleted"
        /\ \A p \in Regs \ {r} : life'[p] = life[p]
    BY <1>0, ReturnLocals DEF AddFails, ShapeOK, SharedOK, PlacesOK, AtReg
  <1>2. \A p : Carried(p)' => Carried(p)
    BY <1>1 DEF Carried, Carries, Others
  <1>3. \A p : Copies(p)' \subseteq Copies(p) /\ (Kept(p)' => Kept(p))
    BY <1>1 DEF Copies, Kept, Others
  <1>4. CASE q = r
    <2>1. Fresh(r) /\ Owns(t, r)
      BY <1>0, <1>1 DEF Fresh, Owns
    <2>2. ~Carried(r) /\ Copies(r) = {} /\ r \notin waits \cup armed
      BY <1>1, <2>1, NotCarried DEF FreshOK, Copies
    <2>3. \A u \in Threads : Owns(u, r) => u = t
      BY <1>1, <2>1 DEF OwnersOK
    <2>4. \A u \in Threads : ~Owns(u, r)' /\ ~(pc'[u] = "append" /\ reg'[u] = r)
      BY <1>1, <2>1, <2>3 DEF Owns, Others, FreshOK, AtReg
    <2>5. ~Used(r)'
      BY <1>1, <1>2, <1>3, <2>2, <2>4 DEF Used
    <2> QED BY <1>1, <1>4, <2>5 DEF RefOK, RefsOK
  <1>5. CASE q # r
    <2>1. Used(q)' => Used(q)
      BY <1>1, <1>2, <1>3, <1>5 DEF Used, Owns, Others
    <2> QED BY <1>1, <1>2, <1>3, <1>5, <2>1, RefStay DEF RefsOK
  <1> QED BY <1>4, <1>5

\* The first reference goes when the pool has no callback of the wait any more.
LEMMA RefClose ==
  ASSUME WaitConstants, IsFiniteSet(Threads), ShapeOK, OwnersOK, FreshOK, RefsOK,
         OwnersOK', FreshOK', AppendOK', NEW t \in Threads, Close(t), NEW q \in Regs
  PROVE  RefOK(q)'
  <1>0. PICK r \in Regs : r = reg[t]
    BY DEF Close, ShapeOK, PlacesOK, AtReg
  <1>1. /\ Others(t) /\ pc[t] = "close" /\ pc'[t] = "idle" /\ snap'[t] = {} /\ r \in Regs
        /\ UNCHANGED <<deleted, armed, waits, queue>>
        /\ refs'[r] = refs[r] - 1 /\ life'[r] = IF refs[r] = 1 THEN "deleted" ELSE life[r]
        /\ \A p \in Regs \ {r} : life'[p] = life[p] /\ refs'[p] = refs[p]
    BY <1>0, ReturnLocals DEF Close, Release, ShapeOK, SharedOK, PlacesOK, AtReg
  <1>2. \A p : Carried(p)' => Carried(p)
    BY <1>1 DEF Carried, Carries, Others
  <1>3. \A p : Copies(p)' \subseteq Copies(p) /\ (Kept(p)' => Kept(p))
    BY <1>1 DEF Copies, Kept, Others
  <1>4. CASE q = r
    <2>1. Owns(t, r) /\ r \in deleted
      BY <1>0, <1>1 DEF Owns, OwnersOK
    <2>2. \A u \in Threads : Owns(u, r) => u = t
      BY <1>1, <2>1 DEF OwnersOK
    <2>3. Kept(r) /\ ~Kept(r)'
      BY <1>0, <1>1, <2>1, <2>2 DEF Kept, Owns, Others
    <2>4. life[r] = "live"
      BY <1>1, <2>1 DEF RefsOK, RefOK, Used
    <2>5. ~Fresh(r)'
      BY <1>1, <2>1, <2>2, <2>4 DEF Fresh, Owns, Others, RefsOK, RefOK
    <2>6. Held(r)' + 1 <= Held(r)
      <3>1. Cardinality(Copies(r)') <= Cardinality(Copies(r))
        BY <1>3, CopiesFinite, FS_Subset
      <3> QED BY <1>2, <2>3, <3>1, CopiesFinite DEF Held, One
    <2> QED BY <1>1, <1>4, <2>4, <2>5, <2>6, RefFalls DEF RefsOK
  <1>5. CASE q # r
    <2>1. Used(q)' => Used(q)
      BY <1>1, <1>2, <1>3, <1>5 DEF Used, Owns, Others
    <2> QED BY <1>1, <1>2, <1>3, <1>5, <2>1, RefStay DEF RefsOK
  <1> QED BY <1>4, <1>5

\* The reference of an entry
LEMMA RefTestAndSet ==
  ASSUME WaitConstants, IsFiniteSet(Threads), ShapeOK, EntriesOK, RefsOK,
         NEW t \in Threads, TestAndSet(t), NEW q \in Regs
  PROVE  RefOK(q)'
  <1>0. PICK r \in Regs : r = reg[t]
    BY DEF TestAndSet, ShapeOK, PlacesOK, AtReg
  <1>1. /\ r \in Regs /\ pc[t] = "append" /\ Others(t)
        /\ UNCHANGED <<life, deleted, armed, waits, queue>>
        /\ snap'[t] = snap[t] \/ snap'[t] = {}
    BY <1>0 DEF TestAndSet, Done, Return, Others, ShapeOK, LocalsOK, PlacesOK, AtReg
  <1>2. Used(r)
    BY <1>0, <1>1 DEF Used
  <1>3. /\ r \in appended => pc'[t] \in {"idle", "release"} /\ refs' = refs
        /\ r \notin appended => /\ pc'[t] = "push" /\ reg'[t] = r
                                /\ refs' = Set(refs, r, refs[r] + 1)
    BY <1>0, <1>1 DEF TestAndSet, Done, Return, ShapeOK, LocalsOK
  <1>4. \A p : Copies(p)' \subseteq Copies(p) /\ (Kept(p)' => Kept(p))
    BY <1>1, <1>3 DEF Copies, Kept, Others
  <1>5. \A p : p # r \/ r \in appended => (Carried(p)' => Carried(p))
    BY <1>0, <1>1, <1>3 DEF Carried, Carries, Others
  <1>6. Used(q)' => Used(q)
    <2>1. CASE q = r
      BY <1>2, <2>1
    <2>2. CASE q # r
      BY <1>0, <1>1, <1>3, <1>4, <1>5, <2>2 DEF Used, Owns, Others
    <2> QED BY <2>1, <2>2
  <1>7. CASE q # r \/ r \in appended
    <2>1. refs'[q] = refs[q] /\ life'[q] = life[q]
      BY <1>1, <1>3, <1>7 DEF ShapeOK, SharedOK
    <2> QED BY <1>4, <1>5, <1>6, <1>7, <2>1, RefStay DEF RefsOK
  <1>8. CASE q = r /\ r \notin appended
    <2>1. ~Carried(r)
      BY <1>1, <1>8, NotCarried
    <2>2. refs'[r] = refs[r] + 1 /\ life'[r] = life[r] /\ life[r] = "live"
      BY <1>1, <1>2, <1>3, <1>8 DEF ShapeOK, SharedOK, RefsOK, RefOK
    <2>3. Cardinality(Copies(r)') <= Cardinality(Copies(r))
      BY <1>4, CopiesFinite, FS_Subset
    <2>4. Held(r)' <= Held(r) + 1 /\ Held(r) \in Int /\ Held(r)' \in Int
      BY <1>4, <2>1, <2>3, CopiesFinite DEF Held, One
    <2> QED BY <1>1, <1>8, <2>2, <2>4 DEF RefsOK, RefOK
  <1> QED BY <1>7, <1>8

\* An entry keeps its reference in the queue and in the hands of who calls it.
LEMMA RefPush ==
  ASSUME IsFiniteSet(Threads), ShapeOK, RefsOK, NEW t \in Threads, Push(t), NEW q \in Regs
  PROVE  RefOK(q)'
  <1>1. /\ Others(t) /\ pc[t] = "push" /\ pc'[t] \in {"idle", "release"}
        /\ UNCHANGED <<life, refs, deleted, armed, waits>>
        /\ snap'[t] = snap[t] \/ snap'[t] = {}
    BY DEF Push, Done, Return, Others, ShapeOK, LocalsOK
  <1>2. Carried(q)' => Carried(q)
    BY CarriedPush
  <1>3. Copies(q)' \subseteq Copies(q) /\ (Kept(q)' => Kept(q))
    BY <1>1 DEF Copies, Kept, Others
  <1>4. Used(q)' => Used(q)
    BY <1>1, <1>2, <1>3 DEF Used, Owns, Others
  <1> QED BY <1>1, <1>2, <1>3, <1>4, RefStay DEF RefsOK

LEMMA RefPop ==
  ASSUME WaitConstants, IsFiniteSet(Threads), ShapeOK, RefsOK, NEW t \in Threads, Pop(t),
         NEW q \in Regs
  PROVE  RefOK(q)'
  <1>1. /\ Others(t) /\ pc[t] = "idle" /\ pc'[t] \in {"idle", "called"}
        /\ UNCHANGED <<life, refs, deleted, armed, waits, snap>>
    BY DEF Pop, Others, ShapeOK, LocalsOK
  <1>2. Carried(q)' => Carried(q)
    <2>1. q # None
      OBVIOUS
    <2> QED BY <2>1, CarriedPop
  <1>3. Copies(q)' \subseteq Copies(q) /\ (Kept(q)' => Kept(q))
    BY <1>1 DEF Copies, Kept, Others
  <1>4. Used(q)' => Used(q)
    BY <1>1, <1>2, <1>3 DEF Used, Owns, Others
  <1> QED BY <1>1, <1>2, <1>3, <1>4, RefStay DEF RefsOK

\* Wait takes a reference on each registration it copies.
LEMMA RefWait ==
  ASSUME IsFiniteSet(Threads), ShapeOK, RefsOK, NEW t \in Threads, Wait(t), NEW q \in Regs
  PROVE  RefOK(q)'
  <1>1. /\ Others(t) /\ pc[t] = "idle" /\ pc'[t] = "waiting" /\ reg' = reg /\ snap'[t] = waits
        /\ UNCHANGED <<life, deleted, armed, waits, queue>>
        /\ refs'[q] = refs[q] + (IF q \in waits THEN 1 ELSE 0)
    BY DEF Wait, Others, ShapeOK, LocalsOK
  <1>2. /\ Carried(q)' => Carried(q)
        /\ Kept(q)' => Kept(q)
    BY <1>1 DEF Carried, Carries, Kept, Others
  <1>3. Copies(q)' = Copies(q) \cup (IF q \in waits THEN {t} ELSE {}) /\ t \notin Copies(q)
    BY <1>1 DEF Copies, Others
  <1>4. Used(q)' => Used(q)
    BY <1>1, <1>2, <1>3 DEF Used, Owns, Others
  <1>5. CASE q \notin waits
    <2>1. refs'[q] = refs[q] + 0 /\ refs[q] \in Int /\ life'[q] = life[q]
      BY <1>1, <1>5 DEF ShapeOK, SharedOK
    <2>2. refs'[q] = refs[q] /\ Copies(q)' \subseteq Copies(q)
      BY <1>3, <1>5, <2>1
    <2> QED BY <1>2, <1>4, <2>1, <2>2, RefStay DEF RefsOK
  <1>6. CASE q \in waits
    <2>1. Cardinality(Copies(q)') = Cardinality(Copies(q)) + 1
      BY <1>3, <1>6, CopiesFinite, FS_AddElement
    <2>2. Held(q)' <= Held(q) + 1 /\ Held(q) \in Int /\ Held(q)' \in Int
      BY <1>2, <2>1, CopiesFinite DEF Held, One
    <2>3. Used(q) /\ RefOK(q)
      BY <1>6 DEF Used, RefsOK
    <2> QED BY <1>1, <1>6, <2>2, <2>3 DEF RefOK
  <1> QED BY <1>5, <1>6

LEMMA RefReleaseCopy ==
  ASSUME IsFiniteSet(Threads), ShapeOK, OwnersOK, FreshOK, RefsOK, OwnersOK', FreshOK', AppendOK',
         NEW t \in Threads, ReleaseCopy(t), NEW q \in Regs
  PROVE  RefOK(q)'
  <1>1. /\ Others(t) /\ pc[t] = "release" /\ pc'[t] = "idle"
        /\ UNCHANGED <<deleted, armed, waits, queue>>
        /\ q \in snap[t] => /\ refs'[q] = refs[q] - 1
                            /\ life'[q] = IF refs[q] = 1 THEN "deleted" ELSE life[q]
        /\ q \notin snap[t] => refs'[q] = refs[q] /\ life'[q] = life[q]
    BY ReturnLocals DEF ReleaseCopy, Release, ShapeOK, SharedOK
  <1>2. /\ Carried(q)' => Carried(q)
        /\ Kept(q)' => Kept(q)
    BY <1>1 DEF Carried, Carries, Kept, Others
  <1>3. Copies(q)' = Copies(q) \ {t} /\ (q \in snap[t] <=> t \in Copies(q))
    BY <1>1 DEF Copies, Others
  <1>4. CASE q \notin snap[t]
    <2>1. Used(q)' => Used(q)
      BY <1>1, <1>2, <1>3 DEF Used, Owns, Others
    <2> QED BY <1>1, <1>2, <1>3, <1>4, <2>1, RefStay DEF RefsOK
  <1>5. CASE q \in snap[t]
    <2>1. life[q] = "live"
      BY <1>3, <1>5 DEF RefsOK, RefOK, Used
    <2>2. ~Fresh(q)'
      <3>1. ~Fresh(q)
        BY <1>5 DEF FreshOK
      <3> QED BY <1>1, <1>5, <2>1, <3>1 DEF Fresh, Others
    <2>3. Cardinality(Copies(q)') = Cardinality(Copies(q)) - 1
      BY <1>3, <1>5, CopiesFinite, FS_RemoveElement
    <2>4. Held(q)' + 1 <= Held(q)
      BY <1>2, <2>3, CopiesFinite DEF Held, One
    <2> QED BY <1>1, <1>5, <2>1, <2>2, <2>4, RefFalls DEF RefsOK
  <1> QED BY <1>4, <1>5

\* The entry's reference goes after its callback was called.
LEMMA RefRearm ==
  ASSUME WaitConstants, IsFiniteSet(Threads), ShapeOK, EntriesOK, OwnersOK, FreshOK, RefsOK,
         OwnersOK', FreshOK', AppendOK', NEW t \in Threads, Rearm(t), NEW q \in Regs
  PROVE  RefOK(q)'
  <1>0. PICK r \in Regs : r = reg[t]
    BY DEF Rearm, ShapeOK, PlacesOK, AtReg
  <1>1. /\ Others(t) /\ pc[t] = "called" /\ pc'[t] = "idle" /\ snap'[t] = {}
        /\ UNCHANGED <<deleted, waits, queue>> /\ armed' \subseteq armed \cup {r}
        /\ refs'[r] = refs[r] - 1 /\ life'[r] = IF refs[r] = 1 THEN "deleted" ELSE life[r]
        /\ \A p \in Regs \ {r} : life'[p] = life[p] /\ refs'[p] = refs[p]
    BY <1>0, ReturnLocals DEF Rearm, Release, ShapeOK, SharedOK
  <1>2. \A p : Carried(p)' => Carried(p)
    BY <1>1 DEF Carried, Carries, Others
  <1>3. \A p : Copies(p)' \subseteq Copies(p) /\ (Kept(p)' => Kept(p))
    BY <1>1 DEF Copies, Kept, Others
  <1>4. CASE q = r
    <2>1. Carries(t, r)
      BY <1>0, <1>1 DEF Carries
    <2>2. Carried(r) /\ ~Carried(r)'
      <3>1. r # None
        OBVIOUS
      <3>2. /\ \A k \in DOMAIN queue : queue[k].registration # r
            /\ \A u \in Threads : Carries(u, r) => u = t
        BY <2>1, <3>1 DEF EntriesOK
      <3>3. \A u \in Threads : ~Carries(u, r)'
        BY <1>1, <3>2 DEF Carries, Others
      <3> QED BY <1>1, <2>1, <3>2, <3>3 DEF Carried
    <2>3. life[r] = "live"
      BY <2>2 DEF RefsOK, RefOK, Used
    <2>4. ~Fresh(r)'
      <3>1. ~Fresh(r)
        BY <1>0, <1>1 DEF FreshOK, AtReg
      <3> QED BY <1>1, <2>3, <3>1 DEF Fresh, Others
    <2>5. Cardinality(Copies(r)') <= Cardinality(Copies(r))
      BY <1>3, CopiesFinite, FS_Subset
    <2>6. Held(r)' + 1 <= Held(r)
      BY <1>3, <2>2, <2>5, CopiesFinite DEF Held, One
    <2> QED BY <1>1, <1>4, <2>3, <2>4, <2>6, RefFalls DEF RefsOK
  <1>5. CASE q # r
    <2>1. Used(q)' => Used(q)
      BY <1>1, <1>2, <1>3, <1>5 DEF Used, Owns, Others
    <2> QED BY <1>1, <1>2, <1>3, <1>5, <2>1, RefStay DEF RefsOK
  <1> QED BY <1>4, <1>5

\* The end of a context deletes a registration whatever its count; by then nobody has it
\* in hand.
LEMMA RefCancelWait ==
  ASSUME WaitConstants, IsFiniteSet(Threads), ShapeOK, OwnersOK, RefsOK, QuietOK,
         NEW t \in Threads, CancelWait(t), NEW q \in Regs
  PROVE  RefOK(q)'
  <1>1. PICK r \in snap[t] :
          /\ armed' = armed \ {r} /\ life' = Set(life, r, "deleted")
          /\ snap' = Set(snap, t, snap[t] \ {r})
    BY DEF CancelWait
  <1>2. UNCHANGED <<refs, deleted, waits, pc, reg>> /\ pc[t] = "cancel" /\ r \in Regs
    BY DEF CancelWait, ShapeOK, LocalsOK
  <1>3. /\ Others(t) /\ snap'[t] = snap[t] \ {r}
        /\ life'[r] = "deleted" /\ \A p \in Regs \ {r} : life'[p] = life[p]
    BY <1>1, <1>2 DEF Others, ShapeOK, SharedOK, LocalsOK
  <1>4. \A p \in Regs : Carried(p)' => Carried(p)
    <2> SUFFICES ASSUME NEW p \in Regs
                 PROVE  Carried(p)' => Carried(p)
      OBVIOUS
    <2>1. p # None
      OBVIOUS
    <2> QED BY <2>1, CarriedCancel
  <1>5. \A p : Copies(p)' \subseteq Copies(p) /\ (Kept(p)' => Kept(p))
    BY <1>2, <1>3 DEF Copies, Kept, Others
  <1>6. CASE q = r
    <2>1. RegContext[r] \in Ended
      BY <1>2 DEF ShapeOK, PlacesOK
    <2>2. ~Carried(r) /\ Copies(r) = {} /\ \A u \in Threads : ~(pc[u] = "append" /\ reg[u] = r)
      BY <1>2, <2>1 DEF QuietOK, Copies
    <2>3. Owns(t, r)
      BY <1>2 DEF Owns
    <2>4. r \notin waits /\ \A u \in Threads : Owns(u, r) => u = t
      BY <1>2, <2>3 DEF OwnersOK
    <2>5. \A u \in Threads : ~Owns(u, r)'
      BY <1>2, <1>3, <2>4 DEF Owns, Others
    <2>6. ~Used(r)'
      BY <1>1, <1>2, <1>4, <1>5, <2>2, <2>4, <2>5 DEF Used
    <2> QED BY <1>2, <1>3, <1>6, <2>6 DEF RefsOK, RefOK
  <1>7. CASE q # r
    <2>1. Used(q)' => Used(q)
      BY <1>1, <1>2, <1>3, <1>4, <1>5, <1>7 DEF Used, Owns, Others
    <2> QED BY <1>2, <1>3, <1>4, <1>5, <1>7, <2>1, RefStay DEF RefsOK
  <1> QED BY <1>6, <1>7

\* The step of a thread that has neither an entry nor a copy in hand, nor is about to.
LEMMA StepStays ==
  ASSUME IsFiniteSet(Threads), RefsOK, NEW t \in Threads, Others(t), UNCHANGED <<life, refs>>,
         \A q \in Regs : Used(q)' => Used(q), \A q \in Regs : Kept(q)' => Kept(q),
         \A q \in Regs : Carried(q)' => Carried(q),
         pc[t] \in {"waiting", "append", "push", "release"}
             \/ pc'[t] \notin {"waiting", "append", "push", "release"} \/ snap'[t] = {},
         snap'[t] \subseteq snap[t] \/ pc'[t] \notin {"waiting", "append", "push", "release"}
  PROVE  \A q \in Regs : RefOK(q)'
  <1>1. \A q \in Regs : Copies(q)' \subseteq Copies(q)
    BY DEF Copies, Others
  <1> QED BY <1>1, RefStay DEF RefsOK

LEMMA RefsKept ==
  ASSUME WaitConstants, IsFiniteSet(Threads), ShapeOK, EntriesOK, OwnersOK, FreshOK, RefsOK,
         QuietOK, OwnersOK', FreshOK', AppendOK', Next
  PROVE  \A q \in Regs : RefOK(q)'
  <1> USE DEF ShapeOK, SharedOK, LocalsOK
  <1>1. ASSUME NEW r \in Regs, Signal(r)
        PROVE  \A q \in Regs : RefOK(q)'
    <2>1. \A q \in Regs : /\ Used(q)' = Used(q) /\ Kept(q)' = Kept(q)
                          /\ Carried(q)' = Carried(q) /\ Copies(q)' = Copies(q)
      BY <1>1 DEF Signal, Used, Kept, Carried, Copies, Carries, Owns
    <2> QED BY <1>1, <2>1, RefStay DEF Signal, RefsOK
  <1>2. ASSUME NEW t \in Threads, NEW r \in Regs, Unregister(t, r)
        PROVE  \A q \in Regs : RefOK(q)'
    <2>1. /\ Others(t) /\ UNCHANGED <<life, refs>>
          /\ \/ pc[t] \in {"waiting", "append", "push", "release"}
             \/ pc'[t] \notin {"waiting", "append", "push", "release"}
             \/ snap'[t] = {}
          /\ snap'[t] \subseteq snap[t] \/ pc'[t] \notin {"waiting", "append", "push", "release"}
      BY <1>2 DEF Unregister, Return, Done, Others, PlacesOK, CopyAt
    <2>2. \A q \in Regs : Carried(q)' => Carried(q)
      BY <1>2 DEF Unregister, Return, Done, Carried, Carries
    <2>3. \A q \in Regs : Kept(q)' => Kept(q)
      BY <1>2 DEF Unregister, Return, Done, Kept, OwnersOK, Owns
    <2>4. \A q \in Regs : Used(q)' => Used(q)
      BY <1>2, <2>2 DEF Unregister, Return, Done, Used, Owns, Copies, PlacesOK, CopyAt, AtReg
    <2> QED BY <2>1, <2>2, <2>3, <2>4, StepStays
  <1>3. ASSUME NEW t \in Threads, NEW r \in Regs, Fire(t, r)
        PROVE  \A q \in Regs : RefOK(q)'
    <2>1. /\ Others(t) /\ UNCHANGED <<life, refs>>
          /\ \/ pc[t] \in {"waiting", "append", "push", "release"}
             \/ pc'[t] \notin {"waiting", "append", "push", "release"}
             \/ snap'[t] = {}
          /\ snap'[t] \subseteq snap[t] \/ pc'[t] \notin {"waiting", "append", "push", "release"}
      BY <1>3 DEF Fire, Return, Done, Others, PlacesOK, CopyAt
    <2>2. \A q \in Regs : Carried(q)' => Carried(q)
      BY <1>3 DEF Fire, Return, Done, Carried, Carries
    <2>3. \A q \in Regs : Kept(q)' => Kept(q)
      BY <1>3 DEF Fire, Return, Done, Kept, OwnersOK, Owns
    <2>4. \A q \in Regs : Used(q)' => Used(q)
      BY <1>3, <2>2 DEF Fire, Return, Done, Used, Owns, Copies, PlacesOK, CopyAt, AtReg
    <2> QED BY <2>1, <2>2, <2>3, <2>4, StepStays
  <1>4. ASSUME NEW t \in Threads, NEW r \in Regs, Wake(t, r)
        PROVE  \A q \in Regs : RefOK(q)'
    <2>1. /\ Others(t) /\ UNCHANGED <<life, refs>>
          /\ \/ pc[t] \in {"waiting", "append", "push", "release"}
             \/ pc'[t] \notin {"waiting", "append", "push", "release"}
             \/ snap'[t] = {}
          /\ snap'[t] \subseteq snap[t] \/ pc'[t] \notin {"waiting", "append", "push", "release"}
      BY <1>4 DEF Wake, Return, Done, Others, PlacesOK, CopyAt
    <2>2. \A q \in Regs : Carried(q)' => Carried(q)
      BY <1>4 DEF Wake, Return, Done, Carried, Carries
    <2>3. \A q \in Regs : Kept(q)' => Kept(q)
      BY <1>4 DEF Wake, Return, Done, Kept, OwnersOK, Owns
    <2>4. \A q \in Regs : Used(q)' => Used(q)
      BY <1>4, <2>2 DEF Wake, Return, Done, Used, Owns, Copies, PlacesOK, CopyAt, AtReg
    <2> QED BY <2>1, <2>2, <2>3, <2>4, StepStays
  <1>5. ASSUME NEW t \in Threads, NEW c \in Contexts, Cancel(t, c)
        PROVE  \A q \in Regs : RefOK(q)'
    <2>1. /\ Others(t) /\ UNCHANGED <<life, refs>>
          /\ \/ pc[t] \in {"waiting", "append", "push", "release"}
             \/ pc'[t] \notin {"waiting", "append", "push", "release"}
             \/ snap'[t] = {}
          /\ snap'[t] \subseteq snap[t] \/ pc'[t] \notin {"waiting", "append", "push", "release"}
      BY <1>5 DEF Cancel, Return, Done, Others, PlacesOK, CopyAt
    <2>2. \A q \in Regs : Carried(q)' => Carried(q)
      BY <1>5 DEF Cancel, Return, Done, Carried, Carries
    <2>3. \A q \in Regs : Kept(q)' => Kept(q)
      BY <1>5 DEF Cancel, Return, Done, Kept, OwnersOK, Owns
    <2>4. \A q \in Regs : Used(q)' => Used(q)
      BY <1>5, <2>2 DEF Cancel, Return, Done, Used, Owns, Copies, PlacesOK, CopyAt, AtReg
    <2> QED BY <2>1, <2>2, <2>3, <2>4, StepStays
  <1>6. ASSUME NEW t \in Threads, Add(t)
        PROVE  \A q \in Regs : RefOK(q)'
    <2>1. /\ Others(t) /\ UNCHANGED <<life, refs>>
          /\ \/ pc[t] \in {"waiting", "append", "push", "release"}
             \/ pc'[t] \notin {"waiting", "append", "push", "release"}
             \/ snap'[t] = {}
          /\ snap'[t] \subseteq snap[t] \/ pc'[t] \notin {"waiting", "append", "push", "release"}
      BY <1>6 DEF Add, Return, Done, Others, PlacesOK, CopyAt
    <2>2. \A q \in Regs : Carried(q)' => Carried(q)
      BY <1>6 DEF Add, Return, Done, Carried, Carries
    <2>3. \A q \in Regs : Kept(q)' => Kept(q)
      BY <1>6 DEF Add, Return, Done, Kept, OwnersOK, Owns
    <2>4. \A q \in Regs : Used(q)' => Used(q)
      BY <1>6, <2>2 DEF Add, Return, Done, Used, Owns, Copies, PlacesOK, CopyAt, AtReg
    <2> QED BY <2>1, <2>2, <2>3, <2>4, StepStays
  <1>7. ASSUME NEW t \in Threads, Token(t)
        PROVE  \A q \in Regs : RefOK(q)'
    <2>1. /\ Others(t) /\ UNCHANGED <<life, refs>>
          /\ \/ pc[t] \in {"waiting", "append", "push", "release"}
             \/ pc'[t] \notin {"waiting", "append", "push", "release"}
             \/ snap'[t] = {}
          /\ snap'[t] \subseteq snap[t] \/ pc'[t] \notin {"waiting", "append", "push", "release"}
      BY <1>7 DEF Token, Return, Done, Others, PlacesOK, CopyAt
    <2>2. \A q \in Regs : Carried(q)' => Carried(q)
      BY <1>7 DEF Token, Return, Done, Carried, Carries
    <2>3. \A q \in Regs : Kept(q)' => Kept(q)
      BY <1>7 DEF Token, Return, Done, Kept, OwnersOK, Owns
    <2>4. \A q \in Regs : Used(q)' => Used(q)
      BY <1>7, <2>2 DEF Token, Return, Done, Used, Owns, Copies, PlacesOK, CopyAt, AtReg
    <2> QED BY <2>1, <2>2, <2>3, <2>4, StepStays
  <1>8. ASSUME NEW t \in Threads, Remove(t)
        PROVE  \A q \in Regs : RefOK(q)'
    <2>1. /\ Others(t) /\ UNCHANGED <<life, refs>>
          /\ \/ pc[t] \in {"waiting", "append", "push", "release"}
             \/ pc'[t] \notin {"waiting", "append", "push", "release"}
             \/ snap'[t] = {}
          /\ snap'[t] \subseteq snap[t] \/ pc'[t] \notin {"waiting", "append", "push", "release"}
      BY <1>8 DEF Remove, Return, Done, Others, PlacesOK, CopyAt
    <2>2. \A q \in Regs : Carried(q)' => Carried(q)
      BY <1>8 DEF Remove, Return, Done, Carried, Carries
    <2>3. \A q \in Regs : Kept(q)' => Kept(q)
      <3>1. CASE reg[t] \in waits
        <4>1. deleted' = deleted \cup {reg[t]} /\ reg' = reg /\ reg[t] \notin deleted
          BY <1>8, <3>1 DEF Remove, OwnersOK, SharedOK
        <4>2. ASSUME NEW q \in Regs, NEW u \in Threads,
                     pc'[u] \in {"disarm", "close"}, reg'[u] = q
              PROVE  Kept(q)
          <5>1. CASE u = t
            BY <4>1, <4>2, <5>1 DEF Kept
          <5>2. CASE u # t
            BY <2>1, <4>2, <5>2 DEF Kept, Others
          <5> QED BY <5>1, <5>2
        <4> QED BY <4>1, <4>2 DEF Kept
      <3>2. CASE reg[t] \notin waits
        <4>1. deleted' = deleted /\ pc'[t] = "idle"
          BY <1>8, <3>2 DEF Remove, Return, LocalsOK
        <4> QED BY <2>1, <4>1 DEF Kept, Others
      <3> QED BY <3>1, <3>2
    <2>4. \A q \in Regs : Used(q)' => Used(q)
      BY <1>8, <2>2 DEF Remove, Return, Done, Used, Owns, Copies, PlacesOK, CopyAt, AtReg
    <2> QED BY <2>1, <2>2, <2>3, <2>4, StepStays
  <1>9. ASSUME NEW t \in Threads, Disarm(t)
        PROVE  \A q \in Regs : RefOK(q)'
    <2>1. /\ Others(t) /\ UNCHANGED <<life, refs>>
          /\ \/ pc[t] \in {"waiting", "append", "push", "release"}
             \/ pc'[t] \notin {"waiting", "append", "push", "release"}
             \/ snap'[t] = {}
          /\ snap'[t] \subseteq snap[t] \/ pc'[t] \notin {"waiting", "append", "push", "release"}
      BY <1>9 DEF Disarm, Return, Done, Others, PlacesOK, CopyAt
    <2>2. \A q \in Regs : Carried(q)' => Carried(q)
      BY <1>9 DEF Disarm, Return, Done, Carried, Carries
    <2>3. \A q \in Regs : Kept(q)' => Kept(q)
      BY <1>9 DEF Disarm, Return, Done, Kept, OwnersOK, Owns
    <2>4. \A q \in Regs : Used(q)' => Used(q)
      BY <1>9, <2>2 DEF Disarm, Return, Done, Used, Owns, Copies, PlacesOK, CopyAt, AtReg
    <2> QED BY <2>1, <2>2, <2>3, <2>4, StepStays
  <1>10. ASSUME NEW t \in Threads, WakeOther(t)
        PROVE  \A q \in Regs : RefOK(q)'
    <2>1. /\ Others(t) /\ UNCHANGED <<life, refs>>
          /\ \/ pc[t] \in {"waiting", "append", "push", "release"}
             \/ pc'[t] \notin {"waiting", "append", "push", "release"}
             \/ snap'[t] = {}
          /\ snap'[t] \subseteq snap[t] \/ pc'[t] \notin {"waiting", "append", "push", "release"}
      BY <1>10 DEF WakeOther, Return, Done, Others, PlacesOK, CopyAt
    <2>2. \A q \in Regs : Carried(q)' => Carried(q)
      BY <1>10 DEF WakeOther, Return, Done, Carried, Carries
    <2>3. \A q \in Regs : Kept(q)' => Kept(q)
      BY <1>10 DEF WakeOther, Return, Done, Kept, OwnersOK, Owns
    <2>4. \A q \in Regs : Used(q)' => Used(q)
      BY <1>10, <2>2 DEF WakeOther, Return, Done, Used, Owns, Copies, PlacesOK, CopyAt, AtReg
    <2> QED BY <2>1, <2>2, <2>3, <2>4, StepStays
  <1>11. ASSUME NEW t \in Threads, TakeWaits(t)
        PROVE  \A q \in Regs : RefOK(q)'
    <2>1. /\ Others(t) /\ UNCHANGED <<life, refs>>
          /\ \/ pc[t] \in {"waiting", "append", "push", "release"}
             \/ pc'[t] \notin {"waiting", "append", "push", "release"}
             \/ snap'[t] = {}
          /\ snap'[t] \subseteq snap[t] \/ pc'[t] \notin {"waiting", "append", "push", "release"}
      BY <1>11 DEF TakeWaits, Return, Done, Others, PlacesOK, CopyAt
    <2>2. \A q \in Regs : Carried(q)' => Carried(q)
      BY <1>11 DEF TakeWaits, Return, Done, Carried, Carries
    <2>3. \A q \in Regs : Kept(q)' => Kept(q)
      BY <1>11 DEF TakeWaits, Return, Done, Kept, OwnersOK, Owns
    <2>4. \A q \in Regs : Used(q)' => Used(q)
      BY <1>11, <2>2 DEF TakeWaits, Return, Done, Used, Owns, Copies, PlacesOK, CopyAt, AtReg
    <2> QED BY <2>1, <2>2, <2>3, <2>4, StepStays
  <1>12. ASSUME NEW t \in Threads, EndCancel(t)
        PROVE  \A q \in Regs : RefOK(q)'
    <2>1. /\ Others(t) /\ UNCHANGED <<life, refs>>
          /\ \/ pc[t] \in {"waiting", "append", "push", "release"}
             \/ pc'[t] \notin {"waiting", "append", "push", "release"}
             \/ snap'[t] = {}
          /\ snap'[t] \subseteq snap[t] \/ pc'[t] \notin {"waiting", "append", "push", "release"}
      BY <1>12 DEF EndCancel, Return, Done, Others, PlacesOK, CopyAt
    <2>2. \A q \in Regs : Carried(q)' => Carried(q)
      BY <1>12 DEF EndCancel, Return, Done, Carried, Carries
    <2>3. \A q \in Regs : Kept(q)' => Kept(q)
      BY <1>12 DEF EndCancel, Return, Done, Kept, OwnersOK, Owns
    <2>4. \A q \in Regs : Used(q)' => Used(q)
      BY <1>12, <2>2 DEF EndCancel, Return, Done, Used, Owns, Copies, PlacesOK, CopyAt, AtReg
    <2> QED BY <2>1, <2>2, <2>3, <2>4, StepStays
  <1>13. ASSUME NEW t \in Threads, NEW r \in Regs, Register(t, r)
        PROVE  \A q \in Regs : RefOK(q)'
    BY <1>13, RefRegister
  <1>14. ASSUME NEW t \in Threads, AddFails(t)
        PROVE  \A q \in Regs : RefOK(q)'
    BY <1>14, RefAddFails
  <1>15. ASSUME NEW t \in Threads, Close(t)
        PROVE  \A q \in Regs : RefOK(q)'
    BY <1>15, RefClose
  <1>16. ASSUME NEW t \in Threads, TestAndSet(t)
        PROVE  \A q \in Regs : RefOK(q)'
    BY <1>16, RefTestAndSet
  <1>17. ASSUME NEW t \in Threads, Push(t)
        PROVE  \A q \in Regs : RefOK(q)'
    BY <1>17, RefPush
  <1>18. ASSUME NEW t \in Threads, Wait(t)
        PROVE  \A q \in Regs : RefOK(q)'
    BY <1>18, RefWait
  <1>19. ASSUME NEW t \in Threads, ReleaseCopy(t)
        PROVE  \A q \in Regs : RefOK(q)'
    BY <1>19, RefReleaseCopy
  <1>20. ASSUME NEW t \in Threads, Pop(t)
        PROVE  \A q \in Regs : RefOK(q)'
    BY <1>20, RefPop
  <1>21. ASSUME NEW t \in Threads, Rearm(t)
        PROVE  \A q \in Regs : RefOK(q)'
    BY <1>21, RefRearm
  <1>22. ASSUME NEW t \in Threads, CancelWait(t)
        PROVE  \A q \in Regs : RefOK(q)'
    BY <1>22, RefCancelWait
  <1> QED BY <1>1, <1>2, <1>3, <1>4, <1>5, <1>6, <1>7, <1>8, <1>9, <1>10, <1>11, <1>12, <1>13,
             <1>14, <1>15, <1>16, <1>17, <1>18, <1>19, <1>20, <1>21, <1>22 DEF Next

-----------------------------------------------------------------------------
(* The theorems *)

WaitInv == ShapeOK /\ EntriesOK /\ OwnersOK /\ FreshOK /\ HearsOK

LEMMA InitInv ==
  ASSUME WaitConstants, Init
  PROVE  WaitInv
  <1>1. ShapeOK
    BY DEF Init, ShapeOK, SharedOK, QueueOK, LocalsOK, PlacesOK, Labels, AtReg, CopyAt
  <1>2. queue = <<>> /\ DOMAIN queue = {}
    BY DEF Init
  <1>3. EntriesOK
    BY <1>2 DEF Init, EntriesOK, Carries
  <1>4. OwnersOK
    BY DEF Init, OwnersOK, Owns
  <1>5. FreshOK
    BY DEF Init, FreshOK, Fresh, AtReg
  <1>6. HearsOK
    BY DEF Init, HearsOK
  <1> QED BY <1>1, <1>3, <1>4, <1>5, <1>6 DEF WaitInv

LEMMA StutterInv ==
  ASSUME WaitInv, UNCHANGED vars
  PROVE  WaitInv'
  BY DEF vars, WaitInv, ShapeOK, SharedOK, QueueOK, LocalsOK, PlacesOK, EntriesOK, Carries,
         OwnersOK, Owns, FreshOK, Fresh, HearsOK, Waited, InWaitCallback

LEMMA WaitInvariant ==
  ASSUME WaitConstants
  PROVE  Spec => []WaitInv
  <1>1. Init => WaitInv
    BY InitInv
  <1>2. WaitInv /\ [Next]_vars => WaitInv'
    <2>1. ASSUME WaitInv, Next
          PROVE  WaitInv'
      BY <2>1, SharedKept, QueueKept, LocalsKept, PlacesKept, EntriesKept, OwnersKept, FreshKept,
         HearsKept
      DEF WaitInv, ShapeOK
    <2> QED BY <2>1, StutterInv
  <1> QED BY <1>1, <1>2, PTL DEF Spec

\* What a registration hears of: while it is registered, a signal of its handle will have
\* its callback queued (AppendWaitRegistrationEntry, and its rearming in DrainOneItem), for
\* any number of registrations, contexts, pool threads, dispatchers and waiters, and
\* whatever is terminated.
THEOREM NeverDeaf ==
  ASSUME WaitConstants
  PROVE  Spec => []RegistrationHears
  <1>1. WaitInv => RegistrationHears
    <2> SUFFICES ASSUME WaitInv, NEW r \in waits
                 PROVE  \/ r \in armed /\ r \notin appended
                        \/ r \notin appended /\ InWaitCallback(r)
                        \/ Outstanding(r)
      BY DEF RegistrationHears
    <2>1. Waited(r) => Outstanding(r)
      BY DEF Waited, Outstanding, Entries, Range, Carries
    <2> QED BY <2>1 DEF WaitInv, HearsOK
  <1> QED BY <1>1, WaitInvariant, PTL

\* A registration has one entry at a time, in the queue or in somebody's hands (the flag
\* "appended" of AppendWaitRegistrationEntry), whatever else happens to it.
THEOREM OneEntry ==
  ASSUME WaitConstants
  PROVE  Spec => []OneEntryPerRegistration
  <1>1. WaitInv => OneEntryPerRegistration
    <2> SUFFICES ASSUME WaitInv, NEW r \in Regs
                 PROVE  Cardinality({k \in DOMAIN queue : queue[k].of = r})
                          + Cardinality({t \in Threads : pc[t] \in {"push", "called"} /\ reg[t]
                                 = r})
                          <= 1
      BY DEF OneEntryPerRegistration
    <2> DEFINE K == {k \in DOMAIN queue : queue[k].of = r}
               T == {t \in Threads : pc[t] \in {"push", "called"} /\ reg[t] = r}
    <2>1. /\ \A j, k \in K : j = k
          /\ \A t, u \in T : t = u
          /\ K = {} \/ T = {}
      BY DEF WaitInv, EntriesOK, Carries
    <2> HIDE DEF K, T
    <2>2. ASSUME NEW S, \A x, y \in S : x = y
          PROVE  Cardinality(S) \in {0, 1} /\ (S = {} => Cardinality(S) = 0)
      <3>1. CASE S = {}
        BY <3>1, FS_EmptySet
      <3>2. CASE S # {}
        <4>1. PICK x \in S : S = {x}
          BY <2>2, <3>2
        <4> QED BY <3>2, <4>1, FS_Singleton
      <3> QED BY <3>1, <3>2
    <2>3. Cardinality(K) + Cardinality(T) <= 1
      BY <2>1, <2>2
    <2> QED BY <2>3 DEF K, T
  <1> QED BY <1>1, WaitInvariant, PTL

CountInv == RefsOK /\ QuietOK

LEMMA CountInvariant ==
  ASSUME WaitConstants, EndsApart, IsFiniteSet(Threads)
  PROVE  Spec => []CountInv
  <1>1. Init => CountInv
    <2> SUFFICES ASSUME Init
                 PROVE  CountInv
      OBVIOUS
    <2>1. \A r : ~Carried(r) /\ Copies(r) = {}
      BY DEF Init, Carried, Carries, Copies
    <2>2. QuietOK
      BY <2>1 DEF Init, QuietOK, EndsApart
    <2>3. \A r \in Regs : ~Used(r)
      BY <2>1 DEF Init, Used, Owns
    <2>4. RefsOK
      BY <2>3 DEF Init, RefsOK, RefOK, AppendOK
    <2> QED BY <2>2, <2>4 DEF CountInv
  <1>2. WaitInv /\ WaitInv' /\ CountInv /\ [Next]_vars => CountInv'
    <2>1. ASSUME WaitInv, WaitInv', CountInv, Next
          PROVE  CountInv'
      <3>1. QuietOK'
        BY <2>1, QuietKept DEF WaitInv, CountInv
      <3>2. AppendOK'
        BY <2>1, AppendKept DEF WaitInv, CountInv
      <3>3. \A q \in Regs : RefOK(q)'
        BY <2>1, <3>2, RefsKept DEF WaitInv, CountInv
      <3> QED BY <3>1, <3>2, <3>3 DEF CountInv, RefsOK
    <2>2. ASSUME CountInv, UNCHANGED vars
          PROVE  CountInv'
      <3>1. \A q \in Regs : /\ Used(q)' => Used(q)
                            /\ Kept(q)' => Kept(q)
                            /\ Carried(q)' => Carried(q)
                            /\ Copies(q)' \subseteq Copies(q)
        BY <2>2 DEF vars, Used, Kept, Carried, Carries, Copies, Owns
      <3>2. QuietOK' /\ AppendOK'
        BY <2>2 DEF vars, CountInv, QuietOK, RefsOK, AppendOK, Kept, Carried, Carries
      <3>3. \A q \in Regs : RefOK(q) /\ refs'[q] = refs[q] /\ life'[q] = life[q]
        BY <2>2 DEF vars, CountInv, RefsOK
      <3>4. \A q \in Regs : RefOK(q)'
        BY <3>1, <3>3, RefStay
      <3> QED BY <3>2, <3>4 DEF CountInv, RefsOK
    <2> QED BY <2>1, <2>2
  <1> QED BY <1>1, <1>2, WaitInvariant, PTL DEF Spec

\* No registration is deleted while someone still follows a pointer to it
\* (ReleaseWaitRegistration, and the wait for the pool's callbacks in
\* CloseWaitRegistration), unless a context ends while its registrations are signaled or a
\* thread waits.
THEOREM RegistrationsAreLive ==
  ASSUME WaitConstants, EndsApart, IsFiniteSet(Threads)
  PROVE  Spec => []LiveRegistrations
  <1>1. WaitInv /\ CountInv => LiveRegistrations
    <2> SUFFICES ASSUME WaitInv, CountInv, NEW r \in Regs, r \in Followed
                 PROVE  life[r] = "live"
      BY DEF LiveRegistrations
    <2>1. Used(r)
      <3>1. CASE r \in {e.registration : e \in Entries}
        BY <3>1 DEF Entries, Range, Used, Carried
      <3>2. ASSUME NEW t \in Threads, pc[t] \in Following, reg[t] = r
            PROVE  Used(r)
        BY <3>2 DEF Following, Used, Owns, Carried, Carries
      <3>3. ASSUME NEW t \in Threads, pc[t] # "waiting", r \in snap[t]
            PROVE  Used(r)
        BY <3>3 DEF WaitInv, ShapeOK, PlacesOK, CopyAt, Used, Owns, Copies
      <3> QED BY <3>1, <3>2, <3>3 DEF Followed
    <2> QED BY <2>1 DEF CountInv, RefsOK, RefOK
  <1> QED BY <1>1, WaitInvariant, CountInvariant, PTL

\* The state of wait registrations keeps its types; no count falls below zero.
THEOREM TypeCorrect ==
  ASSUME WaitConstants, EndsApart, IsFiniteSet(Threads)
  PROVE  Spec => []TypeOK
  <1>1. WaitInv /\ CountInv => TypeOK
    BY DEF WaitInv, ShapeOK, SharedOK, QueueOK, LocalsOK, CountInv, RefsOK, RefOK, TypeOK
  <1> QED BY <1>1, WaitInvariant, CountInvariant, PTL

=============================================================================
