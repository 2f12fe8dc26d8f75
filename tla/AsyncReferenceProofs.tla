-------------------------- MODULE AsyncReferenceProofs --------------------------
(***************************************************************************)
(* The reference count of an AsyncState is the number of its holders, a    *)
(* call is signaled once, and the suspends of the queue are those of the   *)
(* calls that were not signaled yet, for any number of calls and threads.  *)
(* A termination is called back after the calls that were begun, whose     *)
(* completion callbacks are accepted, unless a thread that resumed the     *)
(* queue collects what is parked after another call has begun.             *)
(*                                                                         *)
(* First what these proofs and those of AsyncCleanupProofs are built from: *)
(* counting the frames of the threads that work for a call, how a step     *)
(* changes those counts, and the control and the types of the state.       *)
(***************************************************************************)
EXTENDS AsyncCall, FiniteSetTheorems, FunctionTheorems, SequenceTheorems, TLAPS

-----------------------------------------------------------------------------
(* Counting.  The frames of a thread are the place it is at and those its  *)
(* functions return to.  Depths are counted from the bottom of the stack,  *)
(* so that entering and leaving a function leaves the frames below alone.  *)

Hit(p, S) == IF p \in S THEN 1 ELSE 0

\* The depths of a sequence of frames that hold one of S
Depths(S, f) == {d \in 1 .. Len(f) : f[Len(f) + 1 - d] \in S}

Weight(S, f) == Cardinality(Depths(S, f))

FramesOf(t) == <<pc[t]>> \o stack[t]

\* The frames of the threads that work for a call, as far as they are in S
Slots(t, S, f) == {t} \X Depths(S, f)

Block(S, a, t) == IF call[t] = a THEN Slots(t, S, FramesOf(t)) ELSE {}

Frames(S, a) == UNION {Block(S, a, t) : t \in Threads}

Number(S, a) == Cardinality(Frames(S, a))

Spots(a, q) == {n \in DOMAIN q : q[n] = a}

\* How often a call's callback is queued at a port
Queued(a, p) == Cardinality(Spots(a, queue[p]))

\* The weight of a stack is a natural number, and a frame adds its own.
LEMMA WeightPush ==
  ASSUME NEW S, NEW b \in Labels, NEW s \in Seq(Labels)
  PROVE  /\ IsFiniteSet(Depths(S, s)) /\ Weight(S, s) \in Nat
         /\ IsFiniteSet(Depths(S, <<b>> \o s))
         /\ Weight(S, <<b>> \o s) = Weight(S, s) + Hit(b, S)
  <1>1. /\ Len(s) \in Nat /\ Len(<<b>> \o s) = Len(s) + 1
        /\ \A n \in 1 .. Len(s) + 1 : (<<b>> \o s)[n] = IF n = 1 THEN b ELSE s[n - 1]
    <2>1. <<b>> \in Seq(Labels) /\ Len(<<b>>) = 1 /\ <<b>>[1] = b
      OBVIOUS
    <2>2. /\ Len(<<b>> \o s) = Len(<<b>>) + Len(s)
          /\ \A n \in 1 .. Len(<<b>>) + Len(s) :
                (<<b>> \o s)[n] = IF n <= Len(<<b>>) THEN <<b>>[n] ELSE s[n - Len(<<b>>)]
      BY <2>1, ConcatProperties
    <2>3. Len(s) \in Nat
      OBVIOUS
    <2> QED BY <2>1, <2>2, <2>3
  <1>2. IsFiniteSet(Depths(S, s)) /\ Weight(S, s) \in Nat
    <2>1. IsFiniteSet(1 .. Len(s))
      BY <1>1, FS_Interval
    <2>2. IsFiniteSet(Depths(S, s))
      BY <2>1, FS_Subset DEF Depths
    <2> QED BY <2>2, FS_CardinalityType DEF Weight
  <1>3. Len(s) + 1 \notin Depths(S, s)
    BY <1>1 DEF Depths
  <1>4. Depths(S, <<b>> \o s) =
            IF b \in S THEN Depths(S, s) \cup {Len(s) + 1} ELSE Depths(S, s)
    <2>1. ASSUME NEW d \in 1 .. Len(s)
          PROVE  (<<b>> \o s)[Len(<<b>> \o s) + 1 - d] = s[Len(s) + 1 - d]
      BY <1>1
    <2>2. (<<b>> \o s)[Len(<<b>> \o s) + 1 - (Len(s) + 1)] = b
      BY <1>1
    <2>3. 1 .. Len(<<b>> \o s) = (1 .. Len(s)) \cup {Len(s) + 1}
      BY <1>1
    <2> QED BY <2>1, <2>2, <2>3, <1>1 DEF Depths
  <1>5. /\ IsFiniteSet(Depths(S, s) \cup {Len(s) + 1})
        /\ Cardinality(Depths(S, s) \cup {Len(s) + 1}) = Cardinality(Depths(S, s)) + 1
    BY <1>2, <1>3, FS_AddElement
  <1>6. CASE b \in S
    BY <1>2, <1>4, <1>5, <1>6 DEF Weight, Hit
  <1>7. CASE b \notin S
    BY <1>2, <1>4, <1>7 DEF Weight, Hit
  <1> QED BY <1>6, <1>7

LEMMA WeightEmpty ==
  ASSUME NEW S
  PROVE  Weight(S, <<>>) = 0
  <1>1. Depths(S, <<>>) = {}
    BY DEF Depths
  <1> QED BY <1>1, FS_EmptySet DEF Weight

\* A sequence is its head and its tail.
LEMMA Unfold ==
  ASSUME NEW s \in Seq(Labels), s # <<>>
  PROVE  /\ Head(s) \in Labels /\ Tail(s) \in Seq(Labels) /\ s = <<Head(s)>> \o Tail(s)
  <1>1. /\ Head(s) \in Labels /\ Head(s) = s[1]
        /\ Tail(s) \in Seq(Labels) /\ Len(Tail(s)) = Len(s) - 1 /\ Len(s) \in Nat \ {0}
        /\ \A n \in 1 .. Len(Tail(s)) : Tail(s)[n] = s[n + 1]
    OBVIOUS
  <1> DEFINE h == <<Head(s)>>
  <1>2. h \in Seq(Labels) /\ Len(h) = 1 /\ h[1] = s[1]
    BY <1>1
  <1> HIDE DEF h
  <1>3. /\ h \o Tail(s) \in Seq(Labels)
        /\ Len(h \o Tail(s)) = Len(h) + Len(Tail(s))
        /\ \A n \in 1 .. Len(h) + Len(Tail(s)) :
              (h \o Tail(s))[n] = IF n <= Len(h) THEN h[n] ELSE Tail(s)[n - Len(h)]
    BY <1>1, <1>2, ConcatProperties
  <1>4. Len(h \o Tail(s)) = Len(s)
    BY <1>1, <1>2, <1>3
  <1>5. \A n \in 1 .. Len(s) : (h \o Tail(s))[n] = s[n]
    BY <1>1, <1>2, <1>3
  <1>6. s = h \o Tail(s)
    BY <1>3, <1>4, <1>5, SeqEqual
  <1> QED BY <1>1, <1>6 DEF h

-----------------------------------------------------------------------------
(* Control.  What is on a stack was pushed there, and only its bottom is a *)
(* place where a thread is in no function at all.                          *)

Bottom == {"idle", "verify", "begun", "waited", "done"}

Pushed == {"idle", "begun", "waited", "done", "beginning", "worked", "release",
           "settle", "revert", "aborting", "after", "satisfy"}

WellNested(p, s) ==
    /\ p \in Labels /\ s \in Seq(Pushed)
    /\ p \in Bottom <=> s = <<>>
    /\ \A n \in 1 .. Len(s) : s[n] \in Bottom <=> n = Len(s)

Args == {"ok", "data", "fail", "abort", "pending"}

\* A thread that is in a function works for a call, a client for its own, and
\* XAsyncComplete is never called with E_PENDING.
ControlOK ==
    /\ pc \in [Threads -> Labels] /\ stack \in [Threads -> Seq(Labels)]
    /\ call \in [Threads -> Calls \cup {None}] /\ arg \in [Threads -> Args]
    /\ \A t \in Threads : WellNested(pc[t], stack[t])
    /\ \A t \in Threads : pc[t] # "idle" => call[t] \in Calls
    /\ \A t \in Threads : pc[t] = "complete" => arg[t] # "pending"
    /\ \A a \in Calls : call[a] = a

LEMMA NestedPush ==
  ASSUME NEW p, NEW s, WellNested(p, s), NEW b \in Pushed, b \in Bottom <=> p \in Bottom,
         NEW q \in Labels \ Bottom
  PROVE  WellNested(q, <<b>> \o s)
  <1>1. s \in Seq(Pushed) /\ <<b>> \in Seq(Pushed) /\ Len(<<b>>) = 1 /\ <<b>>[1] = b
    BY DEF WellNested
  <1>2. /\ <<b>> \o s \in Seq(Pushed)
        /\ Len(<<b>> \o s) = Len(<<b>>) + Len(s)
        /\ \A n \in 1 .. Len(<<b>>) + Len(s) :
              (<<b>> \o s)[n] = IF n <= Len(<<b>>) THEN <<b>>[n] ELSE s[n - Len(<<b>>)]
    BY <1>1, ConcatProperties
  <1>3. Len(s) \in Nat /\ (Len(s) = 0 <=> s = <<>>)
    BY <1>1
  <1>4. Len(<<b>> \o s) = Len(s) + 1 /\ <<b>> \o s # <<>>
    BY <1>1, <1>2, <1>3
  <1>5. ASSUME NEW n \in 1 .. Len(s) + 1
        PROVE  (<<b>> \o s)[n] \in Bottom <=> n = Len(s) + 1
    <2>1. CASE n = 1
      BY <1>1, <1>2, <1>3, <2>1 DEF WellNested
    <2>2. CASE n # 1
      <3>1. n - 1 \in 1 .. Len(s) /\ (<<b>> \o s)[n] = s[n - 1]
        BY <1>1, <1>2, <1>3, <2>2
      <3> QED BY <3>1, <1>3 DEF WellNested
    <2> QED BY <2>1, <2>2
  <1> QED BY <1>2, <1>4, <1>5 DEF WellNested

LEMMA NestedPop ==
  ASSUME NEW p, NEW s, WellNested(p, s), p \notin Bottom
  PROVE  /\ s # <<>> /\ s \in Seq(Labels)
         /\ Head(s) \in Pushed /\ WellNested(Head(s), Tail(s))
  <1>1. s \in Seq(Pushed) /\ s # <<>>
    BY DEF WellNested
  <1>2. Pushed \subseteq Labels
    BY DEF Pushed, Labels
  <1> DEFINE h == Head(s)
             r == Tail(s)
  <1>3. /\ h \in Pushed /\ h = s[1] /\ r \in Seq(Pushed)
        /\ Len(r) = Len(s) - 1 /\ Len(s) \in Nat \ {0}
        /\ \A n \in 1 .. Len(r) : r[n] = s[n + 1]
    BY <1>1
  <1>4. \A n \in 1 .. Len(s) : s[n] \in Bottom <=> n = Len(s)
    BY DEF WellNested
  <1> HIDE DEF h, r
  <1>5. r = <<>> <=> Len(r) = 0
    BY <1>3
  <1>6. h \in Bottom <=> r = <<>>
    BY <1>3, <1>4, <1>5
  <1>7. ASSUME NEW n \in 1 .. Len(r)
        PROVE  r[n] \in Bottom <=> n = Len(r)
    <2>1. n + 1 \in 1 .. Len(s) /\ r[n] = s[n + 1]
      BY <1>3
    <2>2. s[n + 1] \in Bottom <=> n + 1 = Len(s)
      BY <1>4, <2>1
    <2> QED BY <1>3, <2>1, <2>2
  <1>8. s \in Seq(Labels)
    BY <1>1, <1>2, SeqMonotonic
  <1>9. h \in Labels /\ WellNested(h, r)
    BY <1>2, <1>3, <1>6, <1>7 DEF WellNested
  <1> QED BY <1>1, <1>3, <1>8, <1>9 DEF h, r

LEMMA NestedStack ==
  ASSUME NEW p, NEW s, WellNested(p, s)
  PROVE  s \in Seq(Labels)
  <1>1. Pushed \subseteq Labels /\ s \in Seq(Pushed)
    BY DEF Pushed, Labels, WellNested
  <1> QED BY <1>1, SeqMonotonic

-----------------------------------------------------------------------------
(* A step of one thread changes the frames of that thread only.            *)

Alone(t) ==
    \A u \in Threads \ {t} :
        pc'[u] = pc[u] /\ stack'[u] = stack[u] /\ call'[u] = call[u] /\ arg'[u] = arg[u]

\* The size of a family of sets that is finite in every place
LEMMA SplitUnion ==
  ASSUME NEW t \in Threads, NEW M, \A u \in Threads : IsFiniteSet(M[u]),
         \A u, v \in Threads : u # v => M[u] \cap M[v] = {}
  PROVE  LET rest == UNION {M[u] : u \in Threads \ {t}}
         IN  /\ IsFiniteSet(rest)
             /\ IsFiniteSet(UNION {M[u] : u \in Threads})
             /\ Cardinality(UNION {M[u] : u \in Threads}) =
                    Cardinality(rest) + Cardinality(M[t])
             /\ Cardinality(rest) \in Nat /\ Cardinality(M[t]) \in Nat
  <1> DEFINE others == Threads \ {t}
             rest == UNION {M[u] : u \in others}
  <1>1. IsFiniteSet(others)
    BY CallAssumption, FS_Difference
  <1>2. IsFiniteSet({M[u] : u \in others})
    <2> DEFINE T == {M[u] : u \in others}
               f == [u \in others |-> M[u]]
    <2>1. f \in Surjection(others, T)
      BY DEF Surjection
    <2> HIDE DEF T, f, others
    <2>2. IsFiniteSet(T)
      BY <2>1, <1>1, FS_Surjection
    <2> QED BY <2>2 DEF T
  <1>3. IsFiniteSet(rest)
    BY <1>2, FS_UNION
  <1>4. UNION {M[u] : u \in Threads} = rest \cup M[t]
    OBVIOUS
  <1>5. rest \cap M[t] = {}
    OBVIOUS
  <1>6. IsFiniteSet(M[t])
    OBVIOUS
  <1> HIDE DEF rest
  <1>7. /\ IsFiniteSet(rest \cup M[t])
        /\ Cardinality(rest \cup M[t]) =
              Cardinality(rest) + Cardinality(M[t]) - Cardinality(rest \cap M[t])
    BY <1>3, <1>6, FS_Union
  <1>8. /\ Cardinality(rest \cap M[t]) = 0
        /\ Cardinality(rest) \in Nat /\ Cardinality(M[t]) \in Nat
    BY <1>3, <1>5, <1>6, FS_EmptySet, FS_CardinalityType
  <1>9. Cardinality(rest \cup M[t]) = Cardinality(rest) + Cardinality(M[t])
    BY <1>7, <1>8
  <1> QED BY <1>3, <1>4, <1>7, <1>8, <1>9 DEF rest

Mine(S, a, t) == IF call[t] = a THEN Weight(S, stack[t]) + Hit(pc[t], S) ELSE 0

\* The weight of what one thread does for a call
LEMMA BlockSize ==
  ASSUME NEW t, NEW S, NEW p \in Labels, NEW s \in Seq(Labels)
  PROVE  /\ IsFiniteSet(Slots(t, S, <<p>> \o s))
         /\ Cardinality(Slots(t, S, <<p>> \o s)) = Weight(S, s) + Hit(p, S)
  <1>1. IsFiniteSet({t}) /\ Cardinality({t}) = 1
    BY FS_Singleton
  <1>2. /\ IsFiniteSet(Depths(S, <<p>> \o s)) /\ Weight(S, s) \in Nat
        /\ Weight(S, <<p>> \o s) = Weight(S, s) + Hit(p, S)
    BY WeightPush
  <1>3. /\ IsFiniteSet(Slots(t, S, <<p>> \o s))
        /\ Cardinality(Slots(t, S, <<p>> \o s)) =
              Cardinality({t}) * Cardinality(Depths(S, <<p>> \o s))
    BY <1>1, <1>2, FS_Product DEF Slots
  <1>4. Hit(p, S) \in {0, 1}
    BY DEF Hit
  <1>5. Cardinality(Depths(S, <<p>> \o s)) = Weight(S, s) + Hit(p, S)
    BY <1>2 DEF Weight
  <1> QED BY <1>1, <1>2, <1>3, <1>4, <1>5

LEMMA BlockCount ==
  ASSUME ControlOK, NEW S, NEW a, NEW t \in Threads
  PROVE  IsFiniteSet(Block(S, a, t)) /\ Cardinality(Block(S, a, t)) = Mine(S, a, t)
  <1>1. pc[t] \in Labels /\ stack[t] \in Seq(Labels)
    BY DEF ControlOK
  <1>2. CASE call[t] = a
    <2> DEFINE p == pc[t]
               s == stack[t]
    <2>1. p \in Labels /\ s \in Seq(Labels)
      BY <1>1
    <2>2. Block(S, a, t) = Slots(t, S, <<p>> \o s)
      BY <1>2 DEF Block, FramesOf
    <2>3. Mine(S, a, t) = Weight(S, s) + Hit(p, S)
      BY <1>2 DEF Mine
    <2> HIDE DEF p, s
    <2> QED BY <2>1, <2>2, <2>3, BlockSize
  <1>3. CASE call[t] # a
    BY <1>3, FS_EmptySet DEF Block, Mine
  <1> QED BY <1>2, <1>3

LEMMA FrameStep ==
  ASSUME ControlOK, ControlOK', NEW t \in Threads, Alone(t), NEW S, NEW a
  PROVE  /\ Number(S, a) \in Nat /\ Number(S, a)' \in Nat
         /\ Number(S, a)' = Number(S, a) + Mine(S, a, t)' - Mine(S, a, t)
  <1> DEFINE M == [u \in Threads |-> Block(S, a, u)]
             rest == UNION {M[u] : u \in Threads \ {t}}
             N == [u \in Threads |-> Block(S, a, u)']
             left == UNION {N[u] : u \in Threads \ {t}}
  <1>1. /\ \A u \in Threads : IsFiniteSet(M[u])
        /\ M[t] = Block(S, a, t) /\ Cardinality(M[t]) = Mine(S, a, t)
    BY BlockCount
  <1>2. /\ \A u \in Threads : IsFiniteSet(N[u])
        /\ N[t] = Block(S, a, t)' /\ Cardinality(N[t]) = Mine(S, a, t)'
    <2>1. ASSUME NEW u \in Threads
          PROVE  /\ IsFiniteSet(Block(S, a, u)')
                 /\ Cardinality(Block(S, a, u)') = Mine(S, a, u)'
      <3>1. pc'[u] \in Labels /\ stack'[u] \in Seq(Labels)
        BY DEF ControlOK
      <3>2. CASE call'[u] = a
        <4> DEFINE p == pc'[u]
                   s == stack'[u]
        <4>1. p \in Labels /\ s \in Seq(Labels)
          BY <3>1
        <4>2. Block(S, a, u)' = Slots(u, S, <<p>> \o s)
          BY <3>2 DEF Block, FramesOf
        <4>3. Mine(S, a, u)' = Weight(S, s) + Hit(p, S)
          BY <3>2 DEF Mine
        <4> HIDE DEF p, s
        <4> QED BY <4>1, <4>2, <4>3, BlockSize
      <3>3. CASE call'[u] # a
        BY <3>3, FS_EmptySet DEF Block, Mine
      <3> QED BY <3>2, <3>3
    <2> QED BY <2>1
  <1>3. \A u, v \in Threads : u # v => M[u] \cap M[v] = {}
    BY DEF Block, Slots
  <1>4. \A u, v \in Threads : u # v => N[u] \cap N[v] = {}
    BY DEF Block, Slots
  <1>5. \A u \in Threads \ {t} : N[u] = M[u]
    BY DEF Block, Alone, FramesOf
  <1>6. rest = left
    BY <1>5
  <1>7. Frames(S, a) = UNION {M[u] : u \in Threads}
    BY DEF Frames
  <1>8. Frames(S, a)' = UNION {N[u] : u \in Threads}
    BY DEF Frames
  <1> HIDE DEF M, N
  <1>9. /\ Cardinality(UNION {M[u] : u \in Threads}) = Cardinality(rest) + Cardinality(M[t])
        /\ Cardinality(rest) \in Nat /\ Cardinality(M[t]) \in Nat
    BY <1>1, <1>3, SplitUnion
  <1>10. /\ Cardinality(UNION {N[u] : u \in Threads}) = Cardinality(left) + Cardinality(N[t])
         /\ Cardinality(left) \in Nat /\ Cardinality(N[t]) \in Nat
    BY <1>2, <1>4, SplitUnion
  <1> HIDE DEF rest, left
  <1>11. Number(S, a) = Cardinality(rest) + Mine(S, a, t)
    BY <1>1, <1>7, <1>9 DEF Number
  <1>12. Number(S, a)' = Cardinality(rest) + Mine(S, a, t)'
    BY <1>2, <1>6, <1>8, <1>10 DEF Number
  <1>13. Mine(S, a, t) \in Nat /\ Mine(S, a, t)' \in Nat /\ Cardinality(rest) \in Nat
    BY <1>1, <1>2, <1>9, <1>10
  <1> QED BY <1>11, <1>12, <1>13

-----------------------------------------------------------------------------
(* What a step adds to the frames of its thread that hold a reference,     *)
(* that hold a second one, and that owe the call its one signal.           *)

\* The frames that give up the reference that was the block's
Twice == {"settle", "free"}

\* The frames of a function that has an AsyncStateRef of its own
Holding ==
    Twice \cup {"begin", "beginning", "claim", "submit", "release", "waiting", "fetch",
                "try", "canceling", "revert", "start", "start canceled", "aborting",
                "working", "worked", "after"}

\* The frames that will signal the call
Tokens == {"signal", "satisfy", "callback", "dead"}

Moves(t, S, n) ==
    \A a \in Calls : /\ Number(S, a) \in Nat /\ Number(S, a)' \in Nat
                     /\ Number(S, a)' = Number(S, a) + IF a = call'[t] THEN n ELSE 0

Shift(t, h, w, k) == Moves(t, Holding, h) /\ Moves(t, Twice, w) /\ Moves(t, Tokens, k)

\* A step that writes the thread's own variables
Writes(t) == arg' \in [Threads -> Args] /\ \A u \in Threads \ {t} : arg'[u] = arg[u]

\* The thread ends up at q with the stack s, working for c.
Arrives(t, q, s, c) ==
    /\ Enter(t, q, s) /\ WellNested(q, s)
    /\ call' = [call EXCEPT ![t] = c] /\ c \in Calls /\ (t \in Calls => c = t)
    /\ Writes(t) /\ (q = "complete" => arg'[t] # "pending")

LEMMA ArriveControl ==
  ASSUME ControlOK, NEW t \in Threads, NEW q, NEW s, NEW c, Arrives(t, q, s, c)
  PROVE  /\ ControlOK' /\ Alone(t)
         /\ pc'[t] = q /\ stack'[t] = s /\ call'[t] = c
         /\ pc[t] \in Labels /\ stack[t] \in Seq(Labels) /\ q \in Labels /\ s \in Seq(Labels)
  <1>1. q \in Labels /\ s \in Seq(Labels)
    BY NestedStack DEF Arrives, WellNested
  <1>2. /\ pc' \in [Threads -> Labels] /\ stack' \in [Threads -> Seq(Labels)]
        /\ call' \in [Threads -> Calls \cup {None}] /\ arg' \in [Threads -> Args]
    BY <1>1 DEF Arrives, Enter, Writes, ControlOK
  <1>3. pc'[t] = q /\ stack'[t] = s /\ call'[t] = c /\ Alone(t)
    BY DEF Arrives, Enter, Writes, ControlOK, Alone
  <1>4. pc[t] \in Labels /\ stack[t] \in Seq(Labels)
    BY DEF ControlOK
  <1>5. ASSUME NEW u \in Threads
        PROVE  /\ WellNested(pc'[u], stack'[u])
               /\ pc'[u] # "idle" => call'[u] \in Calls
               /\ pc'[u] = "complete" => arg'[u] # "pending"
               /\ u \in Calls => call'[u] = u
    <2>1. CASE u = t
      BY <1>3, <2>1 DEF Arrives
    <2>2. CASE u # t
      BY <1>3, <2>2 DEF Alone, ControlOK
    <2> QED BY <2>1, <2>2
  <1>6. ControlOK'
    BY <1>2, <1>5 DEF ControlOK, Threads
  <1> QED BY <1>1, <1>3, <1>4, <1>6

\* A thread goes on in the same function.
LEMMA GotoMove ==
  ASSUME ControlOK, NEW t \in Threads, NEW q \in Labels, Goto(t, q),
         q \in Bottom <=> pc[t] \in Bottom, call[t] \in Calls,
         UNCHANGED call, Writes(t), q = "complete" => arg'[t] # "pending"
  PROVE  /\ ControlOK' /\ Alone(t) /\ pc'[t] = q
         /\ Shift(t, Hit(q, Holding) - Hit(pc[t], Holding), Hit(q, Twice) - Hit(pc[t], Twice),
                  Hit(q, Tokens) - Hit(pc[t], Tokens))
  <1>1. Arrives(t, q, stack[t], call[t])
    BY DEF Arrives, ControlOK, WellNested, Goto, Enter
  <1>2. /\ ControlOK' /\ Alone(t) /\ pc'[t] = q /\ stack'[t] = stack[t] /\ call'[t] = call[t]
        /\ pc[t] \in Labels /\ stack[t] \in Seq(Labels)
    BY <1>1, ArriveControl
  <1>3. ASSUME NEW S
        PROVE  Moves(t, S, Hit(q, S) - Hit(pc[t], S))
    <2>1. Hit(q, S) \in {0, 1} /\ Hit(pc[t], S) \in {0, 1} /\ Weight(S, stack[t]) \in Nat
      BY <1>2, WeightPush DEF Hit
    <2>2. ASSUME NEW a \in Calls
          PROVE  /\ Number(S, a) \in Nat /\ Number(S, a)' \in Nat
                 /\ Number(S, a)' = Number(S, a)
                      + IF a = call'[t] THEN Hit(q, S) - Hit(pc[t], S) ELSE 0
      <3>1. /\ Number(S, a) \in Nat /\ Number(S, a)' \in Nat
            /\ Number(S, a)' = Number(S, a) + Mine(S, a, t)' - Mine(S, a, t)
        BY <1>2, FrameStep
      <3>2. CASE a = call[t]
        <4>1. /\ Mine(S, a, t) = Weight(S, stack[t]) + Hit(pc[t], S)
              /\ Mine(S, a, t)' = Weight(S, stack[t]) + Hit(q, S)
          BY <1>2, <3>2 DEF Mine
        <4> QED BY <1>2, <2>1, <3>1, <3>2, <4>1
      <3>3. CASE a # call[t]
        BY <1>2, <3>1, <3>3 DEF Mine
      <3> QED BY <3>2, <3>3
    <2> QED BY <2>2 DEF Moves
  <1> QED BY <1>2, <1>3 DEF Shift

\* A thread enters a function.
LEMMA CallMove ==
  ASSUME ControlOK, NEW t \in Threads, NEW q \in Labels \ Bottom, NEW b \in Pushed,
         Call(t, q, b), b \in Bottom <=> pc[t] \in Bottom, call[t] \in Calls,
         UNCHANGED call, Writes(t), q = "complete" => arg'[t] # "pending"
  PROVE  /\ ControlOK' /\ Alone(t) /\ pc'[t] = q
         /\ Shift(t, Hit(q, Holding) + Hit(b, Holding) - Hit(pc[t], Holding),
                  Hit(q, Twice) + Hit(b, Twice) - Hit(pc[t], Twice),
                  Hit(q, Tokens) + Hit(b, Tokens) - Hit(pc[t], Tokens))
  <1> DEFINE s == <<b>> \o stack[t]
  <1>1. Arrives(t, q, s, call[t])
    <2>1. WellNested(pc[t], stack[t])
      BY DEF ControlOK
    <2>2. WellNested(q, s)
      BY <2>1, NestedPush
    <2> QED BY <2>2 DEF Arrives, Call, ControlOK, Enter
  <1>2. b \in Labels
    BY DEF Pushed, Labels
  <1>3. /\ ControlOK' /\ Alone(t) /\ pc'[t] = q /\ stack'[t] = s /\ call'[t] = call[t]
        /\ pc[t] \in Labels /\ stack[t] \in Seq(Labels)
    BY <1>1, ArriveControl
  <1>4. ASSUME NEW S
        PROVE  Moves(t, S, Hit(q, S) + Hit(b, S) - Hit(pc[t], S))
    <2>1. /\ Hit(q, S) \in {0, 1} /\ Hit(b, S) \in {0, 1} /\ Hit(pc[t], S) \in {0, 1}
          /\ Weight(S, stack[t]) \in Nat /\ Weight(S, s) = Weight(S, stack[t]) + Hit(b, S)
      BY <1>2, <1>3, WeightPush DEF Hit
    <2> HIDE DEF s
    <2>2. ASSUME NEW a \in Calls
          PROVE  /\ Number(S, a) \in Nat /\ Number(S, a)' \in Nat
                 /\ Number(S, a)' = Number(S, a)
                      + IF a = call'[t] THEN Hit(q, S) + Hit(b, S) - Hit(pc[t], S) ELSE 0
      <3>1. /\ Number(S, a) \in Nat /\ Number(S, a)' \in Nat
            /\ Number(S, a)' = Number(S, a) + Mine(S, a, t)' - Mine(S, a, t)
        BY <1>3, FrameStep
      <3>2. CASE a = call[t]
        <4>1. /\ Mine(S, a, t) = Weight(S, stack[t]) + Hit(pc[t], S)
              /\ Mine(S, a, t)' = Weight(S, s) + Hit(q, S)
          BY <1>3, <3>2 DEF Mine
        <4> QED BY <1>3, <2>1, <3>1, <3>2, <4>1
      <3>3. CASE a # call[t]
        BY <1>3, <3>1, <3>3 DEF Mine
      <3> QED BY <3>2, <3>3
    <2> QED BY <2>2 DEF Moves
  <1> HIDE DEF s
  <1> QED BY <1>3, <1>4 DEF Shift

\* A function returns.
LEMMA ReturnMove ==
  ASSUME ControlOK, NEW t \in Threads, pc[t] \notin Bottom, Return(t),
         UNCHANGED call, Writes(t)
  PROVE  /\ ControlOK' /\ Alone(t) /\ pc'[t] \in Pushed
         /\ Shift(t, 0 - Hit(pc[t], Holding), 0 - Hit(pc[t], Twice), 0 - Hit(pc[t], Tokens))
  <1> DEFINE q == Head(stack[t])
             s == Tail(stack[t])
  <1>1. /\ stack[t] # <<>> /\ stack[t] \in Seq(Labels) /\ q \in Pushed /\ WellNested(q, s)
        /\ call[t] \in Calls
    <2>1. WellNested(pc[t], stack[t]) /\ (pc[t] # "idle" => call[t] \in Calls)
      BY DEF ControlOK
    <2> QED BY <2>1, NestedPop DEF Bottom
  <1>2. q \in Labels /\ s \in Seq(Labels) /\ stack[t] = <<q>> \o s
    BY <1>1, Unfold
  <1>3. q # "complete"
    BY <1>1 DEF Pushed
  <1>4. Enter(t, q, s)
    BY DEF Return
  <1> HIDE DEF q, s
  <1>5. Arrives(t, q, s, call[t])
    BY <1>1, <1>3, <1>4 DEF Arrives, ControlOK
  <1>6. /\ ControlOK' /\ Alone(t) /\ pc'[t] = q /\ stack'[t] = s /\ call'[t] = call[t]
        /\ pc[t] \in Labels
    BY <1>5, ArriveControl
  <1>7. ASSUME NEW S
        PROVE  Moves(t, S, 0 - Hit(pc[t], S))
    <2>1. /\ Hit(q, S) \in {0, 1} /\ Hit(pc[t], S) \in {0, 1}
          /\ Weight(S, s) \in Nat /\ Weight(S, stack[t]) = Weight(S, s) + Hit(q, S)
      BY <1>2, WeightPush DEF Hit
    <2>2. ASSUME NEW a \in Calls
          PROVE  /\ Number(S, a) \in Nat /\ Number(S, a)' \in Nat
                 /\ Number(S, a)' = Number(S, a)
                      + IF a = call'[t] THEN 0 - Hit(pc[t], S) ELSE 0
      <3>1. /\ Number(S, a) \in Nat /\ Number(S, a)' \in Nat
            /\ Number(S, a)' = Number(S, a) + Mine(S, a, t)' - Mine(S, a, t)
        BY <1>6, FrameStep
      <3>2. CASE a = call[t]
        <4>1. /\ Mine(S, a, t) = Weight(S, stack[t]) + Hit(pc[t], S)
              /\ Mine(S, a, t)' = Weight(S, s) + Hit(q, S)
          BY <1>6, <3>2 DEF Mine
        <4> QED BY <1>6, <2>1, <3>1, <3>2, <4>1
      <3>3. CASE a # call[t]
        BY <1>6, <3>1, <3>3 DEF Mine
      <3> QED BY <3>2, <3>3
    <2> QED BY <2>2 DEF Moves
  <1> QED BY <1>1, <1>6, <1>7 DEF Shift

\* An idle thread begins to work for a call.
LEMMA StartMove ==
  ASSUME ControlOK, NEW t \in Threads \ Calls, NEW c \in Calls, NEW q \in Labels, NEW s,
         pc[t] = "idle", Enter(t, q, s), WellNested(q, s), q # "complete",
         call' = [call EXCEPT ![t] = c], Writes(t)
  PROVE  /\ ControlOK' /\ Alone(t) /\ pc'[t] = q /\ call'[t] = c
         /\ Shift(t, Hit(q, Holding) + Weight(Holding, s), Hit(q, Twice) + Weight(Twice, s),
                  Hit(q, Tokens) + Weight(Tokens, s))
  <1>1. Arrives(t, q, s, c)
    BY DEF Arrives
  <1>2. /\ ControlOK' /\ Alone(t) /\ pc'[t] = q /\ stack'[t] = s /\ call'[t] = c
        /\ stack[t] \in Seq(Labels) /\ s \in Seq(Labels)
    BY <1>1, ArriveControl
  <1>3. stack[t] = <<>>
    BY DEF ControlOK, WellNested, Bottom
  <1>4. ASSUME NEW S, "idle" \notin S
        PROVE  Moves(t, S, Hit(q, S) + Weight(S, s))
    <2>1. /\ Hit(q, S) \in {0, 1} /\ Hit(pc[t], S) = 0
          /\ Weight(S, s) \in Nat /\ Weight(S, stack[t]) = 0
      BY <1>2, <1>3, <1>4, WeightPush, WeightEmpty DEF Hit
    <2>2. ASSUME NEW a \in Calls
          PROVE  /\ Number(S, a) \in Nat /\ Number(S, a)' \in Nat
                 /\ Number(S, a)' = Number(S, a)
                      + IF a = call'[t] THEN Hit(q, S) + Weight(S, s) ELSE 0
      <3>1. /\ Number(S, a) \in Nat /\ Number(S, a)' \in Nat
            /\ Number(S, a)' = Number(S, a) + Mine(S, a, t)' - Mine(S, a, t)
        BY <1>2, FrameStep
      <3>2. Mine(S, a, t) = 0
        BY <2>1 DEF Mine
      <3>3. Mine(S, a, t)' = IF a = c THEN Weight(S, s) + Hit(q, S) ELSE 0
        BY <1>2 DEF Mine
      <3> QED BY <1>2, <2>1, <3>1, <3>2, <3>3
    <2> QED BY <2>2 DEF Moves
  <1>5. "idle" \notin Holding /\ "idle" \notin Twice /\ "idle" \notin Tokens
    BY DEF Holding, Twice, Tokens
  <1> QED BY <1>2, <1>4, <1>5 DEF Shift

-----------------------------------------------------------------------------
(* The queues.  Appending a callback adds one occurrence of its call, and   *)
(* taking the first one removes it.                                         *)

LEMMA SpotsFinite ==
  ASSUME NEW q \in Seq(Calls), NEW a
  PROVE  IsFiniteSet(Spots(a, q)) /\ Cardinality(Spots(a, q)) \in Nat
  <1>1. IsFiniteSet(1 .. Len(q)) /\ DOMAIN q = 1 .. Len(q)
    BY FS_Interval
  <1>2. IsFiniteSet(Spots(a, q))
    BY <1>1, FS_Subset DEF Spots
  <1> QED BY <1>2, FS_CardinalityType

LEMMA SpotsAppend ==
  ASSUME NEW q \in Seq(Calls), NEW c \in Calls, NEW a
  PROVE  Cardinality(Spots(a, Append(q, c))) =
             Cardinality(Spots(a, q)) + IF a = c THEN 1 ELSE 0
  <1>1. Len(q) + 1 \notin Spots(a, q)
    BY DEF Spots
  <1>2. Spots(a, Append(q, c)) = IF a = c THEN Spots(a, q) \cup {Len(q) + 1} ELSE Spots(a, q)
    BY DEF Spots
  <1>3. Cardinality(Spots(a, q) \cup {Len(q) + 1}) = Cardinality(Spots(a, q)) + 1
    BY <1>1, SpotsFinite, FS_AddElement
  <1> QED BY <1>2, <1>3, SpotsFinite

LEMMA SpotsTail ==
  ASSUME NEW q \in Seq(Calls), q # <<>>, NEW a
  PROVE  Cardinality(Spots(a, Tail(q))) =
             Cardinality(Spots(a, q)) - IF a = Head(q) THEN 1 ELSE 0
  <1>1. Tail(q) \in Seq(Calls) /\ Len(Tail(q)) = Len(q) - 1 /\ Len(q) \in Nat \ {0}
    OBVIOUS
  <1> DEFINE f == [n \in Spots(a, Tail(q)) |-> n + 1]
  <1>2. Spots(a, Tail(q)) \subseteq Nat
    BY <1>1 DEF Spots
  <1>3. f \in Bijection(Spots(a, Tail(q)), Spots(a, q) \ {1})
    <2>1. ASSUME NEW n \in Spots(a, Tail(q))
          PROVE  f[n] \in Spots(a, q) \ {1}
      BY <1>1 DEF Spots
    <2>2. ASSUME NEW n \in Spots(a, q) \ {1}
          PROVE  n - 1 \in Spots(a, Tail(q)) /\ f[n - 1] = n
      BY <1>1 DEF Spots
    <2>3. \A m, n \in Spots(a, Tail(q)) : f[m] = f[n] => m = n
      BY <1>2
    <2> HIDE DEF f
    <2> QED BY <2>1, <2>2, <2>3, Fun_IsBij DEF f
  <1>4. Cardinality(Spots(a, q) \ {1}) = Cardinality(Spots(a, Tail(q)))
    <2>1. ExistsBijection(Spots(a, Tail(q)), Spots(a, q) \ {1})
      BY <1>3, Fun_ExistsBij
    <2> QED BY <1>1, <2>1, SpotsFinite, FS_Bijection
  <1>5. 1 \in Spots(a, q) <=> a = Head(q)
    BY <1>1 DEF Spots
  <1>6. Cardinality(Spots(a, q) \ {1}) = IF a = Head(q) THEN Cardinality(Spots(a, q)) - 1
                                                     ELSE Cardinality(Spots(a, q))
    BY <1>5, SpotsFinite, FS_RemoveElement
  <1> QED BY <1>1, <1>4, <1>6, SpotsFinite

-----------------------------------------------------------------------------
(* The types.  That the counts of references and of suspends are natural    *)
(* numbers needs the sums below; as integers they have a type of their own. *)

Stages == {"none", "prepared", "canceled", "start", "suspend", "schedule", "park",
           "resume", "collect", "done"}

QueueOK ==
    /\ status \in [Ports -> {"Active", "Canceled", "Terminating", "Terminated"}]
    /\ suspends \in [Ports -> Int]
    /\ queue \in [Ports -> Seq(Calls)]
    /\ parked \in [Ports -> SUBSET Terminations]
    /\ scheduled \in [Ports -> SUBSET Terminations]
    /\ stage \in [Terminations -> [Ports -> Stages]]
    /\ terminated \subseteq Terminations

CallsOK ==
    /\ blockStatus \in [Calls -> {"none", "pending", "ok", "fail", "abort"}]
    /\ attached \in [Calls -> BOOLEAN] /\ payload \in [Calls -> BOOLEAN]
    /\ refs \in [Calls -> Int]
    /\ cleanup \in [Calls -> {"Destructor", "AfterDoWork", "InCancel", "CleanedUp"}]
    /\ workScheduled \in [Calls -> BOOLEAN] /\ valid \in [Calls -> BOOLEAN]
    /\ waitSatisfied \in [Calls -> BOOLEAN]
    /\ owed \in [Calls -> BOOLEAN] /\ asked \in [Calls -> BOOLEAN]
    /\ schedules \in [Calls -> Nat] /\ cleanups \in [Calls -> Nat]
    /\ signals \in [Calls -> Nat]
    /\ failFast \in BOOLEAN

TypeInv == ControlOK /\ QueueOK /\ CallsOK

USE DEF blockVars, stateVars, lifeVars, threadVars, otherVars, queueVars

LEMMA QueueTypes ==
  ASSUME QueueOK, CallsOK, NEW k \in Terminations, TerminationStep(k) \/ PrepareWork(k)
  PROVE  QueueOK'
  <1> USE DEF QueueOK, Ports, Stages, Advance, TakeSuspend, DropSuspend, LastSuspend,
              CollectParked, Prepare
  <1>1. CASE PrepareWork(k)
    BY <1>1 DEF PrepareWork
  <1>2. CASE PrepareCompletion(k)
    BY <1>2 DEF PrepareCompletion
  <1>3. CASE CancelTermination(k)
    BY <1>3 DEF CancelTermination
  <1>4. ASSUME NEW p \in Ports, PortTerminate(k, p)
        PROVE  QueueOK'
    <2>1. CASE SetTerminating(k, p)
      BY <2>1 DEF SetTerminating
    <2>2. CASE AddSuspend(k, p)
      BY <2>2 DEF AddSuspend
    <2>3. CASE Schedule(k, p)
      BY <2>3 DEF Schedule
    <2>4. CASE Park(k, p)
      BY <2>4 DEF Park
    <2>5. CASE Resume(k, p)
      BY <2>5 DEF Resume
    <2>6. CASE Collect(k, p)
      BY <2>6 DEF Collect
    <2>7. CASE Deliver(k, p)
      BY <2>7 DEF Deliver
    <2> QED BY <1>4, <2>1, <2>2, <2>3, <2>4, <2>5, <2>6, <2>7 DEF PortTerminate
  <1> QED BY <1>1, <1>2, <1>3, <1>4 DEF TerminationStep

\* What a thread does to the queue
LEMMA QueueTypesThread ==
  ASSUME QueueOK, CallsOK, NEW p \in Ports
  PROVE  /\ UNCHANGED queueVars => QueueOK'
         /\ (TakeSuspend(p) /\ UNCHANGED <<status, queue, parked, scheduled, stage, terminated>>)
                => QueueOK'
         /\ (DropSuspend(p) /\ UNCHANGED <<status, queue, parked, scheduled, stage, terminated>>)
                => QueueOK'
         /\ (CollectParked(p) /\ UNCHANGED <<status, suspends, queue, stage, terminated>>)
                => QueueOK'
         /\ \A c \in Calls :
              (Submit(p, c) /\ UNCHANGED <<status, suspends, parked, scheduled, stage, terminated>>)
                => QueueOK'
         /\ (/\ queue[p] # <<>> /\ queue' = [queue EXCEPT ![p] = Tail(@)]
             /\ UNCHANGED <<status, suspends, parked, scheduled, stage, terminated>>)
                => QueueOK' /\ Head(queue[p]) \in Calls
  <1> USE DEF QueueOK, TakeSuspend, DropSuspend, CollectParked, Submit
  <1>1. UNCHANGED queueVars => QueueOK'
    OBVIOUS
  <1>2. (TakeSuspend(p) /\ UNCHANGED <<status, queue, parked, scheduled, stage, terminated>>)
            => QueueOK'
    OBVIOUS
  <1>3. (DropSuspend(p) /\ UNCHANGED <<status, queue, parked, scheduled, stage, terminated>>)
            => QueueOK'
    OBVIOUS
  <1>4. (CollectParked(p) /\ UNCHANGED <<status, suspends, queue, stage, terminated>>)
            => QueueOK'
    OBVIOUS
  <1>5. \A c \in Calls :
          (Submit(p, c) /\ UNCHANGED <<status, suspends, parked, scheduled, stage, terminated>>)
            => QueueOK'
    OBVIOUS
  <1>6. (/\ queue[p] # <<>> /\ queue' = [queue EXCEPT ![p] = Tail(@)]
         /\ UNCHANGED <<status, suspends, parked, scheduled, stage, terminated>>)
            => QueueOK' /\ Head(queue[p]) \in Calls
    OBVIOUS
  <1> QED BY <1>1, <1>2, <1>3, <1>4, <1>5, <1>6

\* What a thread does to the calls; it works for one when it is in a function.
LEMMA CallTypes ==
  ASSUME CallsOK, NEW a \in Calls, NEW r \in Args
  PROVE  /\ Drop(a) => /\ refs' \in [Calls -> Int]
                       /\ cleanup' \in [Calls -> {"Destructor", "AfterDoWork", "InCancel", "CleanedUp"}]
                       /\ cleanups' \in [Calls -> Nat] /\ owed' \in [Calls -> BOOLEAN]
         /\ AddRef(a) => refs' \in [Calls -> Int]
         /\ TrySetTerminalStatus(a, r) =>
              blockStatus' \in [Calls -> {"none", "pending", "ok", "fail", "abort"}]
  <1> DEFINE locations == {"Destructor", "AfterDoWork", "InCancel", "CleanedUp"}
  <1>1. ASSUME Clean(a)
        PROVE  /\ cleanup' \in [Calls -> locations]
               /\ cleanups' \in [Calls -> Nat] /\ owed' \in [Calls -> BOOLEAN]
    <2>1. cleanup' \in [Calls -> locations]
      BY <1>1 DEF CallsOK, Clean
    <2>2. cleanups' \in [Calls -> Nat]
      BY <1>1 DEF CallsOK, Clean
    <2>3. owed' \in [Calls -> BOOLEAN]
      BY <1>1 DEF CallsOK, Clean
    <2> QED BY <2>1, <2>2, <2>3
  <1>2. cleanup \in [Calls -> locations] /\ cleanups \in [Calls -> Nat] /\ owed \in [Calls -> BOOLEAN]
    BY DEF CallsOK
  <1> HIDE DEF locations
  <1>3. Drop(a) => /\ cleanup' \in [Calls -> locations]
                   /\ cleanups' \in [Calls -> Nat] /\ owed' \in [Calls -> BOOLEAN]
    BY <1>1, <1>2 DEF Drop
  <1>4. Drop(a) => refs' \in [Calls -> Int]
    BY DEF Drop, CallsOK
  <1>5. AddRef(a) => refs' \in [Calls -> Int]
    BY DEF AddRef, CallsOK
  <1>6. TrySetTerminalStatus(a, r) =>
            blockStatus' \in [Calls -> {"none", "pending", "ok", "fail", "abort"}]
    BY DEF TrySetTerminalStatus, CallsOK, Args
  <1> QED BY <1>3, <1>4, <1>5, <1>6 DEF locations

LEMMA CallTypesComplete ==
  ASSUME CallsOK, NEW t, NEW a \in Calls, NEW r \in Args, NEW back,
         CompleteWith(t, a, r, back)
  PROVE  /\ blockStatus' \in [Calls -> {"none", "pending", "ok", "fail", "abort"}]
         /\ attached' \in [Calls -> BOOLEAN] /\ payload' \in [Calls -> BOOLEAN]
         /\ refs' \in [Calls -> Int]
  <1>1. /\ AddRef(a) => refs' \in [Calls -> Int]
        /\ TrySetTerminalStatus(a, r) =>
              blockStatus' \in [Calls -> {"none", "pending", "ok", "fail", "abort"}]
    BY CallTypes
  <1>2. CASE /\ TrySetTerminalStatus(a, r) /\ AddRef(a)
             /\ \/ payload' = [payload EXCEPT ![a] = TRUE] /\ UNCHANGED attached
                \/ attached' = [attached EXCEPT ![a] = FALSE] /\ UNCHANGED payload
    BY <1>1, <1>2 DEF CallsOK
  <1>3. CASE (AddRef(a) \/ UNCHANGED refs) /\ UNCHANGED blockVars
    BY <1>1, <1>3 DEF CallsOK
  <1> QED BY <1>2, <1>3 DEF CompleteWith

LEMMA CallTypesProceed ==
  ASSUME CallsOK, NEW t \in Threads, call[t] \in Calls, arg \in [Threads -> Args], Proceed(t)
  PROVE  CallsOK'
  <1> DEFINE a == call[t]
  <1>1. a \in Calls
    OBVIOUS
  <1>2. /\ Drop(a) => /\ refs' \in [Calls -> Int]
                      /\ cleanup' \in [Calls -> {"Destructor", "AfterDoWork", "InCancel", "CleanedUp"}]
                      /\ cleanups' \in [Calls -> Nat] /\ owed' \in [Calls -> BOOLEAN]
        /\ AddRef(a) => refs' \in [Calls -> Int]
    BY CallTypes
  <1> HIDE DEF a
  <1>3. CASE Release(t)
    BY <1>2, <1>3 DEF Release, CallsOK, a
  <1>4. CASE ScheduleCall(t)
    BY <1>2, <1>4 DEF ScheduleCall, CallsOK, a
  <1>5. CASE ClaimSchedule(t)
    BY <1>1, <1>5 DEF ClaimSchedule, CallsOK, a
  <1>6. CASE SubmitWork(t)
    BY <1>6 DEF SubmitWork, CallsOK
  <1>7. CASE Complete(t)
    BY <1>7, CallTypesComplete DEF Complete, CallsOK
  <1>8. CASE SignalCompletion(t)
    BY <1>2, <1>8 DEF SignalCompletion, CallsOK, a
  <1>9. CASE SignalWait(t)
    BY <1>1, <1>9 DEF SignalWait, CallsOK, a
  <1>10. CASE ResumeQueue(t)
    BY <1>10 DEF ResumeQueue, CallsOK
  <1>11. CASE CollectQueue(t)
    BY <1>11 DEF CollectQueue, CallsOK
  <1>12. CASE Settle(t)
    BY <1>1, <1>12 DEF Settle, CallsOK, a
  <1>13. CASE CleanupState(t)
    BY <1>1, <1>2, <1>13 DEF CleanupState, CallsOK, a
  <1>14. CASE Cancel(t)
    BY <1>2, <1>14 DEF Cancel, CallsOK, a
  <1>15. CASE TryCancel(t)
    BY <1>1, <1>15 DEF TryCancel, CallsOK, a
  <1>16. CASE ProviderCancel(t)
    BY <1>16 DEF ProviderCancel, CallsOK
  <1>17. CASE RevertCancel(t)
    BY <1>1, <1>17 DEF RevertCancel, CallsOK, a
  <1>18. CASE GetResult(t)
    BY <1>2, <1>18 DEF GetResult, CallsOK, a
  <1>19. CASE ExtractResult(t)
    BY <1>1, <1>19 DEF ExtractResult, CallsOK, a
  <1> QED BY <1>3, <1>4, <1>5, <1>6, <1>7, <1>8, <1>9, <1>10, <1>11, <1>12, <1>13, <1>14,
             <1>15, <1>16, <1>17, <1>18, <1>19 DEF Proceed

LEMMA CallTypesRoles ==
  ASSUME CallsOK
  PROVE  /\ \A a \in Calls : Begin(a) \/ ClientStep(a) =>
                ((pc[a] # "idle" => call[a] = a) => CallsOK')
         /\ \A w \in Workers : WorkerStep(w) =>
                ((pc[w] # "idle" => call[w] \in Calls) => CallsOK')
         /\ \A d \in Notifiers : NotifierStep(d) =>
                ((pc[d] # "idle" => call[d] \in Calls) => CallsOK')
         /\ \A x, a : StartCancel(x, a) => CallsOK'
         /\ \A o \in Outsiders, a \in Calls : OutsiderCompletes(o, a) => CallsOK'
  <1>1. ASSUME NEW t, NEW back, call[t] \in Calls, ProviderOp(t, back)
        PROVE  CallsOK'
    <2>1. owed' \in [Calls -> BOOLEAN]
      BY <1>1 DEF ProviderOp, CallsOK
    <2>2. schedules' \in [Calls -> Nat]
      BY <1>1 DEF ProviderOp, CallsOK
    <2>3. UNCHANGED <<blockVars, stateVars, refs, cleanup, cleanups, asked, signals, failFast>>
      BY <1>1 DEF ProviderOp
    <2> QED BY <2>1, <2>2, <2>3 DEF CallsOK
  <1>2. ASSUME NEW a \in Calls, Begin(a) \/ ClientStep(a), pc[a] # "idle" => call[a] = a
        PROVE  CallsOK'
    <2>1. CASE Begin(a)
      BY <2>1 DEF Begin, CallsOK
    <2>2. CASE VerifySuspend(a)
      <3>1. blockStatus' \in [Calls -> {"none", "pending", "ok", "fail", "abort"}]
        BY <2>2 DEF VerifySuspend, CallsOK
      <3>2. attached' = attached \/ attached' = [attached EXCEPT ![a] = TRUE]
        BY <2>2 DEF VerifySuspend
      <3>3. refs' = refs \/ refs' = [refs EXCEPT ![a] = 2]
        BY <2>2 DEF VerifySuspend
      <3>4. attached' \in [Calls -> BOOLEAN]
        BY <3>2 DEF CallsOK
      <3>5. refs' \in [Calls -> Int]
        BY <3>3 DEF CallsOK
      <3>6. UNCHANGED <<payload, stateVars, cleanup, owed, cleanups, otherVars>>
        BY <2>2 DEF VerifySuspend
      <3> QED BY <3>1, <3>4, <3>5, <3>6 DEF CallsOK
    <2>3. CASE ProviderBegin(a)
      BY <1>1, <1>2, <2>3 DEF ProviderBegin
    <2>4. CASE EndBegin(a)
      BY <2>4 DEF EndBegin, CallsOK
    <2>5. CASE GetStatus(a)
      BY <2>5, CallTypes DEF GetStatus, CallsOK, Args
    <2>6. CASE WaitReturns(a)
      BY <2>6 DEF WaitReturns, CallsOK
    <2>7. CASE FetchResult(a)
      BY <2>7 DEF FetchResult, CallsOK
    <2> QED BY <1>2, <2>1, <2>2, <2>3, <2>4, <2>5, <2>6, <2>7 DEF ClientStep
  <1>3. ASSUME NEW w \in Workers, WorkerStep(w), pc[w] # "idle" => call[w] \in Calls
        PROVE  CallsOK'
    <2>1. CASE RunWork(w)
      BY <2>1 DEF RunWork, CallsOK
    <2>2. CASE StartWork(w)
      BY <1>3, <2>2 DEF StartWork, CallsOK
    <2>3. CASE Abort(w)
      BY <2>3 DEF Abort, CallsOK
    <2>4. CASE ProviderDoWork(w)
      BY <1>1, <1>3, <2>4 DEF ProviderDoWork
    <2>5. CASE EndWork(w)
      BY <2>5 DEF EndWork, CallsOK
    <2>6. CASE CleanupAfterWork(w)
      <3> DEFINE a == call[w]
      <3>1. a \in Calls
        BY <1>3, <2>6 DEF CleanupAfterWork
      <3>2. Clean(a) \/ UNCHANGED <<cleanup, cleanups, owed>>
        BY <2>6 DEF CleanupAfterWork
      <3> HIDE DEF a
      <3>3. /\ cleanup' \in [Calls -> {"Destructor", "AfterDoWork", "InCancel", "CleanedUp"}]
            /\ cleanups' \in [Calls -> Nat]
        BY <3>1, <3>2 DEF Clean, CallsOK
      <3>4. owed' \in [Calls -> BOOLEAN]
        BY <3>1, <3>2 DEF Clean, CallsOK
      <3> QED BY <2>6, <3>3, <3>4 DEF CleanupAfterWork, CallsOK
    <2> QED BY <1>3, <2>1, <2>2, <2>3, <2>4, <2>5, <2>6 DEF WorkerStep
  <1>4. ASSUME NEW d \in Notifiers, NotifierStep(d), pc[d] # "idle" => call[d] \in Calls
        PROVE  CallsOK'
    <2>1. CASE RunCompletion(d)
      BY <2>1 DEF RunCompletion, CallsOK
    <2>2. CASE ClientCallback(d)
      BY <1>4, <2>2 DEF ClientCallback, CallsOK
    <2> QED BY <1>4, <2>1, <2>2 DEF NotifierStep
  <1>5. ASSUME NEW x, NEW a, StartCancel(x, a)
        PROVE  CallsOK'
    BY <1>5 DEF StartCancel, CallsOK
  <1>6. ASSUME NEW o \in Outsiders, NEW a \in Calls, OutsiderCompletes(o, a)
        PROVE  CallsOK'
    <2>1. PICK r \in ProviderResults : CompleteWith(o, a, r, <<"idle">>)
      BY <1>6 DEF OutsiderCompletes
    <2>2. r \in Args
      BY CallAssumption DEF Args
    <2>3. /\ blockStatus' \in [Calls -> {"none", "pending", "ok", "fail", "abort"}]
          /\ attached' \in [Calls -> BOOLEAN] /\ payload' \in [Calls -> BOOLEAN]
          /\ refs' \in [Calls -> Int]
      BY <2>1, <2>2, CallTypesComplete
    <2> QED BY <1>6, <2>3 DEF OutsiderCompletes, CallsOK
  <1> QED BY <1>2, <1>3, <1>4, <1>5, <1>6

USE DEF blockVars, stateVars, lifeVars, threadVars, otherVars, queueVars

-----------------------------------------------------------------------------
(* The invariant.  Each reference of a call has one holder: the block, a   *)
(* queued callback, or a frame of a thread, where a frame that gives up    *)
(* the block's counts twice.  From XAsyncBegin on there is one sign that   *)
(* the call is or will be signaled: the pending block, the queued          *)
(* completion callback, a frame that is on its way to SignalWait, or that  *)
(* it was.  One thread fetches the result.  And the work port is suspended *)
(* by each call that was not signaled, by each thread about to begin a     *)
(* call or to give its suspend back, and by the terminations themselves.   *)

Attached(a) == IF attached[a] THEN 1 ELSE 0

Pending(a) == IF blockStatus[a] = "pending" THEN 1 ELSE 0

\* Apart from the frames of threads
Claims(a) == Attached(a) + Queued(a, "Work") + Queued(a, "Completion")

Marks(a) == Pending(a) + Queued(a, "Completion") + signals[a]

References(a) == Claims(a) + Number(Holding, a) + Number(Twice, a)

Signs(a) == Marks(a) + Number(Tokens, a)

ReferencesOK == \A a \in Calls : refs[a] = References(a)

SignsOK ==
    \A a \in Calls :
        /\ Signs(a) <= 1
        /\ blockStatus[a] = "none" => Signs(a) = 0 /\ refs[a] = 0 /\ ~attached[a]
        /\ pc[a] = "verify" => blockStatus[a] = "none"
        /\ blockStatus[a] = "pending" => attached[a]
        /\ waitSatisfied[a] <=> signals[a] > 0
        /\ Signs(a) = 0 => refs[a] = 0

Fetches(t) == pc[t] \in {"result", "fetch"}

FetchOK ==
    \A t \in Threads : Fetches(t) =>
        /\ asked[call[t]]
        /\ pc[t] = "fetch" => attached[call[t]] /\ blockStatus[call[t]] # "pending"
        /\ \A u \in Threads : Fetches(u) /\ call[u] = call[t] => u = t

Suspending == {t \in Threads : pc[t] \in {"verify", "resume"}}

Outstanding == {a \in Calls : Signs(a) # 0 /\ ~waitSatisfied[a]}

Staged(p) == {k \in Terminations : stage[k][p] \in {"schedule", "park", "resume"}}

SuspendOK ==
    /\ suspends["Work"] =
           Cardinality(Suspending) + Cardinality(Outstanding) + Cardinality(Staged("Work"))
    /\ suspends["Completion"] = Cardinality(Staged("Completion"))

CallInv == ReferencesOK /\ SignsOK /\ FetchOK /\ SuspendOK

-----------------------------------------------------------------------------
(* Most steps of a thread move a reference at most.  What they leave alone *)
(* is stated once, and so is that they keep the invariant.                 *)

\* The count of the call follows what the step adds to its holders; the block, the
\* queues and the signal are left alone.
Counted(t, h, w) ==
    /\ UNCHANGED <<blockStatus, attached, queue, signals, waitSatisfied>>
    /\ \A a \in Calls : refs'[a] = refs[a] + IF a = call'[t] THEN h + w ELSE 0
    /\ h + w > 0 => attached[call'[t]]

\* h is what the step adds to the frames that hold a reference, w what it adds to
\* those that hold a second one.
Steady(t, h, w) ==
    /\ ControlOK' /\ Alone(t) /\ Shift(t, h, w, 0) /\ Counted(t, h, w)
    /\ call'[t] \in Calls /\ pc'[t] # "verify"

\* The places where a thread has to do with the suspends or with the result
Special == {"verify", "resume", "result", "fetch"}

Plain(t) == {pc[t], pc'[t]} \cap Special = {} /\ UNCHANGED <<suspends, stage, asked>>

PlainStep(t) ==
    /\ Plain(t)
    /\ Steady(t, 0, 0) \/ Steady(t, 1, 0) \/ Steady(t, -1, 0) \/ Steady(t, 0, -1)

LEMMA HitType ==
  ASSUME NEW p, NEW S
  PROVE  Hit(p, S) \in {0, 1}
  BY DEF Hit

\* A step within a function, into one, and out of one, that only counts
Goes(t, q, h, w) ==
    /\ Goto(t, q) /\ q \in Labels \ {"verify"} /\ (q \in Bottom <=> pc[t] \in Bottom)
    /\ UNCHANGED call /\ Writes(t) /\ (q = "complete" => arg'[t] # "pending")
    /\ Counted(t, h, w)
    /\ Hit(q, Holding) = Hit(pc[t], Holding) + h /\ Hit(q, Twice) = Hit(pc[t], Twice) + w
    /\ Hit(q, Tokens) = Hit(pc[t], Tokens)

Enters(t, q, b, h, w) ==
    /\ Call(t, q, b) /\ q \in Labels \ Bottom
    /\ b \in Pushed /\ (b \in Bottom <=> pc[t] \in Bottom)
    /\ UNCHANGED call /\ Writes(t) /\ (q = "complete" => arg'[t] # "pending")
    /\ Counted(t, h, w)
    /\ Hit(q, Holding) + Hit(b, Holding) = Hit(pc[t], Holding) + h
    /\ Hit(q, Twice) + Hit(b, Twice) = Hit(pc[t], Twice) + w
    /\ Hit(q, Tokens) + Hit(b, Tokens) = Hit(pc[t], Tokens)

Leaves(t, h, w) ==
    /\ Return(t) /\ pc[t] \in Labels \ Bottom
    /\ UNCHANGED call /\ Writes(t) /\ Counted(t, h, w)
    /\ Hit(pc[t], Holding) + h = 0 /\ Hit(pc[t], Twice) + w = 0 /\ Hit(pc[t], Tokens) = 0

LEMMA GotoSteady ==
  ASSUME ControlOK, NEW t \in Threads, call[t] \in Calls, NEW q,
         NEW h \in {-1, 0, 1}, NEW w \in {-1, 0, 1}, Goes(t, q, h, w)
  PROVE  Steady(t, h, w) /\ pc'[t] = q
  <1>1. /\ q \in Labels \ {"verify"} /\ Goto(t, q) /\ (q \in Bottom <=> pc[t] \in Bottom)
        /\ UNCHANGED call /\ Writes(t) /\ (q = "complete" => arg'[t] # "pending")
        /\ Counted(t, h, w)
    BY DEF Goes
  <1>2. /\ ControlOK' /\ Alone(t) /\ pc'[t] = q
        /\ Shift(t, Hit(q, Holding) - Hit(pc[t], Holding), Hit(q, Twice) - Hit(pc[t], Twice),
                 Hit(q, Tokens) - Hit(pc[t], Tokens))
    BY <1>1, GotoMove
  <1>3. /\ Hit(q, Holding) - Hit(pc[t], Holding) = h /\ Hit(q, Twice) - Hit(pc[t], Twice) = w
        /\ Hit(q, Tokens) - Hit(pc[t], Tokens) = 0
    BY HitType DEF Goes
  <1> QED BY <1>1, <1>2, <1>3 DEF Steady

LEMMA CallSteady ==
  ASSUME ControlOK, NEW t \in Threads, call[t] \in Calls, NEW q, NEW b,
         NEW h \in {-1, 0, 1}, NEW w \in {-1, 0, 1}, Enters(t, q, b, h, w)
  PROVE  Steady(t, h, w) /\ pc'[t] = q
  <1>1. /\ q \in Labels \ Bottom /\ Call(t, q, b)
        /\ b \in Pushed /\ (b \in Bottom <=> pc[t] \in Bottom)
        /\ UNCHANGED call /\ Writes(t) /\ (q = "complete" => arg'[t] # "pending")
        /\ Counted(t, h, w)
    BY DEF Enters
  <1>2. /\ ControlOK' /\ Alone(t) /\ pc'[t] = q
        /\ Shift(t, Hit(q, Holding) + Hit(b, Holding) - Hit(pc[t], Holding),
                 Hit(q, Twice) + Hit(b, Twice) - Hit(pc[t], Twice),
                 Hit(q, Tokens) + Hit(b, Tokens) - Hit(pc[t], Tokens))
    BY <1>1, CallMove
  <1>3. /\ Hit(q, Holding) + Hit(b, Holding) - Hit(pc[t], Holding) = h
        /\ Hit(q, Twice) + Hit(b, Twice) - Hit(pc[t], Twice) = w
        /\ Hit(q, Tokens) + Hit(b, Tokens) - Hit(pc[t], Tokens) = 0
    BY HitType DEF Enters
  <1>4. q # "verify"
    BY <1>1 DEF Bottom
  <1> QED BY <1>1, <1>2, <1>3, <1>4 DEF Steady

LEMMA ReturnSteady ==
  ASSUME ControlOK, NEW t \in Threads, NEW h \in {-1, 0, 1}, NEW w \in {-1, 0, 1},
         Leaves(t, h, w)
  PROVE  Steady(t, h, w) /\ pc'[t] \in Pushed /\ pc'[t] \notin Special
  <1>1. /\ pc[t] \in Labels \ Bottom /\ Return(t)
        /\ UNCHANGED call /\ Writes(t) /\ Counted(t, h, w)
    BY DEF Leaves
  <1>2. /\ ControlOK' /\ Alone(t) /\ pc'[t] \in Pushed
        /\ Shift(t, 0 - Hit(pc[t], Holding), 0 - Hit(pc[t], Twice), 0 - Hit(pc[t], Tokens))
    BY <1>1, ReturnMove
  <1>3. 0 - Hit(pc[t], Holding) = h /\ 0 - Hit(pc[t], Twice) = w /\ 0 - Hit(pc[t], Tokens) = 0
    BY HitType DEF Leaves
  <1>4. call[t] \in Calls
    BY <1>1 DEF ControlOK, Bottom
  <1>5. pc'[t] \notin Special /\ pc'[t] # "verify"
    BY <1>2 DEF Pushed, Special
  <1>6. Shift(t, h, w, 0)
    BY <1>2, <1>3
  <1> QED BY <1>1, <1>2, <1>4, <1>5, <1>6 DEF Steady

\* What such a step adds when it is plain
Small(h, w) == \/ h = 0 /\ w = 0
               \/ h = 1 /\ w = 0
               \/ h = -1 /\ w = 0
               \/ h = 0 /\ w = -1

PlainMove(t) ==
    /\ pc[t] \notin Special /\ UNCHANGED <<suspends, stage, asked>>
    /\ \E h, w \in {-1, 0, 1} :
          /\ Small(h, w)
          /\ \/ \E q : Goes(t, q, h, w) /\ q \notin Special
             \/ \E q, b : Enters(t, q, b, h, w) /\ q \notin Special
             \/ Leaves(t, h, w)

LEMMA PlainMoves ==
  ASSUME ControlOK, NEW t \in Threads, call[t] \in Calls, PlainMove(t)
  PROVE  PlainStep(t)
  <1>1. PICK h, w \in {-1, 0, 1} :
          /\ Small(h, w)
          /\ \/ \E q : Goes(t, q, h, w) /\ q \notin Special
             \/ \E q, b : Enters(t, q, b, h, w) /\ q \notin Special
             \/ Leaves(t, h, w)
    BY DEF PlainMove
  <1>2. Steady(t, h, w) /\ pc'[t] \notin Special
    BY <1>1, GotoSteady, CallSteady, ReturnSteady
  <1>3. Steady(t, 0, 0) \/ Steady(t, 1, 0) \/ Steady(t, -1, 0) \/ Steady(t, 0, -1)
    BY <1>1, <1>2 DEF Small
  <1> QED BY <1>2, <1>3 DEF PlainStep, PlainMove, Plain

LEMMA CountSteps ==
  ASSUME CallsOK, NEW c \in Calls
  PROVE  /\ AddRef(c) =>
              \A a \in Calls : refs'[a] = refs[a] + IF a = c THEN 1 ELSE 0
         /\ UNCHANGED refs =>
              \A a \in Calls : refs'[a] = refs[a] + IF a = c THEN 0 ELSE 0
         /\ Drop(c) =>
              \A a \in Calls : refs'[a] = refs[a] + IF a = c THEN -1 ELSE 0
  BY DEF CallsOK, AddRef, Drop

LEMMA WriteSteps ==
  ASSUME ControlOK, NEW t \in Threads
  PROVE  /\ UNCHANGED arg => Writes(t) /\ arg'[t] = arg[t]
         /\ \A r \in Args : arg' = [arg EXCEPT ![t] = r] => Writes(t) /\ arg'[t] = r
  BY DEF ControlOK, Writes

\* The steps of XAsyncSchedule, XAsyncCancel and the ends of the functions
LEMMA PlainFunctions ==
  ASSUME TypeInv, NEW t \in Threads, call[t] \in Calls,
         \/ Release(t) \/ ScheduleCall(t) \/ ClaimSchedule(t)
         \/ SubmitWork(t) /\ Refuses("Work")
         \/ CollectQueue(t) \/ Settle(t) \/ CleanupState(t)
         \/ Cancel(t) \/ TryCancel(t) \/ ProviderCancel(t) \/ RevertCancel(t)
  PROVE  PlainMove(t)
  <1> DEFINE a == call[t]
  <1> USE DEF TypeInv
  <1>1. /\ AddRef(a) => \A b \in Calls : refs'[b] = refs[b] + IF b = a THEN 1 ELSE 0
        /\ UNCHANGED refs => \A b \in Calls : refs'[b] = refs[b] + IF b = a THEN 0 ELSE 0
        /\ Drop(a) => \A b \in Calls : refs'[b] = refs[b] + IF b = a THEN -1 ELSE 0
    BY CountSteps
  <1>2. /\ UNCHANGED arg => Writes(t) /\ arg'[t] = arg[t]
        /\ \A r \in Args : arg' = [arg EXCEPT ![t] = r] => Writes(t) /\ arg'[t] = r
    BY WriteSteps
  <1> USE DEF Hit, Holding, Twice, Tokens, Bottom, Pushed, Labels, Special, Args, Counted
  <1>3. CASE Release(t)
    <2>1. Leaves(t, -1, 0)
      BY <1>1, <1>2, <1>3 DEF Release, Leaves
    <2> QED BY <1>3, <2>1 DEF Release, PlainMove, Small
  <1>4. CASE ScheduleCall(t)
    <2>1. CASE attached[a] /\ blockStatus[a] \notin {"fail", "abort"}
      <3>1. Goes(t, "claim", 1, 0)
        BY <1>1, <1>2, <1>4, <2>1 DEF ScheduleCall, Goes
      <3> QED BY <1>4, <3>1 DEF ScheduleCall, PlainMove, Small
    <2>2. CASE ~ (attached[a] /\ blockStatus[a] \notin {"fail", "abort"})
      <3>1. Leaves(t, 0, 0)
        BY <1>1, <1>2, <1>4, <2>2 DEF ScheduleCall, Leaves
      <3> QED BY <1>4, <3>1 DEF ScheduleCall, PlainMove, Small
    <2> QED BY <2>1, <2>2
  <1>5. CASE ClaimSchedule(t)
    <2>1. PICK r \in {"fail", "pending"} : arg' = [arg EXCEPT ![t] = r]
      BY <1>5 DEF ClaimSchedule
    <2>2. /\ UNCHANGED <<blockVars, waitSatisfied, lifeVars, queueVars, call, otherVars>>
          /\ pc[t] = "claim" /\ Writes(t)
      BY <1>2, <1>5, <2>1 DEF ClaimSchedule
    <2>3. CASE workScheduled[a]
      <3>1. Goes(t, "release", 0, 0)
        BY <1>1, <1>5, <2>2, <2>3 DEF ClaimSchedule, Goes, a
      <3> QED BY <2>2, <3>1 DEF PlainMove, Small
    <2>4. CASE ~workScheduled[a]
      <3>1. Goes(t, "submit", 0, 0)
        BY <1>1, <1>5, <2>2, <2>4 DEF ClaimSchedule, Goes, a
      <3> QED BY <2>2, <3>1 DEF PlainMove, Small
    <2> QED BY <2>3, <2>4
  <1>6. CASE SubmitWork(t) /\ Refuses("Work")
    <2>1. Goes(t, "release", 0, 0)
      BY <1>1, <1>2, <1>6 DEF SubmitWork, Goes
    <2> QED BY <1>6, <2>1 DEF SubmitWork, PlainMove, Small
  <1>7. CASE CollectQueue(t)
    <2>1. Leaves(t, 0, 0)
      BY <1>1, <1>2, <1>7 DEF CollectQueue, Leaves
    <2> QED BY <1>7, <2>1 DEF CollectQueue, PlainMove, Small
  <1>8. CASE Settle(t)
    <2>1. Goes(t, "free", 0, 0)
      BY <1>1, <1>2, <1>8 DEF Settle, Goes
    <2> QED BY <1>8, <2>1 DEF Settle, PlainMove, Small
  <1>9. CASE CleanupState(t)
    <2>1. Goes(t, "release", 0, -1)
      BY <1>1, <1>2, <1>9 DEF CleanupState, Goes, a
    <2> QED BY <1>9, <2>1 DEF CleanupState, PlainMove, Small
  <1>10. CASE Cancel(t)
    <2>1. CASE attached[a]
      <3>1. Goes(t, "try", 1, 0)
        BY <1>1, <1>2, <1>10, <2>1 DEF Cancel, Goes, a
      <3> QED BY <1>10, <3>1 DEF Cancel, PlainMove, Small
    <2>2. CASE ~attached[a]
      <3>1. Leaves(t, 0, 0)
        BY <1>1, <1>2, <1>10, <2>2 DEF Cancel, Leaves, a
      <3> QED BY <1>10, <3>1 DEF Cancel, PlainMove, Small
    <2> QED BY <2>1, <2>2
  <1>11. CASE TryCancel(t)
    <2>1. CASE cleanup[a] = "Destructor"
      <3>1. Goes(t, "canceling", 0, 0)
        BY <1>1, <1>2, <1>11, <2>1 DEF TryCancel, Goes, a
      <3> QED BY <1>11, <3>1 DEF TryCancel, PlainMove, Small
    <2>2. CASE cleanup[a] # "Destructor"
      <3>1. Goes(t, "release", 0, 0)
        BY <1>1, <1>2, <1>11, <2>2 DEF TryCancel, Goes, a
      <3> QED BY <1>11, <3>1 DEF TryCancel, PlainMove, Small
    <2> QED BY <2>1, <2>2
  <1>12. CASE ProviderCancel(t)
    <2>1. CASE arg' = [arg EXCEPT ![t] = "abort"] /\ Call(t, "complete", "revert")
      <3>1. Enters(t, "complete", "revert", 0, 0)
        BY <1>1, <1>2, <1>12, <2>1 DEF ProviderCancel, Enters
      <3> QED BY <1>12, <3>1 DEF ProviderCancel, PlainMove, Small
    <2>2. CASE Goto(t, "revert") /\ UNCHANGED arg
      <3>1. Goes(t, "revert", 0, 0)
        BY <1>1, <1>2, <1>12, <2>2 DEF ProviderCancel, Goes
      <3> QED BY <1>12, <3>1 DEF ProviderCancel, PlainMove, Small
    <2> QED BY <1>12, <2>1, <2>2 DEF ProviderCancel
  <1>13. CASE RevertCancel(t)
    <2>1. Goes(t, "release", 0, 0)
      BY <1>1, <1>2, <1>13 DEF RevertCancel, Goes
    <2> QED BY <1>13, <2>1 DEF RevertCancel, PlainMove, Small
  <1> QED BY <1>3, <1>4, <1>5, <1>6, <1>7, <1>8, <1>9, <1>10, <1>11, <1>12, <1>13

\* The provider's Begin and DoWork
LEMMA PlainProvider ==
  ASSUME TypeInv, NEW t \in Threads, call[t] \in Calls, pc[t] \in {"begin", "working"},
         NEW back \in {"beginning", "worked"}, ProviderOp(t, back)
  PROVE  PlainMove(t)
  <1> USE DEF TypeInv
  <1>1. UNCHANGED refs => \A b \in Calls : refs'[b] = refs[b] + IF b = call[t] THEN 0 ELSE 0
    BY CountSteps
  <1>2. /\ UNCHANGED arg => Writes(t) /\ arg'[t] = arg[t]
        /\ \A r \in Args : arg' = [arg EXCEPT ![t] = r] => Writes(t) /\ arg'[t] = r
    BY WriteSteps
  <1>3. UNCHANGED <<queueVars, blockVars, stateVars, refs, cleanup, cleanups, call, asked,
                    signals, failFast>>
    BY DEF ProviderOp
  <1>4. /\ \A p \in {"begin", "working", "beginning", "worked"} :
              /\ Hit(p, Holding) = 1 /\ Hit(p, Twice) = 0 /\ Hit(p, Tokens) = 0
              /\ p \in Labels \ {"verify", "complete"} /\ p \notin Bottom /\ p \notin Special
        /\ \A p \in {"complete", "schedule"} :
              /\ Hit(p, Holding) = 0 /\ Hit(p, Twice) = 0 /\ Hit(p, Tokens) = 0
              /\ p \in Labels \ Bottom /\ p \notin Special
        /\ back \in Pushed /\ pc[t] \in {"begin", "working", "beginning", "worked"}
        /\ back \in {"begin", "working", "beginning", "worked"}
    BY DEF Hit, Holding, Twice, Tokens, Bottom, Pushed, Labels, Special
  <1>5. Counted(t, 0, 0)
    BY <1>1, <1>3 DEF Counted
  <1>6. CASE \E r \in ProviderResults : arg' = [arg EXCEPT ![t] = r] /\ Call(t, "complete", back)
    <2>1. PICK r \in ProviderResults : arg' = [arg EXCEPT ![t] = r] /\ Call(t, "complete", back)
      BY <1>6
    <2>2. r \in Args /\ r # "pending"
      BY CallAssumption DEF Args
    <2>3. Writes(t) /\ arg'[t] # "pending"
      BY <1>2, <2>1, <2>2
    <2>4. Enters(t, "complete", back, 0, 0)
      BY <1>3, <1>4, <1>5, <2>1, <2>3 DEF Enters
    <2> QED BY <1>3, <1>4, <2>4 DEF PlainMove, Small
  <1>7. CASE Call(t, "schedule", back) /\ UNCHANGED arg
    <2>1. Enters(t, "schedule", back, 0, 0)
      BY <1>2, <1>3, <1>7, <1>4, <1>5 DEF Enters
    <2> QED BY <1>3, <1>4, <2>1 DEF PlainMove, Small
  <1>8. CASE Goto(t, back) /\ \E r \in Args : arg' = [arg EXCEPT ![t] = r]
    <2>1. Writes(t)
      BY <1>2, <1>8
    <2>2. Goes(t, back, 0, 0)
      BY <1>3, <1>8, <1>4, <1>5, <2>1 DEF Goes
    <2> QED BY <1>3, <1>4, <2>2 DEF PlainMove, Small
  <1> QED BY <1>6, <1>7, <1>8 DEF ProviderOp, Args

\* The client's steps, those of WorkerCallback, and the rest of the functions
LEMMA PlainClient ==
  ASSUME TypeInv, NEW t \in Threads, call[t] \in Calls,
         \/ t \in Calls /\ (ProviderBegin(t) \/ EndBegin(t) \/ GetStatus(t) \/ WaitReturns(t))
         \/ t \in Calls /\ FetchResult(t) /\ Enter(t, "done", <<>>) /\ UNCHANGED asked
  PROVE  PlainMove(t)
  <1> USE DEF TypeInv
  <1>1. /\ AddRef(call[t]) => \A b \in Calls : refs'[b] = refs[b] + IF b = call[t] THEN 1 ELSE 0
        /\ UNCHANGED refs => \A b \in Calls : refs'[b] = refs[b] + IF b = call[t] THEN 0 ELSE 0
    BY CountSteps
  <1>2. /\ UNCHANGED arg => Writes(t) /\ arg'[t] = arg[t]
        /\ \A r \in Args : arg' = [arg EXCEPT ![t] = r] => Writes(t) /\ arg'[t] = r
    BY WriteSteps
  <1>3. /\ t \in Calls => call[t] = t
        /\ pc[t] \in Bottom <=> stack[t] = <<>>
    BY DEF ControlOK, WellNested
  <1> USE DEF Hit, Holding, Twice, Tokens, Bottom, Pushed, Labels, Special, Args, Counted
  <1>4. CASE ProviderBegin(t)
    BY <1>4, PlainProvider DEF ProviderBegin
  <1>5. CASE EndBegin(t)
    <2>1. CASE arg[t] = "fail"
      <3>1. Enters(t, "complete", "release", 0, 0)
        BY <1>1, <1>2, <1>5, <2>1 DEF EndBegin, Enters
      <3> QED BY <1>5, <3>1 DEF EndBegin, PlainMove, Small
    <2>2. CASE arg[t] # "fail"
      <3>1. Goes(t, "release", 0, 0)
        BY <1>1, <1>2, <1>5, <2>2 DEF EndBegin, Goes
      <3> QED BY <1>5, <3>1 DEF EndBegin, PlainMove, Small
    <2> QED BY <2>1, <2>2
  <1>6. CASE t \in Calls /\ GetStatus(t)
    <2>1. CASE attached[t]
      <3>1. Call(t, "waiting", "waited")
        <4>1. stack[t] = <<>> /\ Enter(t, "waiting", <<"waited">>)
          BY <1>3, <1>6, <2>1 DEF GetStatus
        <4>2. <<"waited">> \o stack[t] = <<"waited">>
          BY <4>1
        <4> QED BY <4>1, <4>2 DEF Call
      <3>2. Enters(t, "waiting", "waited", 1, 0)
        BY <1>1, <1>2, <1>3, <1>6, <2>1, <3>1 DEF GetStatus, Enters
      <3> QED BY <1>6, <3>2 DEF GetStatus, PlainMove, Small
    <2>2. CASE ~attached[t]
      <3>1. Goto(t, "waited")
        BY <1>3, <1>6, <2>2 DEF GetStatus, Goto
      <3>2. Goes(t, "waited", 0, 0)
        BY <1>1, <1>2, <1>6, <2>2, <3>1 DEF GetStatus, Goes
      <3> QED BY <1>6, <3>2 DEF GetStatus, PlainMove, Small
    <2> QED BY <2>1, <2>2
  <1>7. CASE WaitReturns(t)
    <2>1. Goes(t, "release", 0, 0)
      BY <1>1, <1>2, <1>7 DEF WaitReturns, Goes
    <2> QED BY <1>7, <2>1 DEF WaitReturns, PlainMove, Small
  <1>8. CASE FetchResult(t) /\ Enter(t, "done", <<>>) /\ UNCHANGED asked
    <2>1. Goto(t, "done")
      BY <1>3, <1>8 DEF FetchResult, Goto
    <2>2. Goes(t, "done", 0, 0)
      BY <1>1, <1>2, <1>8, <2>1 DEF FetchResult, Goes
    <2> QED BY <1>8, <2>2 DEF FetchResult, PlainMove, Small
  <1> QED BY <1>4, <1>5, <1>6, <1>7, <1>8

LEMMA PlainStartWork ==
  ASSUME TypeInv, NEW t \in Threads, call[t] \in Calls, StartWork(t)
  PROVE  PlainMove(t)
  <1> USE DEF TypeInv
  <1>1. UNCHANGED refs => \A b \in Calls : refs'[b] = refs[b] + IF b = call[t] THEN 0 ELSE 0
    BY CountSteps
  <1>2. UNCHANGED arg => Writes(t) /\ arg'[t] = arg[t]
    BY WriteSteps
  <1>3. /\ \A p \in {"release", "working", "aborting"} :
              /\ Hit(p, Holding) = 1 /\ Hit(p, Twice) = 0 /\ Hit(p, Tokens) = 0
              /\ p \in Labels /\ p # "verify" /\ p # "complete" /\ p \notin Bottom
              /\ p \notin Special
        /\ Hit("cancel", Holding) = 0 /\ Hit("cancel", Twice) = 0 /\ Hit("cancel", Tokens) = 0
        /\ "cancel" \in Labels \ Bottom /\ "cancel" \notin Special /\ "aborting" \in Pushed
    BY DEF Hit, Holding, Twice, Tokens, Bottom, Pushed, Labels, Special
  <1>4. /\ UNCHANGED <<suspends, stage, queue, blockStatus, attached, refs, waitSatisfied,
                        signals, call, arg, asked>>
    BY DEF StartWork
  <1>5. Counted(t, 0, 0)
    <2>1. \A b \in Calls : refs'[b] = refs[b] + IF b = call[t] THEN 0 ELSE 0
      BY <1>1, <1>4
    <2>2. call'[t] = call[t]
      BY <1>4
    <2>3. UNCHANGED <<blockStatus, attached, queue, signals, waitSatisfied>>
      BY <1>4
    <2> QED BY <2>1, <2>2, <2>3 DEF Counted
  <1>6. /\ Writes(t) /\ UNCHANGED call /\ UNCHANGED <<suspends, stage, asked>>
    BY <1>2, <1>4
  <1>7. /\ pc[t] \in Labels \ Bottom /\ pc[t] \notin Special
         /\ Hit(pc[t], Holding) = 1 /\ Hit(pc[t], Twice) = 0 /\ Hit(pc[t], Tokens) = 0
    BY DEF StartWork, Hit, Holding, Twice, Tokens, Bottom, Labels, Special
  <1>8. CASE Goto(t, "release")
    <2>1. Goes(t, "release", 0, 0)
      BY <1>3, <1>5, <1>6, <1>7, <1>8 DEF Goes
    <2> QED BY <1>3, <1>6, <1>7, <2>1 DEF PlainMove, Small
  <1>9. CASE Call(t, "cancel", "aborting")
    <2>1. Enters(t, "cancel", "aborting", 0, 0)
      BY <1>3, <1>5, <1>6, <1>7, <1>9 DEF Enters
    <2> QED BY <1>3, <1>6, <1>7, <2>1 DEF PlainMove, Small
  <1>10. CASE Goto(t, "working")
    <2>1. Goes(t, "working", 0, 0)
      BY <1>3, <1>5, <1>6, <1>7, <1>10 DEF Goes
    <2> QED BY <1>3, <1>6, <1>7, <2>1 DEF PlainMove, Small
  <1> QED BY <1>8, <1>9, <1>10 DEF StartWork

LEMMA PlainWorker ==
  ASSUME TypeInv, NEW t \in Threads, call[t] \in Calls,
         \/ StartWork(t) \/ Abort(t) \/ ProviderDoWork(t) \/ EndWork(t) \/ CleanupAfterWork(t)
         \/ ClientCallback(t) /\ UNCHANGED asked /\ Goto(t, "satisfy")
         \/ SignalCompletion(t) /\ UNCHANGED <<refs, queue>>
                /\ (Goto(t, "dead") \/ Goto(t, "satisfy"))
         \/ Complete(t) /\ blockStatus[call[t]] # "pending"
  PROVE  PlainMove(t)
  <1> DEFINE a == call[t]
  <1> USE DEF TypeInv
  <1>1. /\ AddRef(a) => \A b \in Calls : refs'[b] = refs[b] + IF b = a THEN 1 ELSE 0
        /\ UNCHANGED refs => \A b \in Calls : refs'[b] = refs[b] + IF b = a THEN 0 ELSE 0
    BY CountSteps
  <1>2. /\ UNCHANGED arg => Writes(t) /\ arg'[t] = arg[t]
        /\ \A r \in Args : arg' = [arg EXCEPT ![t] = r] => Writes(t) /\ arg'[t] = r
    BY WriteSteps
  <1> HIDE DEF a
  <1> USE DEF Hit, Holding, Twice, Tokens, Bottom, Pushed, Labels, Special, Args, Counted
  <1>3. CASE StartWork(t)
    BY <1>3, PlainStartWork
  <1>4. CASE Abort(t)
    <2>1. CASE blockStatus[call[t]] = "abort"
      <3>1. Goes(t, "after", 0, 0)
        BY <1>1, <1>2, <1>4, <2>1 DEF Abort, Goes
      <3> QED BY <1>4, <3>1 DEF Abort, PlainMove, Small
    <2>2. CASE blockStatus[call[t]] # "abort"
      <3>1. Enters(t, "complete", "after", 0, 0)
        BY <1>1, <1>2, <1>4, <2>2 DEF Abort, Enters
      <3> QED BY <1>4, <3>1 DEF Abort, PlainMove, Small
    <2> QED BY <2>1, <2>2
  <1>5. CASE ProviderDoWork(t)
    BY <1>5, PlainProvider DEF ProviderDoWork
  <1>6. CASE EndWork(t)
    <2>1. CASE arg[t] = "pending"
      <3>1. Goes(t, "after", 0, 0)
        BY <1>1, <1>2, <1>6, <2>1 DEF EndWork, Goes
      <3> QED BY <1>6, <3>1 DEF EndWork, PlainMove, Small
    <2>2. CASE arg[t] # "pending"
      <3>1. Enters(t, "complete", "after", 0, 0)
        BY <1>1, <1>2, <1>6, <2>2 DEF EndWork, Enters
      <3> QED BY <1>6, <3>1 DEF EndWork, PlainMove, Small
    <2> QED BY <2>1, <2>2
  <1>7. CASE CleanupAfterWork(t)
    <2>1. Goes(t, "release", 0, 0)
      BY <1>1, <1>2, <1>7 DEF CleanupAfterWork, Goes
    <2> QED BY <1>7, <2>1 DEF CleanupAfterWork, PlainMove, Small
  <1>8. CASE ClientCallback(t) /\ UNCHANGED asked /\ Goto(t, "satisfy")
    <2>1. Goes(t, "satisfy", 0, 0)
      BY <1>1, <1>2, <1>8 DEF ClientCallback, Goes
    <2> QED BY <1>8, <2>1 DEF ClientCallback, PlainMove, Small
  <1>9. CASE SignalCompletion(t) /\ UNCHANGED <<refs, queue>>
                /\ (Goto(t, "dead") \/ Goto(t, "satisfy"))
    <2>1. /\ pc[t] = "signal" /\ Writes(t)
          /\ UNCHANGED <<status, suspends, stage, refs, queue, blockVars, stateVars, call, asked,
                         signals>>
      BY <1>2, <1>9 DEF SignalCompletion
    <2>2. CASE Goto(t, "dead")
      <3>1. Goes(t, "dead", 0, 0)
        BY <1>1, <2>1, <2>2 DEF Goes
      <3> QED BY <2>1, <3>1 DEF PlainMove, Small
    <2>3. CASE Goto(t, "satisfy")
      <3>1. Goes(t, "satisfy", 0, 0)
        BY <1>1, <2>1, <2>3 DEF Goes
      <3> QED BY <2>1, <3>1 DEF PlainMove, Small
    <2> QED BY <1>9, <2>2, <2>3
  <1>10. CASE Complete(t) /\ blockStatus[call[t]] # "pending"
    <2>1. /\ pc[t] = "complete" /\ Writes(t)
          /\ UNCHANGED <<suspends, stage, queue, blockVars, stateVars, call, asked, signals>>
          /\ \/ attached[a] /\ AddRef(a) /\ Goto(t, "release")
             \/ Return(t) /\ UNCHANGED refs
      BY <1>2, <1>10
         DEF Complete, CompleteWith, TrySetTerminalStatus, Goto, Return, a
    <2>2. CASE attached[a] /\ AddRef(a) /\ Goto(t, "release")
      <3>1. Goes(t, "release", 1, 0)
        BY <1>1, <2>1, <2>2 DEF Goes, a
      <3> QED BY <2>1, <3>1 DEF PlainMove, Small
    <2>3. CASE Return(t) /\ UNCHANGED refs
      <3>1. Leaves(t, 0, 0)
        BY <1>1, <2>1, <2>3 DEF Leaves
      <3> QED BY <2>1, <3>1 DEF PlainMove, Small
    <2> QED BY <2>1, <2>2, <2>3
  <1> QED BY <1>3, <1>4, <1>5, <1>6, <1>7, <1>8, <1>9, <1>10

-----------------------------------------------------------------------------
(* What the sums become, and what keeps the other parts of the invariant.   *)

LEMMA QueuedType ==
  ASSUME QueueOK, NEW p \in Ports, NEW a
  PROVE  Queued(a, p) \in Nat
  <1>1. queue[p] \in Seq(Calls)
    BY DEF QueueOK
  <1> QED BY <1>1, SpotsFinite DEF Queued

\* The terms of both sums are natural numbers.
LEMMA TermTypes ==
  ASSUME QueueOK, CallsOK, NEW a \in Calls
  PROVE  /\ Attached(a) \in {0, 1} /\ Pending(a) \in {0, 1} /\ signals[a] \in Nat
         /\ Queued(a, "Work") \in Nat /\ Queued(a, "Completion") \in Nat
         /\ Claims(a) \in Nat /\ Marks(a) \in Nat /\ refs[a] \in Int
         /\ Attached(a) <= Claims(a) /\ Queued(a, "Work") <= Claims(a)
         /\ Queued(a, "Completion") <= Claims(a)
         /\ Pending(a) <= Marks(a) /\ Queued(a, "Completion") <= Marks(a)
         /\ signals[a] <= Marks(a)
  <1>1. Queued(a, "Work") \in Nat /\ Queued(a, "Completion") \in Nat
    BY QueuedType DEF Ports
  <1>2. /\ Attached(a) \in {0, 1} /\ Pending(a) \in {0, 1} /\ signals[a] \in Nat
        /\ refs[a] \in Int
    BY DEF Attached, Pending, CallsOK
  <1> QED BY <1>1, <1>2 DEF Claims, Marks

LEMMA TermTypesNext ==
  ASSUME QueueOK', CallsOK', NEW a \in Calls
  PROVE  /\ Attached(a)' \in {0, 1} /\ Pending(a)' \in {0, 1} /\ signals'[a] \in Nat
         /\ Queued(a, "Work")' \in Nat /\ Queued(a, "Completion")' \in Nat
         /\ Claims(a)' \in Nat /\ Marks(a)' \in Nat /\ refs'[a] \in Int
         /\ Attached(a)' <= Claims(a)' /\ Queued(a, "Completion")' <= Claims(a)'
  <1>1. Queued(a, "Work")' \in Nat /\ Queued(a, "Completion")' \in Nat
    <2>1. queue'["Work"] \in Seq(Calls) /\ queue'["Completion"] \in Seq(Calls)
      BY DEF QueueOK, Ports
    <2> QED BY <2>1, SpotsFinite DEF Queued
  <1>2. /\ Attached(a)' \in {0, 1} /\ Pending(a)' \in {0, 1} /\ signals'[a] \in Nat
        /\ refs'[a] \in Int
    BY DEF Attached, Pending, CallsOK
  <1> QED BY <1>1, <1>2 DEF Claims, Marks

\* The references and the signs follow what the step adds to each of their terms.
LEMMA Balance ==
  ASSUME QueueOK, CallsOK, QueueOK', CallsOK', ReferencesOK,
         NEW t \in Threads, NEW h \in Int, NEW w \in Int, NEW k \in Int, Shift(t, h, w, k),
         NEW d \in Int, NEW e \in Int,
         \A a \in Calls : refs'[a] = refs[a] + IF a = call'[t] THEN h + w + d ELSE 0,
         \A a \in Calls : Claims(a)' = Claims(a) + IF a = call'[t] THEN d ELSE 0,
         \A a \in Calls : Marks(a)' = Marks(a) + IF a = call'[t] THEN e ELSE 0
  PROVE  /\ ReferencesOK'
         /\ \A a \in Calls : /\ Signs(a) \in Nat /\ Signs(a)' \in Nat
                             /\ Signs(a)' = Signs(a) + IF a = call'[t] THEN k + e ELSE 0
                             /\ refs[a] \in Nat /\ refs'[a] \in Nat
                             /\ Claims(a) <= refs[a] /\ Number(Tokens, a) <= Signs(a)
                             /\ Marks(a) <= Signs(a)
  <1>1. ASSUME NEW a \in Calls
        PROVE  /\ refs'[a] = References(a)'
               /\ Signs(a) \in Nat /\ Signs(a)' \in Nat
               /\ Signs(a)' = Signs(a) + IF a = call'[t] THEN k + e ELSE 0
               /\ refs[a] \in Nat /\ refs'[a] \in Nat
               /\ Claims(a) <= refs[a] /\ Number(Tokens, a) <= Signs(a)
               /\ Marks(a) <= Signs(a)
    <2>1. /\ Claims(a) \in Nat /\ Marks(a) \in Nat /\ Claims(a)' \in Nat /\ Marks(a)' \in Nat
      BY TermTypes, TermTypesNext
    <2>2. /\ Number(Holding, a) \in Nat /\ Number(Twice, a) \in Nat /\ Number(Tokens, a) \in Nat
          /\ Number(Holding, a)' \in Nat /\ Number(Twice, a)' \in Nat /\ Number(Tokens, a)' \in Nat
          /\ Number(Holding, a)' = Number(Holding, a) + IF a = call'[t] THEN h ELSE 0
          /\ Number(Twice, a)' = Number(Twice, a) + IF a = call'[t] THEN w ELSE 0
          /\ Number(Tokens, a)' = Number(Tokens, a) + IF a = call'[t] THEN k ELSE 0
      BY DEF Shift, Moves
    <2>3. /\ refs[a] = References(a)
          /\ refs'[a] = refs[a] + IF a = call'[t] THEN h + w + d ELSE 0
          /\ Claims(a)' = Claims(a) + IF a = call'[t] THEN d ELSE 0
          /\ Marks(a)' = Marks(a) + IF a = call'[t] THEN e ELSE 0
      BY DEF ReferencesOK
    <2>4. CASE a = call'[t]
      BY <2>1, <2>2, <2>3, <2>4 DEF References, Signs
    <2>5. CASE a # call'[t]
      BY <2>1, <2>2, <2>3, <2>5 DEF References, Signs
    <2> QED BY <2>4, <2>5
  <1> QED BY <1>1 DEF ReferencesOK

\* A steady step leaves the signs and what the block says alone.
LEMMA SteadySigns ==
  ASSUME TypeInv, QueueOK', CallsOK', ReferencesOK, SignsOK, NEW t \in Threads,
         NEW h \in {-1, 0, 1}, NEW w \in {-1, 0, 1}, Steady(t, h, w)
  PROVE  ReferencesOK' /\ SignsOK' /\ \A a \in Calls : Signs(a)' = Signs(a)
  <1> USE DEF TypeInv
  <1>1. /\ Shift(t, h, w, 0) /\ Alone(t) /\ pc'[t] # "verify"
        /\ UNCHANGED <<blockStatus, attached, queue, signals, waitSatisfied>>
        /\ \A a \in Calls : refs'[a] = refs[a] + IF a = call'[t] THEN h + w + 0 ELSE 0
        /\ h + w > 0 => attached[call'[t]]
    BY DEF Steady, Counted
  <1>2. \A a \in Calls : Claims(a) \in Nat /\ Marks(a) \in Nat
    BY TermTypes
  <1>3. \A a \in Calls : Claims(a)' = Claims(a) /\ Marks(a)' = Marks(a)
    BY <1>1 DEF Claims, Marks, Attached, Pending, Queued
  <1>4. \A a \in Calls : /\ Claims(a)' = Claims(a) + IF a = call'[t] THEN 0 ELSE 0
                         /\ Marks(a)' = Marks(a) + IF a = call'[t] THEN 0 ELSE 0
    BY <1>2, <1>3
  <1>5. /\ ReferencesOK'
        /\ \A a \in Calls : /\ Signs(a) \in Nat /\ Signs(a)' \in Nat
                            /\ Signs(a)' = Signs(a) + IF a = call'[t] THEN 0 + 0 ELSE 0
                            /\ refs[a] \in Nat /\ refs'[a] \in Nat
    BY <1>1, <1>4, Balance
  <1>6. \A a \in Calls : Signs(a)' = Signs(a)
    BY <1>5
  <1>7. ASSUME NEW a \in Calls
        PROVE  /\ Signs(a)' <= 1
               /\ blockStatus'[a] = "none" => Signs(a)' = 0 /\ refs'[a] = 0 /\ ~attached'[a]
               /\ pc'[a] = "verify" => blockStatus'[a] = "none"
               /\ blockStatus'[a] = "pending" => attached'[a]
               /\ waitSatisfied'[a] <=> signals'[a] > 0
               /\ Signs(a)' = 0 => refs'[a] = 0
    <2>1. Signs(a) = 0 => refs'[a] = 0
      <3>1. attached[a] => refs[a] > 0
        <4>1. /\ Queued(a, "Work") \in Nat /\ Queued(a, "Completion") \in Nat
              /\ Claims(a) <= refs[a]
          BY <1>1, <1>4, Balance, TermTypes
        <4> QED BY <1>5, <4>1 DEF Claims, Attached
      <3>2. Signs(a) = 0 => refs[a] = 0
        BY DEF SignsOK
      <3> QED BY <1>1, <1>5, <3>1, <3>2
    <2>2. pc'[a] = "verify" => pc[a] = "verify"
      BY <1>1 DEF Alone, Threads
    <2> QED BY <1>1, <1>6, <2>1, <2>2 DEF SignsOK
  <1> QED BY <1>5, <1>6, <1>7 DEF SignsOK

\* A thread that does not come to fetch a result disturbs nobody who does.
LEMMA FetchStill ==
  ASSUME ControlOK, FetchOK, NEW t \in Threads, Alone(t), pc'[t] \notin {"result", "fetch"},
         \A a \in Calls : asked[a] => asked'[a],
         \A a \in Calls : attached[a] /\ blockStatus[a] # "pending" =>
                             attached'[a] /\ blockStatus'[a] # "pending"
  PROVE  FetchOK'
  <1>1. ASSUME NEW u \in Threads, Fetches(u)'
        PROVE  /\ u # t /\ Fetches(u) /\ pc'[u] = pc[u] /\ call'[u] = call[u]
               /\ call[u] \in Calls
    BY <1>1 DEF Alone, Fetches, ControlOK
  <1>2. ASSUME NEW u \in Threads, Fetches(u)'
        PROVE  /\ asked'[call'[u]]
               /\ pc'[u] = "fetch" => attached'[call'[u]] /\ blockStatus'[call'[u]] # "pending"
               /\ \A v \in Threads : Fetches(v)' /\ call'[v] = call'[u] => v = u
    BY <1>1, <1>2 DEF FetchOK
  <1> QED BY <1>2 DEF FetchOK

\* A thread that has nothing to do with the suspends leaves them alone.
LEMMA SuspendStill ==
  ASSUME SuspendOK, NEW t \in Threads, Alone(t),
         pc[t] \in {"verify", "resume"} <=> pc'[t] \in {"verify", "resume"},
         \A a \in Calls : Signs(a)' = Signs(a), UNCHANGED <<suspends, stage, waitSatisfied>>
  PROVE  SuspendOK'
  <1>1. Suspending' = Suspending
    BY DEF Suspending, Alone
  <1>2. Outstanding' = Outstanding
    BY DEF Outstanding
  <1>3. Staged("Work")' = Staged("Work") /\ Staged("Completion")' = Staged("Completion")
    BY DEF Staged
  <1> QED BY <1>1, <1>2, <1>3 DEF SuspendOK

LEMMA PlainKeeps ==
  ASSUME TypeInv, QueueOK', CallsOK', CallInv, NEW t \in Threads, PlainStep(t)
  PROVE  ControlOK' /\ CallInv'
  <1>1. PICK h, w \in {-1, 0, 1} : Steady(t, h, w)
    BY DEF PlainStep
  <1>2. ControlOK' /\ Alone(t) /\ UNCHANGED <<blockStatus, attached, waitSatisfied>>
    BY <1>1 DEF Steady, Counted
  <1>3. ReferencesOK' /\ SignsOK' /\ \A a \in Calls : Signs(a)' = Signs(a)
    BY <1>1, SteadySigns DEF CallInv
  <1>4. /\ pc[t] \notin Special /\ pc'[t] \notin Special
        /\ UNCHANGED <<suspends, stage, asked>>
    BY DEF PlainStep, Plain
  <1>5. FetchOK'
    BY <1>2, <1>4, FetchStill DEF CallInv, TypeInv, Special
  <1>6. SuspendOK'
    BY <1>2, <1>3, <1>4, SuspendStill DEF CallInv, Special
  <1> QED BY <1>2, <1>3, <1>5, <1>6 DEF CallInv

-----------------------------------------------------------------------------
(* The steps of an idle thread that begins to work for a call.              *)

LEMMA TwoFrames ==
  ASSUME NEW b \in Pushed
  PROVE  <<b>> \o <<"idle">> = <<b, "idle">>
  <1> DEFINE u == <<b>>
             v == <<"idle">>
             x == <<b, "idle">>
  <1>1. /\ u \in Seq(Pushed) /\ Len(u) = 1 /\ u[1] = b
        /\ v \in Seq(Pushed) /\ Len(v) = 1 /\ v[1] = "idle"
        /\ x \in Seq(Pushed) /\ Len(x) = 2 /\ x[1] = b /\ x[2] = "idle"
    BY DEF Pushed
  <1> HIDE DEF u, v, x
  <1>2. /\ u \o v \in Seq(Pushed) /\ Len(u \o v) = Len(u) + Len(v)
        /\ \A n \in 1 .. Len(u) + Len(v) :
              (u \o v)[n] = IF n <= Len(u) THEN u[n] ELSE v[n - Len(u)]
    BY <1>1, ConcatProperties
  <1>3. Len(u \o v) = Len(x) /\ \A n \in 1 .. Len(x) : (u \o v)[n] = x[n]
    BY <1>1, <1>2
  <1>4. u \o v = x
    BY <1>1, <1>2, <1>3, SeqEqual
  <1> QED BY <1>4 DEF u, v, x

LEMMA FirstFrames ==
  /\ WellNested("idle", <<>>)
  /\ \A q \in Labels \ Bottom : WellNested(q, <<"idle">>)
  /\ \A q \in Labels \ Bottom, b \in Pushed \ Bottom : WellNested(q, <<b, "idle">>)
  /\ \A S : "idle" \notin S =>
        /\ Weight(S, <<>>) = 0 /\ Weight(S, <<"idle">>) = 0
        /\ \A b \in Pushed : Weight(S, <<b, "idle">>) = Hit(b, S)
  <1>1. WellNested("idle", <<>>)
    BY DEF WellNested, Labels, Bottom
  <1>2. <<"idle">> \o <<>> = <<"idle">> /\ \A b \in Pushed : <<b>> \o <<"idle">> = <<b, "idle">>
    <2>1. <<"idle">> \o <<>> = <<"idle">>
      OBVIOUS
    <2> QED BY <2>1, TwoFrames
  <1>3. "idle" \in Bottom /\ "idle" \in Pushed /\ "idle" \in Labels /\ Pushed \subseteq Labels
    BY DEF Bottom, Pushed, Labels
  <1>4. ASSUME NEW q \in Labels \ Bottom
        PROVE  WellNested(q, <<"idle">>)
    <2>1. WellNested(q, <<"idle">> \o <<>>)
      BY <1>1, <1>3, NestedPush
    <2> QED BY <2>1, <1>2
  <1>5. ASSUME NEW q \in Labels \ Bottom, NEW b \in Pushed \ Bottom
        PROVE  WellNested(q, <<b, "idle">>)
    <2>1. WellNested(q, <<"idle">>)
      BY <1>4
    <2>2. WellNested(q, <<b>> \o <<"idle">>)
      BY <2>1, NestedPush
    <2> QED BY <2>2, <1>2
  <1>6. ASSUME NEW S, "idle" \notin S
        PROVE  /\ Weight(S, <<>>) = 0 /\ Weight(S, <<"idle">>) = 0
               /\ \A b \in Pushed : Weight(S, <<b, "idle">>) = Hit(b, S)
    <2>1. Weight(S, <<>>) = 0
      BY WeightEmpty
    <2>2. <<>> \in Seq(Labels) /\ <<"idle">> \in Seq(Labels)
      BY <1>3
    <2>3. Weight(S, <<"idle">> \o <<>>) = Weight(S, <<>>) + Hit("idle", S)
      BY <1>3, <2>2, WeightPush
    <2>4. Weight(S, <<"idle">>) = 0
      BY <1>2, <1>6, <2>1, <2>3 DEF Hit
    <2>5. ASSUME NEW b \in Pushed
          PROVE  Weight(S, <<b, "idle">>) = Hit(b, S)
      <3> DEFINE s == <<b>> \o <<"idle">>
                 w == Weight(S, s)
      <3>1. w = Weight(S, <<"idle">>) + Hit(b, S)
        BY <1>3, <2>2, WeightPush
      <3>2. s = <<b, "idle">>
        BY <1>2
      <3>3. Hit(b, S) \in {0, 1}
        BY HitType
      <3> HIDE DEF s
      <3>4. Weight(S, <<b, "idle">>) = w
        BY <3>2
      <3> HIDE DEF w
      <3> QED BY <2>4, <3>1, <3>3, <3>4
    <2> QED BY <2>1, <2>4, <2>5
  <1> QED BY <1>1, <1>4, <1>5, <1>6

LEMMA IdleSets == "idle" \notin Holding /\ "idle" \notin Twice /\ "idle" \notin Tokens
  BY DEF Holding, Twice, Tokens

LEMMA StartFrames ==
  ASSUME ControlOK, NEW t \in Threads \ Calls, NEW c \in Calls, pc[t] = "idle",
         call' = [call EXCEPT ![t] = c], UNCHANGED arg
  PROVE  /\ Enter(t, "idle", <<>>) =>
              ControlOK' /\ Alone(t) /\ pc'[t] = "idle" /\ call'[t] = c /\ Shift(t, 0, 0, 0)
         /\ \A q \in Labels \ (Bottom \cup {"complete"}) : Enter(t, q, <<"idle">>) =>
              /\ ControlOK' /\ Alone(t) /\ pc'[t] = q /\ call'[t] = c
              /\ Shift(t, Hit(q, Holding) + 0, Hit(q, Twice) + 0, Hit(q, Tokens) + 0)
         /\ \A q \in Labels \ (Bottom \cup {"complete"}), b \in Pushed \ Bottom :
              Enter(t, q, <<b, "idle">>) =>
              /\ ControlOK' /\ Alone(t) /\ pc'[t] = q /\ call'[t] = c
              /\ Shift(t, Hit(q, Holding) + Hit(b, Holding), Hit(q, Twice) + Hit(b, Twice),
                       Hit(q, Tokens) + Hit(b, Tokens))
  <1>1. Writes(t)
    BY WriteSteps
  <1>2. ASSUME Enter(t, "idle", <<>>)
        PROVE  ControlOK' /\ Alone(t) /\ pc'[t] = "idle" /\ call'[t] = c /\ Shift(t, 0, 0, 0)
    <2>1. Weight(Holding, <<>>) = 0 /\ Weight(Twice, <<>>) = 0 /\ Weight(Tokens, <<>>) = 0
      BY FirstFrames, IdleSets
    <2>2. /\ ControlOK' /\ Alone(t) /\ pc'[t] = "idle" /\ call'[t] = c
          /\ Shift(t, Hit("idle", Holding) + Weight(Holding, <<>>),
                   Hit("idle", Twice) + Weight(Twice, <<>>),
                   Hit("idle", Tokens) + Weight(Tokens, <<>>))
      <3>1. WellNested("idle", <<>>) /\ "idle" \in Labels
        BY FirstFrames DEF Labels
      <3> QED BY <1>1, <1>2, <3>1, StartMove
    <2>3. Hit("idle", Holding) = 0 /\ Hit("idle", Twice) = 0 /\ Hit("idle", Tokens) = 0
      BY IdleSets DEF Hit
    <2> QED BY <2>1, <2>2, <2>3
  <1>3. ASSUME NEW q \in Labels \ (Bottom \cup {"complete"}), Enter(t, q, <<"idle">>)
        PROVE  /\ ControlOK' /\ Alone(t) /\ pc'[t] = q /\ call'[t] = c
               /\ Shift(t, Hit(q, Holding) + 0, Hit(q, Twice) + 0, Hit(q, Tokens) + 0)
    <2>1. /\ Weight(Holding, <<"idle">>) = 0 /\ Weight(Twice, <<"idle">>) = 0
          /\ Weight(Tokens, <<"idle">>) = 0 /\ WellNested(q, <<"idle">>)
      BY FirstFrames, IdleSets
    <2>2. /\ ControlOK' /\ Alone(t) /\ pc'[t] = q /\ call'[t] = c
          /\ Shift(t, Hit(q, Holding) + Weight(Holding, <<"idle">>),
                   Hit(q, Twice) + Weight(Twice, <<"idle">>),
                   Hit(q, Tokens) + Weight(Tokens, <<"idle">>))
      BY <1>1, <1>3, <2>1, StartMove
    <2> QED BY <2>1, <2>2
  <1>4. ASSUME NEW q \in Labels \ (Bottom \cup {"complete"}), NEW b \in Pushed \ Bottom,
               Enter(t, q, <<b, "idle">>)
        PROVE  /\ ControlOK' /\ Alone(t) /\ pc'[t] = q /\ call'[t] = c
               /\ Shift(t, Hit(q, Holding) + Hit(b, Holding), Hit(q, Twice) + Hit(b, Twice),
                        Hit(q, Tokens) + Hit(b, Tokens))
    <2>1. /\ Weight(Holding, <<b, "idle">>) = Hit(b, Holding)
          /\ Weight(Twice, <<b, "idle">>) = Hit(b, Twice)
          /\ Weight(Tokens, <<b, "idle">>) = Hit(b, Tokens) /\ WellNested(q, <<b, "idle">>)
      BY FirstFrames, IdleSets
    <2>2. /\ ControlOK' /\ Alone(t) /\ pc'[t] = q /\ call'[t] = c
          /\ Shift(t, Hit(q, Holding) + Weight(Holding, <<b, "idle">>),
                   Hit(q, Twice) + Weight(Twice, <<b, "idle">>),
                   Hit(q, Tokens) + Weight(Tokens, <<b, "idle">>))
      BY <1>1, <1>4, <2>1, StartMove
    <2> QED BY <2>1, <2>2
  <1> QED BY <1>2, <1>3, <1>4

-----------------------------------------------------------------------------
(* The other steps move what is counted: a thread gives a reference to the  *)
(* block or to a queue or takes it from there, and a sign goes from one of  *)
(* its places to the next.                                                  *)

\* h, w and k are what the step adds to the frames of the thread, d and e what it adds
\* to the references and the signs elsewhere.
Tallies(t, h, w, k, d, e) ==
    /\ Shift(t, h, w, k)
    /\ \A a \in Calls : refs'[a] = refs[a] + IF a = call'[t] THEN h + w + d ELSE 0
    /\ \A a \in Calls : Claims(a)' = Claims(a) + IF a = call'[t] THEN d ELSE 0
    /\ \A a \in Calls : Marks(a)' = Marks(a) + IF a = call'[t] THEN e ELSE 0

\* The step begins no call and signals none.
Calm(t) ==
    /\ pc'[t] # "verify" /\ UNCHANGED <<waitSatisfied, signals>>
    /\ \A a \in Calls :
          /\ blockStatus'[a] = "none" <=> blockStatus[a] = "none"
          /\ attached'[a] => attached[a]
          /\ blockStatus'[a] = "pending" => blockStatus[a] = "pending" /\ attached'[a]

\* What the step adds to the signs in one place it takes away in another, and a call
\* without a sign gets no reference.
Conserves(t) ==
    \E h, w, k, d, e \in Int :
        /\ Tallies(t, h, w, k, d, e) /\ k + e = 0
        /\ h + w + d = 0 \/ Signs(call'[t]) # 0

LEMMA SignsKept ==
  ASSUME TypeInv, QueueOK', CallsOK', CallInv, NEW t \in Threads, Alone(t), Calm(t),
         Conserves(t)
  PROVE  ReferencesOK' /\ SignsOK' /\ \A a \in Calls : Signs(a)' = Signs(a)
  <1> USE DEF TypeInv
  <1> PICK h, w, k, d, e \in Int :
        /\ Tallies(t, h, w, k, d, e) /\ k + e = 0
        /\ h + w + d = 0 \/ Signs(call'[t]) # 0
    BY DEF Conserves
  <1>1. /\ ReferencesOK'
        /\ \A a \in Calls : /\ Signs(a) \in Nat /\ Signs(a)' \in Nat
                            /\ Signs(a)' = Signs(a) + IF a = call'[t] THEN k + e ELSE 0
                            /\ refs[a] \in Nat /\ refs'[a] \in Nat
    <2>1. /\ Shift(t, h, w, k) /\ QueueOK /\ CallsOK /\ ReferencesOK
          /\ \A a \in Calls : refs'[a] = refs[a] + IF a = call'[t] THEN h + w + d ELSE 0
          /\ \A a \in Calls : Claims(a)' = Claims(a) + IF a = call'[t] THEN d ELSE 0
          /\ \A a \in Calls : Marks(a)' = Marks(a) + IF a = call'[t] THEN e ELSE 0
      BY DEF Tallies, CallInv
    <2> QED BY <2>1, Balance
  <1>2. \A a \in Calls : Signs(a)' = Signs(a)
    BY <1>1
  <1>3. ASSUME NEW a \in Calls
        PROVE  /\ Signs(a)' <= 1
               /\ blockStatus'[a] = "none" => Signs(a)' = 0 /\ refs'[a] = 0 /\ ~attached'[a]
               /\ pc'[a] = "verify" => blockStatus'[a] = "none"
               /\ blockStatus'[a] = "pending" => attached'[a]
               /\ waitSatisfied'[a] <=> signals'[a] > 0
               /\ Signs(a)' = 0 => refs'[a] = 0
    <2>1. Signs(a) = 0 => refs'[a] = 0
      BY <1>1 DEF SignsOK, CallInv, Tallies
    <2>2. pc'[a] = "verify" => pc[a] = "verify"
      BY DEF Alone, Threads, Calm
    <2> QED BY <1>2, <2>1, <2>2 DEF SignsOK, CallInv, Calm
  <1> QED BY <1>1, <1>2, <1>3 DEF SignsOK

\* Nor has it to do with the suspends or with the result.
Quiet(t) ==
    /\ Calm(t) /\ pc[t] \notin {"verify", "resume"} /\ pc'[t] \notin Special
    /\ UNCHANGED <<suspends, stage, asked>>
    /\ \A a \in Calls : attached[a] /\ blockStatus[a] # "pending" =>
                           attached'[a] /\ blockStatus'[a] # "pending"

LEMMA QuietKeeps ==
  ASSUME TypeInv, QueueOK', CallsOK', CallInv, NEW t \in Threads, Alone(t), Quiet(t),
         Conserves(t)
  PROVE  CallInv'
  <1>1. ReferencesOK' /\ SignsOK' /\ \A a \in Calls : Signs(a)' = Signs(a)
    BY SignsKept DEF Quiet
  <1>2. FetchOK'
    BY FetchStill DEF Quiet, TypeInv, CallInv, Special
  <1>3. SuspendOK'
    BY <1>1, SuspendStill DEF Quiet, Calm, CallInv, Special
  <1> QED BY <1>1, <1>2, <1>3 DEF CallInv

\* The blocks are left alone.
LEMMA CalmBlocks ==
  ASSUME CallInv, NEW t, pc'[t] # "verify",
         UNCHANGED <<blockStatus, attached, waitSatisfied, signals>>
  PROVE  /\ Calm(t)
         /\ \A a \in Calls : attached[a] /\ blockStatus[a] # "pending" =>
                                attached'[a] /\ blockStatus'[a] # "pending"
  BY DEF Calm, CallInv, SignsOK

LEMMA QueuedSubmit ==
  ASSUME QueueOK, NEW p \in Ports, NEW c \in Calls, Submit(p, c)
  PROVE  \A a : /\ Queued(a, p)' = Queued(a, p) + IF a = c THEN 1 ELSE 0
                /\ \A r \in Ports \ {p} : Queued(a, r)' = Queued(a, r)
  <1>1. /\ queue[p] \in Seq(Calls) /\ queue'[p] = Append(queue[p], c)
        /\ \A r \in Ports \ {p} : queue'[r] = queue[r]
    BY DEF QueueOK, Submit
  <1> QED BY <1>1, SpotsAppend DEF Queued

LEMMA QueuedPop ==
  ASSUME QueueOK, NEW p \in Ports, queue[p] # <<>>, queue' = [queue EXCEPT ![p] = Tail(@)]
  PROVE  /\ Head(queue[p]) \in Calls
         /\ \A a : /\ Queued(a, p)' = Queued(a, p) - IF a = Head(queue[p]) THEN 1 ELSE 0
                   /\ \A r \in Ports \ {p} : Queued(a, r)' = Queued(a, r)
  <1>1. /\ queue[p] \in Seq(Calls) /\ queue'[p] = Tail(queue[p])
        /\ \A r \in Ports \ {p} : queue'[r] = queue[r]
    BY DEF QueueOK
  <1>2. Head(queue[p]) \in Calls
    BY <1>1
  <1> QED BY <1>1, <1>2, SpotsTail DEF Queued

\* What is counted apart from frames is left alone.
LEMMA SameClaims ==
  ASSUME QueueOK, CallsOK, NEW c, UNCHANGED <<queue, blockStatus, attached, signals>>
  PROVE  \A a \in Calls : /\ Claims(a)' = Claims(a) + IF a = c THEN 0 ELSE 0
                          /\ Marks(a)' = Marks(a) + IF a = c THEN 0 ELSE 0
  <1>1. \A a \in Calls : Claims(a) \in Nat /\ Marks(a) \in Nat
    BY TermTypes
  <1>2. \A a \in Calls : Claims(a)' = Claims(a) /\ Marks(a)' = Marks(a)
    BY DEF Claims, Marks, Attached, Pending, Queued
  <1> QED BY <1>1, <1>2

LEMMA OtherThreads ==
  \A t \in Workers \cup Notifiers \cup Cancelers \cup Outsiders : t \in Threads \ Calls
  BY CallAssumption DEF Threads

\* XAsyncCancel is called.
LEMMA StartCancelKeeps ==
  ASSUME TypeInv, QueueOK', CallsOK', CallInv, NEW x \in Cancelers, NEW a \in Calls,
         StartCancel(x, a)
  PROVE  ControlOK' /\ CallInv'
  <1>1. x \in Threads \ Calls
    BY OtherThreads
  <1>2. /\ pc[x] = "idle" /\ call' = [call EXCEPT ![x] = a] /\ Enter(x, "cancel", <<"idle">>)
        /\ UNCHANGED <<arg, refs, queue, blockStatus, attached, signals, waitSatisfied>>
        /\ UNCHANGED <<suspends, stage, asked>>
    BY DEF StartCancel
  <1>3. /\ Hit("cancel", Holding) = 0 /\ Hit("cancel", Twice) = 0 /\ Hit("cancel", Tokens) = 0
        /\ "cancel" \in Labels \ (Bottom \cup {"complete"}) /\ "cancel" \notin Special
    BY DEF Hit, Holding, Twice, Tokens, Labels, Bottom, Special
  <1>4. ControlOK' /\ Alone(x) /\ pc'[x] = "cancel" /\ call'[x] = a /\ Shift(x, 0, 0, 0)
    <2>1. /\ ControlOK' /\ Alone(x) /\ pc'[x] = "cancel" /\ call'[x] = a
          /\ Shift(x, Hit("cancel", Holding) + 0, Hit("cancel", Twice) + 0,
                   Hit("cancel", Tokens) + 0)
      BY <1>1, <1>2, <1>3, StartFrames DEF TypeInv
    <2> QED BY <2>1, <1>3
  <1>5. Conserves(x)
    <2>1. \A b \in Calls : refs'[b] = refs[b] + IF b = call'[x] THEN 0 + 0 + 0 ELSE 0
      BY <1>2 DEF TypeInv, CallsOK
    <2>2. Tallies(x, 0, 0, 0, 0, 0)
      BY <1>2, <1>4, <2>1, SameClaims DEF Tallies, TypeInv
    <2>3. 0 \in Int /\ 0 + 0 = 0 /\ 0 + 0 + 0 = 0
      OBVIOUS
    <2> QED BY <2>2, <2>3, Zenon DEF Conserves
  <1>6. Quiet(x)
    BY <1>2, <1>3, <1>4, CalmBlocks DEF Quiet, Special
  <1>7. CallInv'
    BY <1>1, <1>4, <1>5, <1>6, QuietKeeps
  <1> QED BY <1>4, <1>7

\* The first XAsyncComplete of a call; its thread is about to signal the completion.
LEMMA WinKeeps ==
  ASSUME TypeInv, QueueOK', CallsOK', CallInv, NEW t \in Threads, NEW c \in Calls,
         Alone(t), call'[t] = c, pc[t] \notin {"verify", "resume"}, pc'[t] = "signal",
         NEW r \in Args \ {"pending"}, TrySetTerminalStatus(c, r), AddRef(c),
         UNCHANGED <<suspends, stage, asked, waitSatisfied, signals, queue>>,
         \/ UNCHANGED attached /\ Shift(t, 1, 0, 1)
         \/ attached' = [attached EXCEPT ![c] = FALSE] /\ Shift(t, 1, 1, 1)
  PROVE  CallInv'
  <1> USE DEF TypeInv
  <1>1. /\ blockStatus[c] = "pending" /\ attached[c]
        /\ blockStatus'[c] \notin {"none", "pending"}
        /\ \A a \in Calls \ {c} : blockStatus'[a] = blockStatus[a] /\ attached'[a] = attached[a]
    BY DEF TrySetTerminalStatus, CallsOK, CallInv, SignsOK, Args
  <1>2. \A a \in Calls : refs'[a] = refs[a] + IF a = c THEN 1 ELSE 0
    BY CountSteps
  <1>3. \A a \in Calls : Marks(a)' = Marks(a) + IF a = call'[t] THEN -1 ELSE 0
    <2>1. \A a \in Calls : Marks(a) \in Nat /\ Queued(a, "Completion") \in Nat /\ signals[a] \in Nat
      BY TermTypes
    <2>2. \A a \in Calls : Queued(a, "Completion")' = Queued(a, "Completion")
      BY DEF Queued
    <2>3. \A a \in Calls : /\ Pending(a) \in {0, 1}
                           /\ Pending(a)' = Pending(a) + IF a = c THEN -1 ELSE 0
      BY <1>1 DEF Pending
    <2> QED BY <2>1, <2>2, <2>3 DEF Marks
  <1>4. Quiet(t)
    BY <1>1 DEF Quiet, Calm, Special, CallInv, SignsOK
  <1>5. Signs(call'[t]) # 0
    <2>1. /\ Number(Tokens, c) \in Nat /\ Queued(c, "Completion") \in Nat
          /\ signals[c] \in Nat
      BY TermTypes DEF Shift, Moves
    <2> QED BY <1>1, <2>1 DEF Signs, Marks, Pending
  <1>6. CASE UNCHANGED attached /\ Shift(t, 1, 0, 1)
    <2>1. \A a \in Calls : Claims(a)' = Claims(a) + IF a = call'[t] THEN 0 ELSE 0
      <3>1. \A a \in Calls : Claims(a) \in Nat
        BY TermTypes
      <3>2. \A a \in Calls : Claims(a)' = Claims(a)
        BY <1>6 DEF Claims, Attached, Queued
      <3> QED BY <3>1, <3>2
    <2>2. \A a \in Calls : refs'[a] = refs[a] + IF a = call'[t] THEN 1 + 0 + 0 ELSE 0
      BY <1>2
    <2>3. Tallies(t, 1, 0, 1, 0, -1)
      BY <1>3, <1>6, <2>1, <2>2 DEF Tallies
    <2>4. Conserves(t)
      <3>1. 0 \in Int /\ 1 \in Int /\ -1 \in Int /\ 1 + (-1) = 0
        OBVIOUS
      <3> QED BY <1>5, <2>3, <3>1, Zenon DEF Conserves
    <2> QED BY <1>4, <2>4, QuietKeeps
  <1>7. CASE attached' = [attached EXCEPT ![c] = FALSE] /\ Shift(t, 1, 1, 1)
    <2>1. \A a \in Calls : Claims(a)' = Claims(a) + IF a = call'[t] THEN -1 ELSE 0
      <3>1. \A a \in Calls : Queued(a, "Work") \in Nat /\ Queued(a, "Completion") \in Nat
        BY TermTypes
      <3>2. \A a \in Calls : /\ Queued(a, "Completion")' = Queued(a, "Completion")
                             /\ Queued(a, "Work")' = Queued(a, "Work")
        BY DEF Queued
      <3>3. \A a \in Calls : /\ Attached(a) \in {0, 1}
                             /\ Attached(a)' = Attached(a) + IF a = c THEN -1 ELSE 0
        BY <1>1, <1>7 DEF Attached, CallsOK
      <3> QED BY <3>1, <3>2, <3>3 DEF Claims
    <2>2. \A a \in Calls : refs'[a] = refs[a] + IF a = call'[t] THEN 1 + 1 + (-1) ELSE 0
      BY <1>2
    <2>3. Tallies(t, 1, 1, 1, -1, -1)
      BY <1>3, <1>7, <2>1, <2>2 DEF Tallies
    <2>4. Conserves(t)
      <3>1. 1 \in Int /\ -1 \in Int /\ 1 + (-1) = 0
        OBVIOUS
      <3> QED BY <1>5, <2>3, <3>1, Zenon DEF Conserves
    <2> QED BY <1>4, <2>4, QuietKeeps
  <1> QED BY <1>6, <1>7

LEMMA CompleteKeeps ==
  ASSUME TypeInv, QueueOK', CallsOK', CallInv, NEW t \in Threads, Complete(t)
  PROVE  ControlOK' /\ CallInv'
  <1> DEFINE c == call[t]
  <1>1. pc[t] = "complete" /\ c \in Calls /\ arg[t] \in Args \ {"pending"}
    BY DEF Complete, TypeInv, ControlOK
  <1>2. CASE blockStatus[c] # "pending"
    <2>1. PlainStep(t)
      BY <1>1, <1>2, PlainWorker, PlainMoves DEF TypeInv
    <2> QED BY <2>1, PlainKeeps
  <1>3. CASE blockStatus[c] = "pending"
    <2>1. /\ TrySetTerminalStatus(c, arg[t]) /\ AddRef(c)
          /\ \/ UNCHANGED attached /\ Call(t, "signal", "release")
             \/ attached' = [attached EXCEPT ![c] = FALSE] /\ Call(t, "signal", "settle")
      BY <1>3 DEF Complete, CompleteWith, Call
    <2>2. /\ UNCHANGED <<suspends, stage, asked, waitSatisfied, signals, queue, call>>
          /\ arg' = [arg EXCEPT ![t] = "ok"]
      BY DEF Complete
    <2>3. /\ Hit("complete", Holding) = 0 /\ Hit("complete", Twice) = 0
          /\ Hit("complete", Tokens) = 0
          /\ Hit("signal", Holding) = 0 /\ Hit("signal", Twice) = 0 /\ Hit("signal", Tokens) = 1
          /\ Hit("release", Holding) = 1 /\ Hit("release", Twice) = 0
          /\ Hit("release", Tokens) = 0
          /\ Hit("settle", Holding) = 1 /\ Hit("settle", Twice) = 1 /\ Hit("settle", Tokens) = 0
          /\ "signal" \in Labels \ Bottom /\ {"release", "settle"} \subseteq Pushed \ Bottom
          /\ "complete" \notin Bottom
      BY DEF Hit, Holding, Twice, Tokens, Bottom, Labels, Pushed
    <2>4. Writes(t) /\ UNCHANGED call /\ ("signal" = "complete" => arg'[t] # "pending")
      BY <2>2, WriteSteps DEF TypeInv, Args
    <2>5. CASE UNCHANGED attached /\ Call(t, "signal", "release")
      <3>1. /\ ControlOK' /\ Alone(t) /\ pc'[t] = "signal"
            /\ Shift(t, Hit("signal", Holding) + Hit("release", Holding) - Hit(pc[t], Holding),
                     Hit("signal", Twice) + Hit("release", Twice) - Hit(pc[t], Twice),
                     Hit("signal", Tokens) + Hit("release", Tokens) - Hit(pc[t], Tokens))
        BY <1>1, <2>3, <2>4, <2>5, CallMove DEF TypeInv
      <3>2. Shift(t, 1, 0, 1)
        BY <1>1, <2>3, <3>1
      <3> QED BY <1>1, <2>1, <2>2, <2>5, <3>1, <3>2, WinKeeps
    <2>6. CASE attached' = [attached EXCEPT ![c] = FALSE] /\ Call(t, "signal", "settle")
      <3>1. /\ ControlOK' /\ Alone(t) /\ pc'[t] = "signal"
            /\ Shift(t, Hit("signal", Holding) + Hit("settle", Holding) - Hit(pc[t], Holding),
                     Hit("signal", Twice) + Hit("settle", Twice) - Hit(pc[t], Twice),
                     Hit("signal", Tokens) + Hit("settle", Tokens) - Hit(pc[t], Tokens))
        BY <1>1, <2>3, <2>4, <2>6, CallMove DEF TypeInv
      <3>2. Shift(t, 1, 1, 1)
        BY <1>1, <2>3, <3>1
      <3> QED BY <1>1, <2>1, <2>2, <2>6, <3>1, <3>2, WinKeeps
    <2> QED BY <2>1, <2>5, <2>6
  <1> QED BY <1>2, <1>3

\* What a provider has started completes the call on a thread of its own.
LEMMA OutsiderKeeps ==
  ASSUME TypeInv, QueueOK', CallsOK', CallInv, NEW o \in Outsiders, NEW a \in Calls,
         OutsiderCompletes(o, a)
  PROVE  ControlOK' /\ CallInv'
  <1>1. o \in Threads \ Calls
    BY OtherThreads
  <1>2. PICK r \in ProviderResults : CompleteWith(o, a, r, <<"idle">>)
    BY DEF OutsiderCompletes
  <1>3. r \in Args \ {"pending"}
    BY CallAssumption DEF Args
  <1>4. /\ pc[o] = "idle" /\ call' = [call EXCEPT ![o] = a] /\ UNCHANGED arg
        /\ UNCHANGED <<suspends, stage, asked, waitSatisfied, signals, queue>>
    BY DEF OutsiderCompletes
  <1>5. /\ Hit("signal", Holding) = 0 /\ Hit("signal", Twice) = 0 /\ Hit("signal", Tokens) = 1
        /\ Hit("release", Holding) = 1 /\ Hit("release", Twice) = 0 /\ Hit("release", Tokens) = 0
        /\ Hit("settle", Holding) = 1 /\ Hit("settle", Twice) = 1 /\ Hit("settle", Tokens) = 0
        /\ {"signal", "release"} \subseteq Labels \ (Bottom \cup {"complete"})
        /\ {"release", "settle"} \subseteq Pushed \ Bottom
        /\ {"idle", "release"} \cap Special = {}
    BY DEF Hit, Holding, Twice, Tokens, Bottom, Labels, Pushed, Special
  <1>6. CASE blockStatus[a] = "pending"
    <2>1. /\ TrySetTerminalStatus(a, r) /\ AddRef(a)
          /\ \/ UNCHANGED attached /\ Enter(o, "signal", <<"release">> \o <<"idle">>)
             \/ /\ attached' = [attached EXCEPT ![a] = FALSE]
                /\ Enter(o, "signal", <<"settle">> \o <<"idle">>)
      BY <1>2, <1>6 DEF CompleteWith
    <2>2. /\ <<"release">> \o <<"idle">> = <<"release", "idle">>
          /\ <<"settle">> \o <<"idle">> = <<"settle", "idle">>
      BY <1>5, TwoFrames
    <2>3. CASE UNCHANGED attached /\ Enter(o, "signal", <<"release", "idle">>)
      <3>1. /\ ControlOK' /\ Alone(o) /\ pc'[o] = "signal" /\ call'[o] = a
            /\ Shift(o, Hit("signal", Holding) + Hit("release", Holding),
                     Hit("signal", Twice) + Hit("release", Twice),
                     Hit("signal", Tokens) + Hit("release", Tokens))
        BY <1>1, <1>4, <1>5, <2>3, StartFrames DEF TypeInv
      <3>2. Shift(o, 1, 0, 1)
        BY <1>5, <3>1
      <3> QED BY <1>1, <1>3, <1>4, <2>1, <2>3, <3>1, <3>2, WinKeeps
    <2>4. CASE /\ attached' = [attached EXCEPT ![a] = FALSE]
               /\ Enter(o, "signal", <<"settle", "idle">>)
      <3>1. /\ ControlOK' /\ Alone(o) /\ pc'[o] = "signal" /\ call'[o] = a
            /\ Shift(o, Hit("signal", Holding) + Hit("settle", Holding),
                     Hit("signal", Twice) + Hit("settle", Twice),
                     Hit("signal", Tokens) + Hit("settle", Tokens))
        BY <1>1, <1>4, <1>5, <2>4, StartFrames DEF TypeInv
      <3>2. Shift(o, 1, 1, 1)
        BY <1>5, <3>1
      <3> QED BY <1>1, <1>3, <1>4, <2>1, <2>4, <3>1, <3>2, WinKeeps
    <2> QED BY <2>1, <2>2, <2>3, <2>4
  <1>7. CASE blockStatus[a] # "pending"
    <2>1. /\ UNCHANGED <<blockStatus, attached>>
          /\ \/ attached[a] /\ AddRef(a) /\ Enter(o, "release", <<"idle">>)
             \/ Enter(o, "idle", <<>>) /\ UNCHANGED refs
      <3>1. Head(<<"idle">>) = "idle" /\ Tail(<<"idle">>) = <<>>
        OBVIOUS
      <3> QED BY <1>2, <1>7, <3>1 DEF CompleteWith, TrySetTerminalStatus
    <2>2. CASE attached[a] /\ AddRef(a) /\ Enter(o, "release", <<"idle">>)
      <3>1. /\ ControlOK' /\ Alone(o) /\ pc'[o] = "release" /\ call'[o] = a
            /\ Shift(o, Hit("release", Holding) + 0, Hit("release", Twice) + 0,
                     Hit("release", Tokens) + 0)
        BY <1>1, <1>4, <1>5, <2>2, StartFrames DEF TypeInv
      <3>2. Shift(o, 1, 0, 0)
        BY <1>5, <3>1
      <3>3. \A b \in Calls : refs'[b] = refs[b] + IF b = call'[o] THEN 1 + 0 ELSE 0
        BY <2>2, <3>1, CountSteps DEF TypeInv
      <3>4. Steady(o, 1, 0)
        BY <1>4, <2>1, <2>2, <3>1, <3>2, <3>3 DEF Steady, Counted
      <3>5. PlainStep(o)
        BY <1>4, <1>5, <3>1, <3>4 DEF PlainStep, Plain
      <3> QED BY <1>1, <3>5, PlainKeeps
    <2>3. CASE Enter(o, "idle", <<>>) /\ UNCHANGED refs
      <3>1. ControlOK' /\ Alone(o) /\ pc'[o] = "idle" /\ call'[o] = a /\ Shift(o, 0, 0, 0)
        BY <1>1, <1>4, <2>3, StartFrames DEF TypeInv
      <3>2. \A b \in Calls : refs'[b] = refs[b] + IF b = call'[o] THEN 0 + 0 ELSE 0
        BY <2>3, <3>1, CountSteps DEF TypeInv
      <3>3. Steady(o, 0, 0)
        BY <1>4, <2>1, <3>1, <3>2 DEF Steady, Counted
      <3>4. PlainStep(o)
        BY <1>4, <1>5, <3>1, <3>3 DEF PlainStep, Plain
      <3> QED BY <1>1, <3>4, PlainKeeps
    <2> QED BY <2>1, <2>2, <2>3
  <1> QED BY <1>6, <1>7

LEMMA PushedPlain == Pushed \cap Special = {} /\ "verify" \notin Pushed
  BY DEF Pushed, Special

\* The queue takes the reference with the callback.
LEMMA SubmitWorkKeeps ==
  ASSUME TypeInv, QueueOK', CallsOK', CallInv, NEW t \in Threads, SubmitWork(t)
  PROVE  ControlOK' /\ CallInv'
  <1> DEFINE c == call[t]
  <1> USE DEF TypeInv
  <1>1. pc[t] = "submit" /\ c \in Calls
    BY DEF SubmitWork, ControlOK
  <1>2. CASE Refuses("Work")
    <2>1. PlainStep(t)
      BY <1>1, <1>2, PlainFunctions, PlainMoves
    <2> QED BY <2>1, PlainKeeps
  <1>3. CASE ~Refuses("Work")
    <2>1. /\ Submit("Work", c) /\ Return(t) /\ UNCHANGED <<arg, call, refs>>
          /\ UNCHANGED <<suspends, stage, asked>>
          /\ UNCHANGED <<blockStatus, attached, waitSatisfied, signals>>
      BY <1>3 DEF SubmitWork
    <2>2. /\ Hit("submit", Holding) = 1 /\ Hit("submit", Twice) = 0 /\ Hit("submit", Tokens) = 0
          /\ "submit" \notin Bottom
      BY DEF Hit, Holding, Twice, Tokens, Bottom
    <2>3. ControlOK' /\ Alone(t) /\ pc'[t] \in Pushed /\ call'[t] = c /\ Shift(t, -1, 0, 0)
      <3>1. /\ ControlOK' /\ Alone(t) /\ pc'[t] \in Pushed
            /\ Shift(t, 0 - Hit(pc[t], Holding), 0 - Hit(pc[t], Twice), 0 - Hit(pc[t], Tokens))
        BY <1>1, <2>1, <2>2, WriteSteps, ReturnMove
      <3>2. Shift(t, -1, 0, 0)
        BY <1>1, <2>2, <3>1
      <3> QED BY <2>1, <3>1, <3>2
    <2>4. \A a \in Calls : /\ Claims(a)' = Claims(a) + IF a = c THEN 1 ELSE 0
                           /\ Marks(a)' = Marks(a) + IF a = c THEN 0 ELSE 0
      <3>1. \A a \in Calls : /\ Queued(a, "Work")' = Queued(a, "Work") + IF a = c THEN 1 ELSE 0
                             /\ Queued(a, "Completion")' = Queued(a, "Completion")
        BY <1>1, <2>1, QueuedSubmit DEF Ports
      <3>2. \A a \in Calls : /\ Attached(a)' = Attached(a) /\ Attached(a) \in {0, 1}
                             /\ Pending(a)' = Pending(a) /\ Pending(a) \in {0, 1}
                             /\ signals'[a] = signals[a] /\ signals[a] \in Nat
                             /\ Queued(a, "Work") \in Nat /\ Queued(a, "Completion") \in Nat
        BY <2>1, TermTypes DEF Attached, Pending
      <3> QED BY <3>1, <3>2 DEF Claims, Marks
    <2>5. \A a \in Calls : refs'[a] = refs[a] + IF a = c THEN -1 + 0 + 1 ELSE 0
      BY <2>1 DEF CallsOK
    <2>6. Tallies(t, -1, 0, 0, 1, 0)
      BY <2>3, <2>4, <2>5 DEF Tallies
    <2>7. Conserves(t)
      BY <2>6 DEF Conserves
    <2>8. Quiet(t)
      BY <1>1, <2>1, <2>3, PushedPlain, CalmBlocks DEF Quiet
    <2> QED BY <2>3, <2>7, <2>8, QuietKeeps
  <1> QED BY <1>2, <1>3

\* The completion callback is queued with a reference of its own, and will signal.
LEMMA SignalCompletionKeeps ==
  ASSUME TypeInv, QueueOK', CallsOK', CallInv, NEW t \in Threads, SignalCompletion(t)
  PROVE  ControlOK' /\ CallInv'
  <1> DEFINE c == call[t]
  <1> USE DEF TypeInv
  <1>1. pc[t] = "signal" /\ c \in Calls
    BY DEF SignalCompletion, ControlOK
  <1>2. CASE UNCHANGED <<refs, queue>> /\ (Goto(t, "dead") \/ Goto(t, "satisfy"))
    <2>1. PlainStep(t)
      BY <1>1, <1>2, PlainWorker, PlainMoves
    <2> QED BY <2>1, PlainKeeps
  <1>3. CASE Submit("Completion", c) /\ AddRef(c) /\ Return(t)
    <2>1. /\ UNCHANGED <<arg, call>> /\ UNCHANGED <<suspends, stage, asked>>
          /\ UNCHANGED <<blockStatus, attached, waitSatisfied, signals>>
      BY DEF SignalCompletion
    <2>2. /\ Hit("signal", Holding) = 0 /\ Hit("signal", Twice) = 0 /\ Hit("signal", Tokens) = 1
          /\ "signal" \notin Bottom
      BY DEF Hit, Holding, Twice, Tokens, Bottom
    <2>3. ControlOK' /\ Alone(t) /\ pc'[t] \in Pushed /\ call'[t] = c /\ Shift(t, 0, 0, -1)
      <3>1. /\ ControlOK' /\ Alone(t) /\ pc'[t] \in Pushed
            /\ Shift(t, 0 - Hit(pc[t], Holding), 0 - Hit(pc[t], Twice), 0 - Hit(pc[t], Tokens))
        BY <1>1, <1>3, <2>1, <2>2, WriteSteps, ReturnMove
      <3>2. Shift(t, 0, 0, -1)
        BY <1>1, <2>2, <3>1
      <3> QED BY <2>1, <3>1, <3>2
    <2>4. \A a \in Calls : /\ Claims(a)' = Claims(a) + IF a = c THEN 1 ELSE 0
                           /\ Marks(a)' = Marks(a) + IF a = c THEN 1 ELSE 0
      <3>1. \A a \in Calls :
              /\ Queued(a, "Completion")' = Queued(a, "Completion") + IF a = c THEN 1 ELSE 0
              /\ Queued(a, "Work")' = Queued(a, "Work")
        BY <1>1, <1>3, QueuedSubmit DEF Ports
      <3>2. \A a \in Calls : /\ Attached(a)' = Attached(a) /\ Attached(a) \in {0, 1}
                             /\ Pending(a)' = Pending(a) /\ Pending(a) \in {0, 1}
                             /\ signals'[a] = signals[a] /\ signals[a] \in Nat
                             /\ Queued(a, "Work") \in Nat /\ Queued(a, "Completion") \in Nat
        BY <2>1, TermTypes DEF Attached, Pending
      <3> QED BY <3>1, <3>2 DEF Claims, Marks
    <2>5. \A a \in Calls : refs'[a] = refs[a] + IF a = c THEN 0 + 0 + 1 ELSE 0
      BY <1>1, <1>3, CountSteps
    <2>6. Tallies(t, 0, 0, -1, 1, 1)
      BY <2>3, <2>4, <2>5 DEF Tallies
    <2>7. Signs(c) # 0
      <3>1. /\ Number(Tokens, c) \in Nat /\ Number(Tokens, c)' \in Nat
            /\ Number(Tokens, c)' = Number(Tokens, c) - 1
        BY <1>1, <2>3 DEF Shift, Moves
      <3>2. Marks(c) \in Nat
        BY <1>1, TermTypes
      <3> QED BY <3>1, <3>2 DEF Signs
    <2>8. Conserves(t)
      <3>1. Signs(call'[t]) # 0
        BY <2>3, <2>7
      <3>2. 0 \in Int /\ 1 \in Int /\ -1 \in Int /\ -1 + 1 = 0
        OBVIOUS
      <3> QED BY <2>6, <3>1, <3>2, Zenon DEF Conserves
    <2>9. Quiet(t)
      BY <1>1, <2>1, <2>3, PushedPlain, CalmBlocks DEF Quiet
    <2> QED BY <2>3, <2>8, <2>9, QuietKeeps
  <1> QED BY <1>2, <1>3 DEF SignalCompletion

\* Where WorkerCallback begins
Entries == {"start", "start canceled"}

\* A queued callback goes to a thread with its reference.
LEMMA RunWorkKeeps ==
  ASSUME TypeInv, QueueOK', CallsOK', CallInv, NEW w \in Workers, RunWork(w)
  PROVE  ControlOK' /\ CallInv'
  <1> DEFINE c == Head(queue["Work"])
  <1> USE DEF TypeInv
  <1>1. w \in Threads \ Calls
    BY OtherThreads
  <1>2. /\ pc[w] = "idle" /\ queue["Work"] # <<>> /\ call' = [call EXCEPT ![w] = c]
        /\ queue' = [queue EXCEPT !["Work"] = Tail(@)]
        /\ UNCHANGED <<arg, refs>> /\ UNCHANGED <<suspends, stage, asked>>
        /\ UNCHANGED <<blockStatus, attached, waitSatisfied, signals>>
    BY DEF RunWork
  <1>3. PICK q \in Entries : Enter(w, q, <<"idle">>)
    BY DEF RunWork, Entries
  <1>4. /\ c \in Calls
        /\ \A a \in Calls : /\ Queued(a, "Work")' = Queued(a, "Work") - IF a = c THEN 1 ELSE 0
                            /\ Queued(a, "Completion")' = Queued(a, "Completion")
    BY <1>2, QueuedPop DEF Ports
  <1>5. /\ Hit(q, Holding) = 1 /\ Hit(q, Twice) = 0 /\ Hit(q, Tokens) = 0
        /\ q \in Labels \ (Bottom \cup {"complete"}) /\ q \notin Special
    BY DEF Entries, Hit, Holding, Twice, Tokens, Bottom, Labels, Special
  <1> HIDE DEF c
  <1>6. ControlOK' /\ Alone(w) /\ pc'[w] = q /\ call'[w] = c /\ Shift(w, 1, 0, 0)
    <2>1. /\ ControlOK' /\ Alone(w) /\ pc'[w] = q /\ call'[w] = c
          /\ Shift(w, Hit(q, Holding) + 0, Hit(q, Twice) + 0, Hit(q, Tokens) + 0)
      BY <1>1, <1>2, <1>3, <1>4, <1>5, StartFrames
    <2> QED BY <2>1, <1>5
  <1>7. \A a \in Calls : /\ Claims(a)' = Claims(a) + IF a = c THEN -1 ELSE 0
                         /\ Marks(a)' = Marks(a) + IF a = c THEN 0 ELSE 0
    <2>1. \A a \in Calls : /\ Attached(a)' = Attached(a) /\ Attached(a) \in {0, 1}
                           /\ Pending(a)' = Pending(a) /\ Pending(a) \in {0, 1}
                           /\ signals'[a] = signals[a] /\ signals[a] \in Nat
                           /\ Queued(a, "Work") \in Nat /\ Queued(a, "Completion") \in Nat
      BY <1>2, TermTypes DEF Attached, Pending
    <2> QED BY <1>4, <2>1 DEF Claims, Marks
  <1>8. \A a \in Calls : refs'[a] = refs[a] + IF a = c THEN 1 + 0 + (-1) ELSE 0
    BY <1>2 DEF CallsOK
  <1>9. Tallies(w, 1, 0, 0, -1, 0)
    BY <1>6, <1>7, <1>8 DEF Tallies
  <1>10. Conserves(w)
    <2>1. 1 \in Int /\ 0 \in Int /\ -1 \in Int /\ 0 + 0 = 0 /\ 1 + 0 + (-1) = 0
      OBVIOUS
    <2> QED BY <1>9, <2>1, Zenon DEF Conserves
  <1>11. Quiet(w)
    BY <1>2, <1>5, <1>6, CalmBlocks DEF Quiet, Special
  <1> QED BY <1>1, <1>6, <1>10, <1>11, QuietKeeps

LEMMA RunCompletionKeeps ==
  ASSUME TypeInv, QueueOK', CallsOK', CallInv, NEW n \in Notifiers, RunCompletion(n)
  PROVE  ControlOK' /\ CallInv'
  <1> DEFINE c == Head(queue["Completion"])
  <1> USE DEF TypeInv
  <1>1. n \in Threads \ Calls
    BY OtherThreads
  <1>2. /\ pc[n] = "idle" /\ queue["Completion"] # <<>> /\ call' = [call EXCEPT ![n] = c]
        /\ queue' = [queue EXCEPT !["Completion"] = Tail(@)]
        /\ Enter(n, "callback", <<"release", "idle">>)
        /\ UNCHANGED <<arg, refs>> /\ UNCHANGED <<suspends, stage, asked>>
        /\ UNCHANGED <<blockStatus, attached, waitSatisfied, signals>>
    BY DEF RunCompletion
  <1>3. /\ c \in Calls
        /\ \A a \in Calls :
              /\ Queued(a, "Completion")' = Queued(a, "Completion") - IF a = c THEN 1 ELSE 0
              /\ Queued(a, "Work")' = Queued(a, "Work")
    BY <1>2, QueuedPop DEF Ports
  <1>4. /\ Hit("callback", Holding) = 0 /\ Hit("callback", Twice) = 0
        /\ Hit("callback", Tokens) = 1
        /\ Hit("release", Holding) = 1 /\ Hit("release", Twice) = 0 /\ Hit("release", Tokens) = 0
        /\ "callback" \in Labels \ (Bottom \cup {"complete"}) /\ "callback" \notin Special
        /\ "release" \in Pushed \ Bottom
    BY DEF Hit, Holding, Twice, Tokens, Bottom, Labels, Special, Pushed
  <1> HIDE DEF c
  <1>5. ControlOK' /\ Alone(n) /\ pc'[n] = "callback" /\ call'[n] = c /\ Shift(n, 1, 0, 1)
    <2>1. /\ ControlOK' /\ Alone(n) /\ pc'[n] = "callback" /\ call'[n] = c
          /\ Shift(n, Hit("callback", Holding) + Hit("release", Holding),
                   Hit("callback", Twice) + Hit("release", Twice),
                   Hit("callback", Tokens) + Hit("release", Tokens))
      BY <1>1, <1>2, <1>3, <1>4, StartFrames
    <2> QED BY <2>1, <1>4
  <1>6. \A a \in Calls : /\ Claims(a)' = Claims(a) + IF a = c THEN -1 ELSE 0
                         /\ Marks(a)' = Marks(a) + IF a = c THEN -1 ELSE 0
    <2>1. \A a \in Calls : /\ Attached(a)' = Attached(a) /\ Attached(a) \in {0, 1}
                           /\ Pending(a)' = Pending(a) /\ Pending(a) \in {0, 1}
                           /\ signals'[a] = signals[a] /\ signals[a] \in Nat
                           /\ Queued(a, "Work") \in Nat /\ Queued(a, "Completion") \in Nat
      BY <1>2, TermTypes DEF Attached, Pending
    <2> QED BY <1>3, <2>1 DEF Claims, Marks
  <1>7. \A a \in Calls : refs'[a] = refs[a] + IF a = c THEN 1 + 0 + (-1) ELSE 0
    BY <1>2 DEF CallsOK
  <1>8. Tallies(n, 1, 0, 1, -1, -1)
    BY <1>5, <1>6, <1>7 DEF Tallies
  <1>9. Conserves(n)
    BY <1>8 DEF Conserves
  <1>10. Quiet(n)
    BY <1>2, <1>4, <1>5, CalmBlocks DEF Quiet, Special
  <1> QED BY <1>1, <1>5, <1>9, <1>10, QuietKeeps

-----------------------------------------------------------------------------
(* The steps that fetch the result                                          *)

LEMMA SteadyKeeps ==
  ASSUME TypeInv, QueueOK', CallsOK', CallInv, NEW t \in Threads,
         NEW h \in {-1, 0, 1}, NEW w \in {-1, 0, 1}, Steady(t, h, w),
         pc[t] \notin {"verify", "resume"}, pc'[t] # "resume", UNCHANGED <<suspends, stage>>,
         FetchOK'
  PROVE  ControlOK' /\ CallInv'
  <1>1. ControlOK' /\ Alone(t) /\ pc'[t] # "verify" /\ UNCHANGED waitSatisfied
    BY DEF Steady, Counted
  <1>2. ReferencesOK' /\ SignsOK' /\ \A a \in Calls : Signs(a)' = Signs(a)
    BY SteadySigns DEF CallInv
  <1>3. SuspendOK'
    BY <1>1, <1>2, SuspendStill DEF CallInv
  <1> QED BY <1>1, <1>2, <1>3 DEF CallInv

LEMMA GetResultKeeps ==
  ASSUME TypeInv, QueueOK', CallsOK', CallInv, NEW t \in Threads, GetResult(t)
  PROVE  ControlOK' /\ CallInv'
  <1> DEFINE c == call[t]
  <1> USE DEF TypeInv
  <1>1. /\ pc[t] = "result" /\ c \in Calls
        /\ UNCHANGED <<suspends, stage, asked, call, arg>>
        /\ UNCHANGED <<blockStatus, attached, queue, signals, waitSatisfied>>
    BY DEF GetResult, ControlOK
  <1>2. Writes(t)
    BY <1>1, WriteSteps
  <1>3. /\ Hit("result", Holding) = 0 /\ Hit("result", Twice) = 0 /\ Hit("result", Tokens) = 0
        /\ Hit("fetch", Holding) = 1 /\ Hit("fetch", Twice) = 0 /\ Hit("fetch", Tokens) = 0
        /\ {"result", "fetch"} \subseteq Labels \ Bottom
    BY DEF Hit, Holding, Twice, Tokens, Labels, Bottom
  <1>4. CASE attached[c] /\ blockStatus[c] # "pending"
    <2>1. AddRef(c) /\ Goto(t, "fetch")
      BY <1>4 DEF GetResult
    <2>2. \A a \in Calls : refs'[a] = refs[a] + IF a = call'[t] THEN 1 + 0 ELSE 0
      BY <1>1, <2>1, CountSteps
    <2>3. Goes(t, "fetch", 1, 0)
      BY <1>1, <1>2, <1>3, <1>4, <2>1, <2>2 DEF Goes, Counted
    <2>4. Steady(t, 1, 0) /\ pc'[t] = "fetch"
      BY <1>1, <2>3, GotoSteady
    <2>5. FetchOK'
      <3>1. \A u \in Threads : /\ call'[u] = call[u] /\ (Fetches(u)' <=> Fetches(u))
                               /\ u # t => pc'[u] = pc[u]
        BY <1>1, <2>4 DEF Fetches, Steady, Alone
      <3>2. ASSUME NEW u \in Threads, Fetches(u)
            PROVE  pc'[u] = "fetch" => attached[call[u]] /\ blockStatus[call[u]] # "pending"
        BY <1>4, <3>1, <3>2 DEF CallInv, FetchOK
      <3> QED BY <1>1, <3>1, <3>2 DEF CallInv, FetchOK
    <2> QED BY <1>1, <2>4, <2>5, SteadyKeeps
  <1>5. CASE ~ (attached[c] /\ blockStatus[c] # "pending")
    <2>1. UNCHANGED refs /\ Return(t)
      BY <1>5 DEF GetResult
    <2>2. \A a \in Calls : refs'[a] = refs[a] + IF a = call'[t] THEN 0 + 0 ELSE 0
      BY <1>1, <2>1, CountSteps
    <2>3. Leaves(t, 0, 0)
      BY <1>1, <1>2, <1>3, <2>1, <2>2 DEF Leaves, Counted
    <2>4. Steady(t, 0, 0) /\ pc'[t] \notin Special
      BY <1>1, <2>3, ReturnSteady
    <2>5. FetchOK'
      BY <1>1, <2>4, FetchStill DEF Special, Steady, CallInv
    <2> QED BY <1>1, <2>4, <2>5, SteadyKeeps DEF Special
  <1> QED BY <1>4, <1>5

\* The client calls XAsyncGetResult, once.
LEMMA AskKeeps ==
  ASSUME TypeInv, QueueOK', CallsOK', CallInv, NEW t \in Threads, NEW c \in Calls,
         call[t] = c, ~asked[c], asked' = [asked EXCEPT ![c] = TRUE],
         Steady(t, 0, 0), pc'[t] = "result", pc[t] \notin Special, UNCHANGED call,
         UNCHANGED <<suspends, stage>>
  PROVE  ControlOK' /\ CallInv'
  <1>1. FetchOK'
    <2>1. \A u \in Threads : call'[u] = call[u] /\ (u # t => pc'[u] = pc[u])
      BY DEF Steady, Alone
    <2>2. ASSUME NEW u \in Threads, Fetches(u)', u # t
          PROVE  Fetches(u) /\ call[u] # c
      <3>1. Fetches(u)
        BY <2>1, <2>2 DEF Fetches
      <3>2. asked[call[u]]
        BY <3>1 DEF CallInv, FetchOK
      <3> QED BY <3>1, <3>2
    <2>3. /\ asked'[c] /\ \A a \in Calls : asked[a] => asked'[a]
          /\ UNCHANGED <<blockStatus, attached>>
      BY DEF TypeInv, CallsOK, Steady, Counted
    <2>4. \A u \in Threads : Fetches(u) => call[u] \in Calls
      BY DEF Fetches, TypeInv, ControlOK
    <2>5. ASSUME NEW u \in Threads, Fetches(u)'
          PROVE  /\ asked'[call'[u]]
                 /\ pc'[u] = "fetch" =>
                       attached'[call'[u]] /\ blockStatus'[call'[u]] # "pending"
                 /\ \A v \in Threads : Fetches(v)' /\ call'[v] = call'[u] => v = u
      <3>1. CASE u = t
        BY <2>1, <2>2, <2>3, <3>1
      <3>2. CASE u # t
        BY <2>1, <2>2, <2>3, <2>4, <2>5, <3>2 DEF CallInv, FetchOK
      <3> QED BY <3>1, <3>2
    <2> QED BY <2>5 DEF FetchOK
  <1> QED BY <1>1, SteadyKeeps DEF Special

LEMMA CallbackFetchKeeps ==
  ASSUME TypeInv, QueueOK', CallsOK', CallInv, NEW n \in Notifiers, ClientCallback(n)
  PROVE  ControlOK' /\ CallInv'
  <1> DEFINE c == call[n]
  <1> USE DEF TypeInv
  <1>1. /\ n \in Threads /\ pc[n] = "callback" /\ c \in Calls
        /\ UNCHANGED <<suspends, stage, call, arg, refs>>
        /\ UNCHANGED <<blockStatus, attached, queue, signals, waitSatisfied>>
    BY OtherThreads DEF ClientCallback, ControlOK
  <1>2. CASE Goto(n, "satisfy") /\ UNCHANGED asked
    <2>1. PlainStep(n)
      BY <1>1, <1>2, PlainWorker, PlainMoves
    <2> QED BY <1>1, <2>1, PlainKeeps
  <1>3. CASE /\ ~asked[c] /\ asked' = [asked EXCEPT ![c] = TRUE]
             /\ Call(n, "result", "satisfy")
    <2>1. /\ Hit("callback", Holding) = 0 /\ Hit("callback", Twice) = 0
          /\ Hit("callback", Tokens) = 1 /\ Hit("satisfy", Holding) = 0
          /\ Hit("satisfy", Twice) = 0 /\ Hit("satisfy", Tokens) = 1
          /\ Hit("result", Holding) = 0 /\ Hit("result", Twice) = 0 /\ Hit("result", Tokens) = 0
          /\ "result" \in Labels \ Bottom /\ "callback" \notin Bottom /\ "callback" \notin Special
          /\ "satisfy" \in Pushed \ Bottom
      BY DEF Hit, Holding, Twice, Tokens, Labels, Bottom, Pushed, Special
    <2>2. \A a \in Calls : refs'[a] = refs[a] + IF a = call'[n] THEN 0 + 0 ELSE 0
      BY <1>1, CountSteps
    <2>3. Counted(n, 0, 0)
      BY <1>1, <2>2 DEF Counted
    <2>4. Enters(n, "result", "satisfy", 0, 0)
      BY <1>1, <1>3, <2>1, <2>3, WriteSteps DEF Enters
    <2>5. Steady(n, 0, 0) /\ pc'[n] = "result"
      BY <1>1, <2>4, CallSteady
    <2> QED BY <1>1, <1>3, <2>1, <2>5, AskKeeps
  <1> QED BY <1>2, <1>3 DEF ClientCallback

LEMMA FetchResultKeeps ==
  ASSUME TypeInv, QueueOK', CallsOK', CallInv, NEW c \in Calls, FetchResult(c)
  PROVE  ControlOK' /\ CallInv'
  <1> USE DEF TypeInv
  <1>1. /\ c \in Threads /\ pc[c] = "waited" /\ call[c] = c
        /\ UNCHANGED <<suspends, stage, call, arg, refs>>
        /\ UNCHANGED <<blockStatus, attached, queue, signals, waitSatisfied>>
    BY DEF FetchResult, ControlOK, Threads
  <1>2. CASE Enter(c, "done", <<>>) /\ UNCHANGED asked
    <2>1. PlainStep(c)
      BY <1>1, <1>2, PlainClient, PlainMoves
    <2> QED BY <1>1, <2>1, PlainKeeps
  <1>3. CASE /\ ~asked[c] /\ asked' = [asked EXCEPT ![c] = TRUE]
             /\ Enter(c, "result", <<"done">>)
    <2>1. /\ Hit("waited", Holding) = 0 /\ Hit("waited", Twice) = 0
          /\ Hit("waited", Tokens) = 0 /\ Hit("done", Holding) = 0
          /\ Hit("done", Twice) = 0 /\ Hit("done", Tokens) = 0
          /\ Hit("result", Holding) = 0 /\ Hit("result", Twice) = 0 /\ Hit("result", Tokens) = 0
          /\ "result" \in Labels \ Bottom /\ {"waited", "done"} \subseteq Bottom
          /\ "waited" \notin Special /\ "done" \in Pushed
      BY DEF Hit, Holding, Twice, Tokens, Labels, Bottom, Pushed, Special
    <2>2. \A a \in Calls : refs'[a] = refs[a] + IF a = call'[c] THEN 0 + 0 ELSE 0
      BY <1>1, CountSteps
    <2>3. Counted(c, 0, 0)
      BY <1>1, <2>2 DEF Counted
    <2>4. Call(c, "result", "done")
      <3>1. stack[c] = <<>>
        BY <1>1, <2>1 DEF ControlOK, WellNested
      <3>2. <<"done">> \o stack[c] = <<"done">>
        BY <3>1
      <3> QED BY <1>3, <3>2 DEF Call
    <2>5. Enters(c, "result", "done", 0, 0)
      BY <1>1, <2>1, <2>3, <2>4, WriteSteps DEF Enters
    <2>6. Steady(c, 0, 0) /\ pc'[c] = "result"
      BY <1>1, <2>5, CallSteady
    <2> QED BY <1>1, <1>3, <2>1, <2>6, AskKeeps
  <1> QED BY <1>2, <1>3 DEF FetchResult

\* The state is extracted by the one thread that fetches the result.
LEMMA ExtractKeeps ==
  ASSUME TypeInv, QueueOK', CallsOK', CallInv, NEW t \in Threads, ExtractResult(t)
  PROVE  ControlOK' /\ CallInv'
  <1> DEFINE c == call[t]
  <1> USE DEF TypeInv
  <1>1. /\ pc[t] = "fetch" /\ c \in Calls /\ attached' = [attached EXCEPT ![c] = FALSE]
        /\ Goto(t, "free") /\ UNCHANGED <<suspends, stage, asked, call, arg, refs>>
        /\ UNCHANGED <<blockStatus, queue, signals, waitSatisfied>>
    BY DEF ExtractResult, ControlOK
  <1>2. attached[c] /\ blockStatus[c] # "pending"
    BY <1>1 DEF CallInv, FetchOK, Fetches
  <1>3. /\ Hit("fetch", Holding) = 1 /\ Hit("fetch", Twice) = 0 /\ Hit("fetch", Tokens) = 0
        /\ Hit("free", Holding) = 1 /\ Hit("free", Twice) = 1 /\ Hit("free", Tokens) = 0
        /\ {"free", "fetch"} \subseteq Labels \ Bottom
    BY DEF Hit, Holding, Twice, Tokens, Labels, Bottom
  <1>4. ControlOK' /\ Alone(t) /\ pc'[t] = "free" /\ Shift(t, 0, 1, 0)
    <2>1. Writes(t)
      BY <1>1, WriteSteps
    <2>2. /\ ControlOK' /\ Alone(t) /\ pc'[t] = "free"
          /\ Shift(t, Hit("free", Holding) - Hit(pc[t], Holding),
                   Hit("free", Twice) - Hit(pc[t], Twice), Hit("free", Tokens) - Hit(pc[t], Tokens))
      BY <1>1, <1>3, <2>1, GotoMove
    <2> QED BY <1>1, <1>3, <2>2
  <1>5. Tallies(t, 0, 1, 0, -1, 0)
    <2>1. \A a \in Calls : /\ Claims(a)' = Claims(a) + IF a = call'[t] THEN -1 ELSE 0
                           /\ Marks(a)' = Marks(a) + IF a = call'[t] THEN 0 ELSE 0
      <3>1. \A a \in Calls : /\ Queued(a, "Work") \in Nat /\ Queued(a, "Completion") \in Nat
                             /\ Pending(a) \in {0, 1} /\ signals[a] \in Nat
        BY TermTypes
      <3>2. \A a \in Calls : /\ Queued(a, "Completion")' = Queued(a, "Completion")
                             /\ Queued(a, "Work")' = Queued(a, "Work")
                             /\ Pending(a)' = Pending(a) /\ signals'[a] = signals[a]
        BY <1>1 DEF Queued, Pending
      <3>3. \A a \in Calls : /\ Attached(a) \in {0, 1}
                             /\ Attached(a)' = Attached(a) + IF a = call'[t] THEN -1 ELSE 0
        BY <1>1, <1>2 DEF Attached, CallsOK
      <3> QED BY <3>1, <3>2, <3>3 DEF Claims, Marks
    <2>2. \A a \in Calls : refs'[a] = refs[a] + IF a = call'[t] THEN 0 + 1 + (-1) ELSE 0
      BY <1>1 DEF CallsOK
    <2> QED BY <1>4, <2>1, <2>2 DEF Tallies
  <1>6. Conserves(t)
    BY <1>5 DEF Conserves
  <1>7. Calm(t)
    <2>1. \A a \in Calls : attached'[a] = IF a = c THEN FALSE ELSE attached[a]
      BY <1>1 DEF CallsOK
    <2> QED BY <1>1, <1>2, <1>4, <2>1 DEF Calm, CallInv, SignsOK
  <1>8. ReferencesOK' /\ SignsOK' /\ \A a \in Calls : Signs(a)' = Signs(a)
    BY <1>4, <1>6, <1>7, SignsKept
  <1>9. SuspendOK'
    BY <1>1, <1>4, <1>8, SuspendStill DEF CallInv
  <1>10. FetchOK'
    <2>1. ASSUME NEW u \in Threads, Fetches(u)'
          PROVE  /\ pc'[u] = pc[u] /\ call'[u] = call[u] /\ Fetches(u)
                 /\ call[u] \in Calls /\ call[u] # c
      <3>1. u # t /\ pc'[u] = pc[u] /\ call'[u] = call[u]
        BY <1>1, <1>4, <2>1 DEF Fetches, Alone
      <3>2. Fetches(u) /\ Fetches(t)
        BY <1>1, <2>1, <3>1 DEF Fetches
      <3>3. call[u] # c
        BY <3>1, <3>2 DEF CallInv, FetchOK
      <3> QED BY <3>1, <3>2, <3>3 DEF Fetches, ControlOK
    <2>2. \A a \in Calls \ {c} : attached'[a] = attached[a]
      BY <1>1 DEF CallsOK
    <2>3. ASSUME NEW u \in Threads, Fetches(u)'
          PROVE  /\ asked'[call'[u]]
                 /\ pc'[u] = "fetch" =>
                       attached'[call'[u]] /\ blockStatus'[call'[u]] # "pending"
                 /\ \A v \in Threads : Fetches(v)' /\ call'[v] = call'[u] => v = u
      BY <1>1, <2>1, <2>2, <2>3 DEF CallInv, FetchOK
    <2> QED BY <2>3 DEF FetchOK
  <1> QED BY <1>4, <1>8, <1>9, <1>10 DEF CallInv

-----------------------------------------------------------------------------
(* The steps that take, pass on or give back a suspend of the work port     *)

LEMMA FiniteSums ==
  /\ IsFiniteSet(Suspending) /\ IsFiniteSet(Outstanding)
  /\ \A p : IsFiniteSet(Staged(p))
  /\ Cardinality(Suspending) \in Nat /\ Cardinality(Outstanding) \in Nat
  /\ \A p : Cardinality(Staged(p)) \in Nat
  <1>1. IsFiniteSet(Calls)
    BY CallAssumption, FS_Subset DEF Threads
  <1>2. IsFiniteSet(Suspending)
    BY CallAssumption, FS_Subset DEF Suspending
  <1>3. IsFiniteSet(Outstanding)
    BY <1>1, FS_Subset DEF Outstanding
  <1>4. \A p : IsFiniteSet(Staged(p))
    BY CallAssumption, FS_Subset DEF Staged
  <1> QED BY <1>2, <1>3, <1>4, FS_CardinalityType

LEMMA Joins ==
  ASSUME NEW S, NEW x, x \notin S, IsFiniteSet(S)
  PROVE  /\ Cardinality(S \cup {x}) = Cardinality(S) + 1 /\ Cardinality(S) \in Nat
  BY FS_AddElement, FS_CardinalityType

LEMMA Departs ==
  ASSUME NEW S, NEW x, x \in S, IsFiniteSet(S)
  PROVE  /\ Cardinality(S \ {x}) = Cardinality(S) - 1 /\ Cardinality(S) \in Nat
  BY FS_RemoveElement, FS_CardinalityType

LEMMA BeginKeeps ==
  ASSUME TypeInv, QueueOK', CallsOK', CallInv, NEW c \in Calls, Begin(c)
  PROVE  ControlOK' /\ CallInv'
  <1> USE DEF TypeInv
  <1>1. /\ c \in Threads /\ call[c] = c /\ pc[c] = "idle" /\ blockStatus[c] = "none"
        /\ TakeSuspend("Work") /\ Enter(c, "verify", <<>>)
        /\ UNCHANGED <<stage, call, arg, refs, asked>>
        /\ UNCHANGED <<blockStatus, attached, queue, signals, waitSatisfied>>
    BY DEF Begin, ControlOK, Threads
  <1>2. /\ Hit("idle", Holding) = 0 /\ Hit("idle", Twice) = 0 /\ Hit("idle", Tokens) = 0
        /\ Hit("verify", Holding) = 0 /\ Hit("verify", Twice) = 0 /\ Hit("verify", Tokens) = 0
        /\ "verify" \in Labels /\ {"idle", "verify"} \subseteq Bottom
    BY DEF Hit, Holding, Twice, Tokens, Labels, Bottom
  <1>3. Goto(c, "verify")
    BY <1>1, <1>2 DEF Goto, ControlOK, WellNested
  <1>4. ControlOK' /\ Alone(c) /\ pc'[c] = "verify" /\ Shift(c, 0, 0, 0)
    <2>1. Writes(c)
      BY <1>1, WriteSteps
    <2>2. /\ ControlOK' /\ Alone(c) /\ pc'[c] = "verify"
          /\ Shift(c, Hit("verify", Holding) - Hit(pc[c], Holding),
                   Hit("verify", Twice) - Hit(pc[c], Twice),
                   Hit("verify", Tokens) - Hit(pc[c], Tokens))
      BY <1>1, <1>2, <1>3, <2>1, GotoMove
    <2> QED BY <1>1, <1>2, <2>2
  <1>5. /\ ReferencesOK'
        /\ \A a \in Calls : /\ Signs(a) \in Nat /\ Signs(a)' \in Nat
                            /\ Signs(a)' = Signs(a) + IF a = call'[c] THEN 0 + 0 ELSE 0
                            /\ refs'[a] = refs[a]
    <2>1. \A a \in Calls : refs'[a] = refs[a] + IF a = call'[c] THEN 0 + 0 + 0 ELSE 0
      BY <1>1 DEF CallsOK
    <2>2. \A a \in Calls : /\ Claims(a)' = Claims(a) + IF a = call'[c] THEN 0 ELSE 0
                           /\ Marks(a)' = Marks(a) + IF a = call'[c] THEN 0 ELSE 0
      BY <1>1, SameClaims
    <2> QED BY <1>1, <1>4, <2>1, <2>2, Balance DEF CallInv
  <1>6. \A a \in Calls : Signs(a)' = Signs(a)
    BY <1>5
  <1>7. SignsOK'
    <2>1. \A a \in Calls \ {c} : pc'[a] = pc[a]
      BY <1>4 DEF Alone, Threads
    <2> QED BY <1>1, <1>4, <1>5, <1>6, <2>1 DEF CallInv, SignsOK
  <1>8. FetchOK'
    BY <1>1, <1>4, FetchStill DEF CallInv
  <1>9. SuspendOK'
    <2>1. Suspending' = Suspending \cup {c} /\ c \notin Suspending
      BY <1>1, <1>4 DEF Suspending, Alone
    <2>2. Outstanding' = Outstanding
      BY <1>1, <1>6 DEF Outstanding
    <2>3. Staged("Work")' = Staged("Work") /\ Staged("Completion")' = Staged("Completion")
      BY <1>1 DEF Staged
    <2>4. /\ suspends'["Work"] = suspends["Work"] + 1
          /\ suspends'["Completion"] = suspends["Completion"]
      BY <1>1 DEF TakeSuspend, QueueOK, Ports
    <2>5. Cardinality(Suspending') = Cardinality(Suspending) + 1
      BY <2>1, FiniteSums, Joins
    <2> QED BY <2>2, <2>3, <2>4, <2>5, FiniteSums DEF CallInv, SuspendOK
  <1> QED BY <1>4, <1>5, <1>7, <1>8, <1>9 DEF CallInv

\* A refused call gives its suspend back.
LEMMA RefusedKeeps ==
  ASSUME TypeInv, QueueOK', CallsOK', CallInv, NEW c \in Calls, VerifySuspend(c),
         Refuses("Work")
  PROVE  ControlOK' /\ CallInv'
  <1> USE DEF TypeInv
  <1>1. /\ c \in Threads /\ call[c] = c /\ pc[c] = "verify"
        /\ blockStatus' = [blockStatus EXCEPT ![c] = "fail"] /\ Enter(c, "resume", <<"done">>)
        /\ UNCHANGED <<stage, suspends, call, arg, refs, asked>>
        /\ UNCHANGED <<attached, queue, signals, waitSatisfied>>
    BY DEF VerifySuspend, ControlOK, Threads
  <1>2. blockStatus[c] = "none" /\ ~attached[c]
    BY <1>1 DEF CallInv, SignsOK
  <1>3. /\ Hit("done", Holding) = 0 /\ Hit("done", Twice) = 0 /\ Hit("done", Tokens) = 0
        /\ Hit("resume", Holding) = 0 /\ Hit("resume", Twice) = 0 /\ Hit("resume", Tokens) = 0
        /\ Hit("verify", Holding) = 0 /\ Hit("verify", Twice) = 0 /\ Hit("verify", Tokens) = 0
        /\ "resume" \in Labels \ Bottom /\ {"verify", "done"} \subseteq Bottom /\ "done" \in Pushed
    BY DEF Hit, Holding, Twice, Tokens, Labels, Bottom, Pushed
  <1>4. Call(c, "resume", "done")
    <2>1. stack[c] = <<>>
      BY <1>1, <1>3 DEF ControlOK, WellNested
    <2>2. <<"done">> \o stack[c] = <<"done">>
      BY <2>1
    <2> QED BY <1>1, <2>2 DEF Call
  <1>5. ControlOK' /\ Alone(c) /\ pc'[c] = "resume" /\ Shift(c, 0, 0, 0)
    <2>1. Writes(c)
      BY <1>1, WriteSteps
    <2>2. /\ ControlOK' /\ Alone(c) /\ pc'[c] = "resume"
          /\ Shift(c, Hit("resume", Holding) + Hit("done", Holding) - Hit(pc[c], Holding),
                   Hit("resume", Twice) + Hit("done", Twice) - Hit(pc[c], Twice),
                   Hit("resume", Tokens) + Hit("done", Tokens) - Hit(pc[c], Tokens))
      BY <1>1, <1>3, <1>4, <2>1, CallMove
    <2> QED BY <1>1, <1>3, <2>2
  <1>6. /\ blockStatus'[c] = "fail"
        /\ \A a \in Calls \ {c} : blockStatus'[a] = blockStatus[a]
    BY <1>1 DEF CallsOK
  <1>7. /\ ReferencesOK'
        /\ \A a \in Calls : /\ Signs(a) \in Nat /\ Signs(a)' \in Nat
                            /\ Signs(a)' = Signs(a) + IF a = call'[c] THEN 0 + 0 ELSE 0
                            /\ refs'[a] = refs[a]
    <2>1. \A a \in Calls : refs'[a] = refs[a] + IF a = call'[c] THEN 0 + 0 + 0 ELSE 0
      BY <1>1 DEF CallsOK
    <2>2. \A a \in Calls : Claims(a) \in Nat /\ Marks(a) \in Nat
      BY TermTypes
    <2>3. \A a \in Calls : Claims(a)' = Claims(a) /\ Marks(a)' = Marks(a)
      <3>1. \A a \in Calls : Pending(a)' = Pending(a)
        BY <1>2, <1>6 DEF Pending
      <3> QED BY <1>1, <3>1 DEF Claims, Marks, Attached, Queued
    <2>4. \A a \in Calls : /\ Claims(a)' = Claims(a) + IF a = call'[c] THEN 0 ELSE 0
                           /\ Marks(a)' = Marks(a) + IF a = call'[c] THEN 0 ELSE 0
      BY <2>2, <2>3
    <2> QED BY <1>1, <1>5, <2>1, <2>4, Balance DEF CallInv
  <1>8. \A a \in Calls : Signs(a)' = Signs(a)
    BY <1>7
  <1>9. SignsOK'
    <2>1. \A a \in Calls \ {c} : pc'[a] = pc[a]
      BY <1>5 DEF Alone, Threads
    <2> QED BY <1>1, <1>5, <1>6, <1>7, <1>8, <2>1 DEF CallInv, SignsOK
  <1>10. FetchOK'
    <2>1. \A a \in Calls : attached[a] /\ blockStatus[a] # "pending" =>
                              attached'[a] /\ blockStatus'[a] # "pending"
      BY <1>1, <1>6
    <2> QED BY <1>1, <1>5, <2>1, FetchStill DEF CallInv
  <1>11. SuspendOK'
    BY <1>1, <1>5, <1>8, SuspendStill DEF CallInv
  <1> QED BY <1>5, <1>7, <1>9, <1>10, <1>11 DEF CallInv

\* An accepted call keeps its suspend until it is signaled.
LEMMA AcceptedKeeps ==
  ASSUME TypeInv, QueueOK', CallsOK', CallInv, NEW c \in Calls, VerifySuspend(c),
         ~Refuses("Work")
  PROVE  ControlOK' /\ CallInv'
  <1> USE DEF TypeInv
  <1>1. /\ c \in Threads /\ call[c] = c /\ pc[c] = "verify"
        /\ blockStatus' = [blockStatus EXCEPT ![c] = "pending"]
        /\ attached' = [attached EXCEPT ![c] = TRUE] /\ refs' = [refs EXCEPT ![c] = 2]
        /\ Enter(c, "begin", <<"begun">>)
        /\ UNCHANGED <<stage, suspends, call, arg, asked>>
        /\ UNCHANGED <<queue, signals, waitSatisfied>>
    BY DEF VerifySuspend, ControlOK, Threads
  <1>2. /\ blockStatus[c] = "none" /\ ~attached[c] /\ refs[c] = 0 /\ Signs(c) = 0
        /\ (waitSatisfied[c] <=> signals[c] > 0)
    BY <1>1 DEF CallInv, SignsOK
  <1>3. /\ Hit("begun", Holding) = 0 /\ Hit("begun", Twice) = 0 /\ Hit("begun", Tokens) = 0
        /\ Hit("begin", Holding) = 1 /\ Hit("begin", Twice) = 0 /\ Hit("begin", Tokens) = 0
        /\ Hit("verify", Holding) = 0 /\ Hit("verify", Twice) = 0 /\ Hit("verify", Tokens) = 0
        /\ "begin" \in Labels \ Bottom /\ {"verify", "begun"} \subseteq Bottom
        /\ "begun" \in Pushed
    BY DEF Hit, Holding, Twice, Tokens, Labels, Bottom, Pushed
  <1>4. Call(c, "begin", "begun")
    <2>1. stack[c] = <<>>
      BY <1>1, <1>3 DEF ControlOK, WellNested
    <2>2. <<"begun">> \o stack[c] = <<"begun">>
      BY <2>1
    <2> QED BY <1>1, <2>2 DEF Call
  <1>5. ControlOK' /\ Alone(c) /\ pc'[c] = "begin" /\ Shift(c, 1, 0, 0)
    <2>1. Writes(c)
      BY <1>1, WriteSteps
    <2>2. /\ ControlOK' /\ Alone(c) /\ pc'[c] = "begin"
          /\ Shift(c, Hit("begin", Holding) + Hit("begun", Holding) - Hit(pc[c], Holding),
                   Hit("begin", Twice) + Hit("begun", Twice) - Hit(pc[c], Twice),
                   Hit("begin", Tokens) + Hit("begun", Tokens) - Hit(pc[c], Tokens))
      BY <1>1, <1>3, <1>4, <2>1, CallMove
    <2> QED BY <1>1, <1>3, <2>2
  <1>6. /\ blockStatus'[c] = "pending" /\ attached'[c]
        /\ \A a \in Calls \ {c} : blockStatus'[a] = blockStatus[a] /\ attached'[a] = attached[a]
    BY <1>1 DEF CallsOK
  <1>7. /\ ReferencesOK'
        /\ \A a \in Calls : /\ Signs(a) \in Nat /\ Signs(a)' \in Nat
                            /\ Signs(a)' = Signs(a) + IF a = call'[c] THEN 0 + 1 ELSE 0
                            /\ Marks(a) <= Signs(a)
    <2>1. \A a \in Calls : refs'[a] = refs[a] + IF a = call'[c] THEN 1 + 0 + 1 ELSE 0
      BY <1>1, <1>2 DEF CallsOK
    <2>2. \A a \in Calls : /\ Queued(a, "Work") \in Nat /\ Queued(a, "Completion") \in Nat
                           /\ signals[a] \in Nat
      BY TermTypes
    <2>3. \A a \in Calls : /\ Queued(a, "Completion")' = Queued(a, "Completion")
                           /\ Queued(a, "Work")' = Queued(a, "Work")
                           /\ signals'[a] = signals[a]
      BY <1>1 DEF Queued
    <2>4. \A a \in Calls : /\ Attached(a) \in {0, 1} /\ Pending(a) \in {0, 1}
                           /\ Attached(a)' = Attached(a) + IF a = call'[c] THEN 1 ELSE 0
                           /\ Pending(a)' = Pending(a) + IF a = call'[c] THEN 1 ELSE 0
      BY <1>1, <1>2, <1>6 DEF Attached, Pending
    <2>5. \A a \in Calls : /\ Claims(a)' = Claims(a) + IF a = call'[c] THEN 1 ELSE 0
                           /\ Marks(a)' = Marks(a) + IF a = call'[c] THEN 1 ELSE 0
      BY <2>2, <2>3, <2>4 DEF Claims, Marks
    <2> QED BY <1>1, <1>5, <2>1, <2>5, Balance DEF CallInv
  <1>8. /\ Signs(c)' = 1 /\ \A a \in Calls \ {c} : Signs(a)' = Signs(a)
    BY <1>1, <1>2, <1>7
  <1>9. ~waitSatisfied[c]
    <2>1. signals[c] \in Nat /\ signals[c] <= Marks(c) /\ Marks(c) \in Nat
      BY TermTypes
    <2> QED BY <1>2, <1>7, <2>1
  <1>10. SignsOK'
    <2>1. \A a \in Calls \ {c} : pc'[a] = pc[a] /\ refs'[a] = refs[a]
      BY <1>1, <1>5 DEF Alone, Threads, CallsOK
    <2> QED BY <1>1, <1>5, <1>6, <1>8, <2>1 DEF CallInv, SignsOK
  <1>11. FetchOK'
    <2>1. \A a \in Calls : attached[a] /\ blockStatus[a] # "pending" =>
                              attached'[a] /\ blockStatus'[a] # "pending"
      BY <1>2, <1>6
    <2> QED BY <1>1, <1>5, <2>1, FetchStill DEF CallInv
  <1>12. SuspendOK'
    <2>1. Suspending' = Suspending \ {c} /\ c \in Suspending
      BY <1>1, <1>5 DEF Suspending, Alone
    <2>2. Outstanding' = Outstanding \cup {c} /\ c \notin Outstanding
      BY <1>1, <1>2, <1>8, <1>9 DEF Outstanding
    <2>3. Staged("Work")' = Staged("Work") /\ Staged("Completion")' = Staged("Completion")
      BY <1>1 DEF Staged
    <2>4. Cardinality(Suspending') = Cardinality(Suspending) - 1
      BY <2>1, FiniteSums, Departs
    <2>5. Cardinality(Outstanding') = Cardinality(Outstanding) + 1
      BY <2>2, FiniteSums, Joins
    <2> QED BY <1>1, <2>3, <2>4, <2>5, FiniteSums DEF CallInv, SuspendOK
  <1> QED BY <1>5, <1>7, <1>10, <1>11, <1>12 DEF CallInv

\* A call is signaled once: a second sign of it would be left over.
LEMMA SignalWaitKeeps ==
  ASSUME TypeInv, QueueOK', CallsOK', CallInv, NEW t \in Threads, SignalWait(t)
  PROVE  ControlOK' /\ CallInv'
  <1> DEFINE c == call[t]
  <1> USE DEF TypeInv
  <1>1. /\ pc[t] = "satisfy" /\ c \in Calls
        /\ waitSatisfied' = [waitSatisfied EXCEPT ![c] = TRUE]
        /\ signals' = [signals EXCEPT ![c] = @ + 1]
        /\ IF waitSatisfied[c] THEN Return(t) ELSE Goto(t, "resume")
        /\ UNCHANGED <<stage, suspends, call, arg, refs, asked>>
        /\ UNCHANGED <<blockStatus, attached, queue>>
    BY DEF SignalWait, ControlOK
  <1>2. /\ Hit("satisfy", Holding) = 0 /\ Hit("satisfy", Twice) = 0
        /\ Hit("satisfy", Tokens) = 1
        /\ Hit("resume", Holding) = 0 /\ Hit("resume", Twice) = 0 /\ Hit("resume", Tokens) = 0
        /\ {"satisfy", "resume"} \subseteq Labels \ Bottom
    BY DEF Hit, Holding, Twice, Tokens, Labels, Bottom
  <1>3. Writes(t)
    BY <1>1, WriteSteps
  <1>4. ControlOK' /\ Alone(t) /\ Shift(t, 0, 0, -1)
    <2>1. CASE waitSatisfied[c]
      <3>1. /\ ControlOK' /\ Alone(t)
            /\ Shift(t, 0 - Hit(pc[t], Holding), 0 - Hit(pc[t], Twice), 0 - Hit(pc[t], Tokens))
        BY <1>1, <1>2, <1>3, <2>1, ReturnMove
      <3> QED BY <1>1, <1>2, <3>1
    <2>2. CASE ~waitSatisfied[c]
      <3>1. /\ ControlOK' /\ Alone(t)
            /\ Shift(t, Hit("resume", Holding) - Hit(pc[t], Holding),
                     Hit("resume", Twice) - Hit(pc[t], Twice),
                     Hit("resume", Tokens) - Hit(pc[t], Tokens))
        BY <1>1, <1>2, <1>3, <2>2, GotoMove
      <3> QED BY <1>1, <1>2, <3>1
    <2> QED BY <2>1, <2>2
  <1>5. /\ ReferencesOK'
        /\ \A a \in Calls : /\ Signs(a) \in Nat /\ Signs(a)' \in Nat
                            /\ Signs(a)' = Signs(a) + IF a = call'[t] THEN -1 + 1 ELSE 0
                            /\ refs'[a] = refs[a] /\ Marks(a)' <= Signs(a)'
    <2>1. \A a \in Calls : refs'[a] = refs[a] + IF a = call'[t] THEN 0 + 0 + 0 ELSE 0
      BY <1>1 DEF CallsOK
    <2>2. \A a \in Calls : /\ Pending(a) \in {0, 1} /\ Queued(a, "Completion") \in Nat
                           /\ signals[a] \in Nat /\ Claims(a) \in Nat
      BY TermTypes
    <2>3. \A a \in Calls : /\ Queued(a, "Completion")' = Queued(a, "Completion")
                           /\ Pending(a)' = Pending(a) /\ Claims(a)' = Claims(a)
      BY <1>1 DEF Queued, Pending, Claims, Attached
    <2>4. \A a \in Calls : signals'[a] = signals[a] + IF a = call'[t] THEN 1 ELSE 0
      BY <1>1, <2>2 DEF CallsOK
    <2>5. \A a \in Calls : /\ Claims(a)' = Claims(a) + IF a = call'[t] THEN 0 ELSE 0
                           /\ Marks(a)' = Marks(a) + IF a = call'[t] THEN 1 ELSE 0
      BY <2>2, <2>3, <2>4 DEF Marks
    <2>6. /\ ReferencesOK'
          /\ \A a \in Calls : /\ Signs(a) \in Nat /\ Signs(a)' \in Nat
                              /\ Signs(a)' = Signs(a) + IF a = call'[t] THEN -1 + 1 ELSE 0
      BY <1>4, <2>1, <2>5, Balance DEF CallInv
    <2>7. \A a \in Calls : Number(Tokens, a)' \in Nat /\ Marks(a)' \in Nat
      BY <1>4, TermTypesNext DEF Shift, Moves
    <2>8. \A a \in Calls : Marks(a)' <= Signs(a)'
      BY <2>7 DEF Signs
    <2> QED BY <1>1, <2>6, <2>8
  <1>6. \A a \in Calls : Signs(a)' = Signs(a)
    BY <1>5
  <1>7. /\ waitSatisfied'[c] /\ signals'[c] = signals[c] + 1
        /\ \A a \in Calls \ {c} : /\ waitSatisfied'[a] = waitSatisfied[a]
                                  /\ signals'[a] = signals[a]
    BY <1>1 DEF CallsOK
  <1>8. signals[c] = 0 /\ signals'[c] = 1 /\ ~waitSatisfied[c] /\ Signs(c) # 0
    <2>1. /\ signals[c] \in Nat /\ signals'[c] <= Marks(c)' /\ Marks(c)' \in Nat
      <3>1. Pending(c)' \in {0, 1} /\ Queued(c, "Completion")' \in Nat /\ signals'[c] \in Nat
        BY <1>1, TermTypesNext
      <3> QED BY <1>1, <3>1, TermTypes DEF Marks
    <2>2. Marks(c)' <= Signs(c)' /\ Signs(c)' = Signs(c) /\ Signs(c) \in Nat
      BY <1>1, <1>5, <1>6
    <2>3. Signs(c) <= 1 /\ (waitSatisfied[c] <=> signals[c] > 0)
      BY <1>1 DEF CallInv, SignsOK
    <2> QED BY <1>7, <2>1, <2>2, <2>3
  <1>9. pc'[t] = "resume"
    BY <1>1, <1>8 DEF Goto, Enter, ControlOK
  <1>10. SignsOK'
    <2>1. \A a \in Calls : pc'[a] = "verify" => pc[a] = "verify"
      BY <1>4, <1>9 DEF Alone, Threads
    <2>2. \A a \in Calls : waitSatisfied'[a] <=> signals'[a] > 0
      BY <1>7, <1>8 DEF CallInv, SignsOK
    <2> QED BY <1>1, <1>5, <1>6, <2>1, <2>2 DEF CallInv, SignsOK
  <1>11. FetchOK'
    BY <1>1, <1>4, <1>9, FetchStill DEF CallInv
  <1>12. SuspendOK'
    <2>1. Suspending' = Suspending \cup {t} /\ t \notin Suspending
      BY <1>1, <1>4, <1>9 DEF Suspending, Alone
    <2>2. Outstanding' = Outstanding \ {c} /\ c \in Outstanding
      BY <1>1, <1>6, <1>7, <1>8 DEF Outstanding
    <2>3. Staged("Work")' = Staged("Work") /\ Staged("Completion")' = Staged("Completion")
      BY <1>1 DEF Staged
    <2>4. Cardinality(Suspending') = Cardinality(Suspending) + 1
      BY <2>1, FiniteSums, Joins
    <2>5. Cardinality(Outstanding') = Cardinality(Outstanding) - 1
      BY <2>2, FiniteSums, Departs
    <2> QED BY <1>1, <2>3, <2>4, <2>5, FiniteSums DEF CallInv, SuspendOK
  <1> QED BY <1>4, <1>5, <1>10, <1>11, <1>12 DEF CallInv

LEMMA ResumeQueueKeeps ==
  ASSUME TypeInv, QueueOK', CallsOK', CallInv, NEW t \in Threads, ResumeQueue(t)
  PROVE  ControlOK' /\ CallInv'
  <1> USE DEF TypeInv
  <1>1. /\ pc[t] = "resume" /\ call[t] \in Calls /\ DropSuspend("Work")
        /\ Goto(t, "collect") \/ Return(t)
        /\ UNCHANGED <<stage, call, arg, refs, asked>>
        /\ UNCHANGED <<blockStatus, attached, queue, signals, waitSatisfied>>
    BY DEF ResumeQueue, ControlOK
  <1>2. /\ Hit("collect", Holding) = 0 /\ Hit("collect", Twice) = 0
        /\ Hit("collect", Tokens) = 0
        /\ Hit("resume", Holding) = 0 /\ Hit("resume", Twice) = 0 /\ Hit("resume", Tokens) = 0
        /\ {"collect", "resume"} \subseteq Labels \ Bottom /\ "collect" \notin Special
    BY DEF Hit, Holding, Twice, Tokens, Labels, Bottom, Special
  <1>3. Counted(t, 0, 0) /\ Writes(t)
    <2>1. \A a \in Calls : refs'[a] = refs[a] + IF a = call'[t] THEN 0 + 0 ELSE 0
      BY <1>1, CountSteps
    <2> QED BY <1>1, <2>1, WriteSteps DEF Counted
  <1>4. Steady(t, 0, 0) /\ pc'[t] \notin Special
    <2>1. CASE Goto(t, "collect")
      <3>1. Goes(t, "collect", 0, 0)
        BY <1>1, <1>2, <1>3, <2>1 DEF Goes, Special
      <3> QED BY <1>1, <1>2, <3>1, GotoSteady
    <2>2. CASE Return(t)
      <3>1. Leaves(t, 0, 0)
        BY <1>1, <1>2, <1>3, <2>2 DEF Leaves
      <3> QED BY <3>1, ReturnSteady
    <2> QED BY <1>1, <2>1, <2>2
  <1>5. ReferencesOK' /\ SignsOK' /\ \A a \in Calls : Signs(a)' = Signs(a)
    BY <1>4, SteadySigns DEF CallInv
  <1>6. ControlOK' /\ Alone(t)
    BY <1>4 DEF Steady
  <1>7. FetchOK'
    BY <1>1, <1>4, <1>6, FetchStill DEF CallInv, Special
  <1>8. SuspendOK'
    <2>1. Suspending' = Suspending \ {t} /\ t \in Suspending
      BY <1>1, <1>4, <1>6 DEF Suspending, Alone, Special
    <2>2. Outstanding' = Outstanding
      BY <1>1, <1>5 DEF Outstanding
    <2>3. Staged("Work")' = Staged("Work") /\ Staged("Completion")' = Staged("Completion")
      BY <1>1 DEF Staged
    <2>4. /\ suspends'["Work"] = suspends["Work"] - 1
          /\ suspends'["Completion"] = suspends["Completion"]
      BY <1>1 DEF DropSuspend, QueueOK, Ports
    <2>5. Cardinality(Suspending') = Cardinality(Suspending) - 1
      BY <2>1, FiniteSums, Departs
    <2> QED BY <2>2, <2>3, <2>4, <2>5, FiniteSums DEF CallInv, SuspendOK
  <1> QED BY <1>5, <1>6, <1>7, <1>8 DEF CallInv

\* A termination suspends the port from where it looks for suspends until it resumes.
LEMMA StagedStep ==
  ASSUME QueueOK, NEW k \in Terminations, TerminationStep(k) \/ PrepareWork(k)
  PROVE  /\ UNCHANGED queue
         /\ \A p \in Ports :
              suspends'[p] = suspends[p] + Cardinality(Staged(p)') - Cardinality(Staged(p))
  <1> DEFINE In == {"schedule", "park", "resume"}
  <1>1. stage \in [Terminations -> [Ports -> Stages]] /\ suspends \in [Ports -> Int]
    BY DEF QueueOK
  <1>2. \A p \in Ports : Cardinality(Staged(p)) \in Nat /\ suspends[p] \in Int
    BY <1>1, FiniteSums
  <1>3. ASSUME UNCHANGED <<suspends, queue>>,
               \A j \in Terminations, p \in Ports : stage'[j][p] \in In <=> stage[j][p] \in In
        PROVE  /\ UNCHANGED queue
               /\ \A p \in Ports : suspends'[p] = suspends[p] + Cardinality(Staged(p)')
                                                   - Cardinality(Staged(p))
    <2>1. \A p \in Ports : Staged(p)' = Staged(p)
      BY <1>3 DEF Staged
    <2> QED BY <1>2, <1>3, <2>1
  <1>4. ASSUME NEW p \in Ports, NEW to, UNCHANGED queue, stage' = [stage EXCEPT ![k][p] = to],
               \/ /\ to \in In /\ stage[k][p] \notin In /\ TakeSuspend(p)
               \/ /\ to \notin In /\ stage[k][p] \in In /\ DropSuspend(p)
        PROVE  /\ UNCHANGED queue
               /\ \A r \in Ports : suspends'[r] = suspends[r] + Cardinality(Staged(r)')
                                                   - Cardinality(Staged(r))
    <2>1. \A j \in Terminations, r \in Ports :
             stage'[j][r] = IF j = k /\ r = p THEN to ELSE stage[j][r]
      BY <1>1, <1>4
    <2>2. ASSUME NEW r \in Ports, r # p
          PROVE  Staged(r)' = Staged(r) /\ suspends'[r] = suspends[r]
      BY <1>1, <1>4, <2>1, <2>2 DEF Staged, TakeSuspend, DropSuspend
    <2>3. CASE to \in In /\ stage[k][p] \notin In /\ TakeSuspend(p)
      <3>1. Staged(p)' = Staged(p) \cup {k} /\ k \notin Staged(p)
        BY <2>1, <2>3 DEF Staged
      <3>2. Cardinality(Staged(p)') = Cardinality(Staged(p)) + 1
        BY <3>1, FiniteSums, Joins
      <3>3. suspends'[p] = suspends[p] + 1
        BY <1>1, <2>3 DEF TakeSuspend
      <3> QED BY <1>2, <1>4, <2>2, <3>2, <3>3
    <2>4. CASE to \notin In /\ stage[k][p] \in In /\ DropSuspend(p)
      <3>1. Staged(p)' = Staged(p) \ {k} /\ k \in Staged(p)
        BY <2>1, <2>4 DEF Staged
      <3>2. Cardinality(Staged(p)') = Cardinality(Staged(p)) - 1
        BY <3>1, FiniteSums, Departs
      <3>3. suspends'[p] = suspends[p] - 1
        BY <1>1, <2>4 DEF DropSuspend
      <3> QED BY <1>2, <1>4, <2>2, <3>2, <3>3
    <2> QED BY <1>4, <2>3, <2>4
  <1>5. ASSUME NEW p \in Ports, NEW from, NEW to, Advance(k, p, from, to),
               from \in In <=> to \in In, UNCHANGED <<suspends, queue>>
        PROVE  /\ UNCHANGED <<suspends, queue>>
               /\ \A j \in Terminations, r \in Ports : stage'[j][r] \in In <=> stage[j][r] \in In
    BY <1>1, <1>5 DEF Advance
  <1>6. CASE PrepareWork(k)
    BY <1>3, <1>5, <1>6 DEF PrepareWork, Ports
  <1>7. CASE PrepareCompletion(k)
    <2>1. \A j \in Terminations, r \in Ports : stage'[j][r] \in In <=> stage[j][r] \in In
      BY <1>1, <1>7 DEF PrepareCompletion, Ports
    <2> QED BY <1>3, <1>7, <2>1 DEF PrepareCompletion
  <1>8. CASE CancelTermination(k)
    BY <1>3, <1>5, <1>8 DEF CancelTermination, Ports
  <1>9. ASSUME NEW p \in Ports, PortTerminate(k, p)
        PROVE  /\ UNCHANGED queue
               /\ \A r \in Ports : suspends'[r] = suspends[r] + Cardinality(Staged(r)')
                                                   - Cardinality(Staged(r))
    <2>1. CASE SetTerminating(k, p)
      BY <1>3, <1>5, <2>1 DEF SetTerminating
    <2>2. CASE AddSuspend(k, p)
      BY <1>4, <2>2 DEF AddSuspend, Advance
    <2>3. CASE Schedule(k, p)
      BY <1>3, <1>5, <2>3 DEF Schedule
    <2>4. CASE Park(k, p)
      BY <1>3, <1>5, <2>4 DEF Park
    <2>5. CASE Resume(k, p)
      <3>1. PICK to \in {"collect", "done"} : Advance(k, p, "resume", to)
        BY <2>5 DEF Resume
      <3>2. DropSuspend(p) /\ UNCHANGED queue /\ to \notin In /\ "resume" \in In
        BY <2>5 DEF Resume
      <3> QED BY <1>4, <3>1, <3>2 DEF Advance
    <2>6. CASE Collect(k, p)
      BY <1>3, <1>5, <2>6 DEF Collect
    <2>7. CASE Deliver(k, p)
      <3>1. CASE p = "Work"
        BY <1>3, <1>5, <2>7, <3>1 DEF Deliver, Ports
      <3>2. CASE p # "Work"
        BY <1>3, <2>7, <3>2 DEF Deliver
      <3> QED BY <3>1, <3>2
    <2> QED BY <1>9, <2>1, <2>2, <2>3, <2>4, <2>5, <2>6, <2>7 DEF PortTerminate
  <1> QED BY <1>6, <1>7, <1>8, <1>9 DEF TerminationStep

\* The terminations leave the calls alone.
LEMMA QueueStepKeeps ==
  ASSUME TypeInv, CallInv, NEW k \in Terminations, QueueStep(k) \/ StartTerminate(k)
  PROVE  ControlOK' /\ CallInv'
  <1> USE DEF TypeInv
  <1>1. /\ TerminationStep(k) \/ PrepareWork(k)
        /\ UNCHANGED <<pc, stack, call, arg>>
        /\ UNCHANGED <<blockStatus, attached, refs, signals, waitSatisfied, asked>>
    BY DEF QueueStep, StartTerminate
  <1>2. /\ UNCHANGED queue
        /\ \A p \in Ports :
             suspends'[p] = suspends[p] + Cardinality(Staged(p)') - Cardinality(Staged(p))
    BY <1>1, StagedStep
  <1>3. ControlOK'
    BY <1>1 DEF ControlOK
  <1>4. \A a \in Calls : /\ References(a)' = References(a) /\ Signs(a)' = Signs(a)
    <2>1. \A a \in Calls : Claims(a)' = Claims(a) /\ Marks(a)' = Marks(a)
      BY <1>1, <1>2 DEF Claims, Marks, Attached, Pending, Queued
    <2>2. \A S, a : Number(S, a)' = Number(S, a)
      BY <1>1 DEF Number, Frames, Block, FramesOf
    <2> QED BY <2>1, <2>2 DEF References, Signs
  <1>5. ReferencesOK' /\ SignsOK'
    BY <1>1, <1>4 DEF CallInv, ReferencesOK, SignsOK
  <1>6. FetchOK'
    BY <1>1 DEF CallInv, FetchOK, Fetches
  <1>7. SuspendOK'
    <2>1. Suspending' = Suspending /\ Outstanding' = Outstanding
      BY <1>1, <1>4 DEF Suspending, Outstanding
    <2>2. /\ Cardinality(Staged("Work")') \in Nat /\ Cardinality(Staged("Completion")') \in Nat
      <3>1. IsFiniteSet(Staged("Work")') /\ IsFiniteSet(Staged("Completion")')
        BY CallAssumption, FS_Subset DEF Staged
      <3> QED BY <3>1, FS_CardinalityType
    <2> QED BY <1>2, <2>1, <2>2, FiniteSums DEF CallInv, SuspendOK, Ports
  <1> QED BY <1>3, <1>5, <1>6, <1>7 DEF CallInv

-----------------------------------------------------------------------------
(* Every step keeps the invariant.                                          *)

LEMMA ProceedTypes ==
  ASSUME TypeInv, NEW t \in Threads, Proceed(t)
  PROVE  call[t] \in Calls /\ QueueOK' /\ CallsOK'
  <1> USE DEF TypeInv
  <1>1. call[t] \in Calls
    <2>1. pc[t] # "idle"
      BY DEF Proceed, Release, ScheduleCall, ClaimSchedule, SubmitWork, Complete,
             SignalCompletion, SignalWait, ResumeQueue, CollectQueue, Settle, CleanupState,
             Cancel, TryCancel, ProviderCancel, RevertCancel, GetResult, ExtractResult
    <2> QED BY <2>1 DEF ControlOK
  <1>2. CallsOK'
    BY <1>1, CallTypesProceed DEF ControlOK
  <1>3. CASE \/ Release(t) \/ ScheduleCall(t) \/ ClaimSchedule(t) \/ Complete(t)
             \/ SignalWait(t) \/ Settle(t) \/ CleanupState(t) \/ Cancel(t) \/ TryCancel(t)
             \/ ProviderCancel(t) \/ RevertCancel(t) \/ GetResult(t) \/ ExtractResult(t)
    <2>1. UNCHANGED <<status, suspends, queue, parked, scheduled, stage, terminated>>
      BY <1>3 DEF Release, ScheduleCall, ClaimSchedule, Complete, SignalWait, Settle,
                  CleanupState, Cancel, TryCancel, ProviderCancel, RevertCancel, GetResult,
                  ExtractResult
    <2> QED BY <1>1, <1>2, <2>1 DEF QueueOK
  <1>4. CASE SubmitWork(t)
    <2>1. UNCHANGED queue \/ Submit("Work", call[t])
      BY <1>4 DEF SubmitWork
    <2>2. UNCHANGED <<status, suspends, parked, scheduled, stage, terminated>>
      BY <1>4 DEF SubmitWork
    <2>3. CASE UNCHANGED queue
      BY <1>1, <1>2, <2>2, <2>3 DEF QueueOK
    <2> QED BY <1>1, <1>2, <2>1, <2>2, <2>3, QueueTypesThread DEF Ports
  <1>5. CASE SignalCompletion(t)
    <2>1. UNCHANGED queue \/ Submit("Completion", call[t])
      BY <1>5 DEF SignalCompletion
    <2>2. UNCHANGED <<status, suspends, parked, scheduled, stage, terminated>>
      BY <1>5 DEF SignalCompletion
    <2>3. CASE UNCHANGED queue
      BY <1>1, <1>2, <2>2, <2>3 DEF QueueOK
    <2> QED BY <1>1, <1>2, <2>1, <2>2, <2>3, QueueTypesThread DEF Ports
  <1>6. CASE ResumeQueue(t)
    <2>1. DropSuspend("Work") /\ UNCHANGED <<status, queue, parked, scheduled, stage, terminated>>
      BY <1>6 DEF ResumeQueue
    <2> QED BY <1>1, <1>2, <2>1, QueueTypesThread DEF Ports
  <1>7. CASE CollectQueue(t)
    <2>1. CollectParked("Work") /\ UNCHANGED <<status, suspends, queue, stage, terminated>>
      BY <1>7 DEF CollectQueue
    <2> QED BY <1>1, <1>2, <2>1, QueueTypesThread DEF Ports
  <1> QED BY <1>3, <1>4, <1>5, <1>6, <1>7 DEF Proceed

LEMMA ProceedKeeps ==
  ASSUME TypeInv, CallInv, NEW t \in Threads, Proceed(t)
  PROVE  TypeInv' /\ CallInv'
  <1>1. call[t] \in Calls /\ QueueOK' /\ CallsOK'
    BY ProceedTypes
  <1>2. CASE \/ Release(t) \/ ScheduleCall(t) \/ ClaimSchedule(t) \/ CollectQueue(t)
             \/ Settle(t) \/ CleanupState(t) \/ Cancel(t) \/ TryCancel(t)
             \/ ProviderCancel(t) \/ RevertCancel(t)
    <2>1. PlainStep(t)
      BY <1>1, <1>2, PlainFunctions, PlainMoves DEF TypeInv
    <2> QED BY <1>1, <2>1, PlainKeeps DEF TypeInv
  <1>3. CASE SubmitWork(t)
    BY <1>1, <1>3, SubmitWorkKeeps DEF TypeInv
  <1>4. CASE Complete(t)
    BY <1>1, <1>4, CompleteKeeps DEF TypeInv
  <1>5. CASE SignalCompletion(t)
    BY <1>1, <1>5, SignalCompletionKeeps DEF TypeInv
  <1>6. CASE SignalWait(t)
    BY <1>1, <1>6, SignalWaitKeeps DEF TypeInv
  <1>7. CASE ResumeQueue(t)
    BY <1>1, <1>7, ResumeQueueKeeps DEF TypeInv
  <1>8. CASE GetResult(t)
    BY <1>1, <1>8, GetResultKeeps DEF TypeInv
  <1>9. CASE ExtractResult(t)
    BY <1>1, <1>9, ExtractKeeps DEF TypeInv
  <1> QED BY <1>2, <1>3, <1>4, <1>5, <1>6, <1>7, <1>8, <1>9 DEF Proceed

LEMMA ClientKeeps ==
  ASSUME TypeInv, CallInv, NEW a \in Calls, Begin(a) \/ ClientStep(a)
  PROVE  TypeInv' /\ CallInv'
  <1> USE DEF TypeInv
  <1>1. a \in Threads /\ call[a] = a
    BY DEF Threads, ControlOK
  <1>2. CallsOK'
    BY <1>1, CallTypesRoles
  <1>3. CASE Begin(a)
    <2>1. TakeSuspend("Work") /\ UNCHANGED <<status, queue, parked, scheduled, stage, terminated>>
      BY <1>3 DEF Begin
    <2>2. QueueOK'
      BY <2>1, QueueTypesThread DEF Ports
    <2> QED BY <1>2, <1>3, <2>2, BeginKeeps
  <1>4. CASE ClientStep(a)
    <2>1. UNCHANGED <<status, suspends, queue, parked, scheduled, stage, terminated>>
      BY <1>4 DEF ClientStep, VerifySuspend, ProviderBegin, ProviderOp, EndBegin, GetStatus,
                  WaitReturns, FetchResult
    <2>2. QueueOK'
      BY <2>1 DEF QueueOK
    <2>3. CASE VerifySuspend(a)
      BY <1>2, <2>2, <2>3, AcceptedKeeps, RefusedKeeps
    <2>4. CASE FetchResult(a)
      BY <1>2, <2>2, <2>4, FetchResultKeeps
    <2>5. CASE ProviderBegin(a) \/ EndBegin(a) \/ GetStatus(a) \/ WaitReturns(a)
      <3>1. PlainStep(a)
        BY <1>1, <2>5, PlainClient, PlainMoves
      <3> QED BY <1>1, <1>2, <2>2, <3>1, PlainKeeps
    <2> QED BY <1>4, <2>3, <2>4, <2>5 DEF ClientStep
  <1> QED BY <1>3, <1>4

LEMMA WorkerKeeps ==
  ASSUME TypeInv, CallInv, NEW w \in Workers, WorkerStep(w)
  PROVE  TypeInv' /\ CallInv'
  <1> USE DEF TypeInv
  <1>1. w \in Threads /\ (pc[w] # "idle" => call[w] \in Calls)
    BY OtherThreads DEF ControlOK
  <1>2. CallsOK'
    BY <1>1, CallTypesRoles
  <1>3. CASE RunWork(w)
    <2>1. /\ queue["Work"] # <<>> /\ queue' = [queue EXCEPT !["Work"] = Tail(@)]
          /\ UNCHANGED <<status, suspends, parked, scheduled, stage, terminated>>
      BY <1>3 DEF RunWork
    <2>2. QueueOK'
      BY <2>1, QueueTypesThread DEF Ports
    <2> QED BY <1>2, <1>3, <2>2, RunWorkKeeps
  <1>4. CASE StartWork(w) \/ Abort(w) \/ ProviderDoWork(w) \/ EndWork(w) \/ CleanupAfterWork(w)
    <2>1. UNCHANGED <<status, suspends, queue, parked, scheduled, stage, terminated>>
      BY <1>4 DEF StartWork, Abort, ProviderDoWork, ProviderOp, EndWork, CleanupAfterWork
    <2>2. QueueOK'
      BY <2>1 DEF QueueOK
    <2>3. pc[w] # "idle"
      BY <1>4 DEF StartWork, Abort, ProviderDoWork, EndWork, CleanupAfterWork
    <2>4. PlainStep(w)
      BY <1>1, <1>4, <2>3, PlainWorker, PlainMoves
    <2> QED BY <1>1, <1>2, <2>2, <2>4, PlainKeeps
  <1> QED BY <1>3, <1>4 DEF WorkerStep

LEMMA NotifierKeeps ==
  ASSUME TypeInv, CallInv, NEW n \in Notifiers, NotifierStep(n)
  PROVE  TypeInv' /\ CallInv'
  <1> USE DEF TypeInv
  <1>1. n \in Threads /\ (pc[n] # "idle" => call[n] \in Calls)
    BY OtherThreads DEF ControlOK
  <1>2. CallsOK'
    BY <1>1, CallTypesRoles
  <1>3. CASE RunCompletion(n)
    <2>1. /\ queue["Completion"] # <<>> /\ queue' = [queue EXCEPT !["Completion"] = Tail(@)]
          /\ UNCHANGED <<status, suspends, parked, scheduled, stage, terminated>>
      BY <1>3 DEF RunCompletion
    <2>2. QueueOK'
      BY <2>1, QueueTypesThread DEF Ports
    <2> QED BY <1>2, <1>3, <2>2, RunCompletionKeeps
  <1>4. CASE ClientCallback(n)
    <2>1. UNCHANGED <<status, suspends, queue, parked, scheduled, stage, terminated>>
      BY <1>4 DEF ClientCallback
    <2>2. QueueOK'
      BY <2>1 DEF QueueOK
    <2> QED BY <1>2, <1>4, <2>2, CallbackFetchKeeps
  <1> QED BY <1>3, <1>4 DEF NotifierStep

LEMMA OthersKeep ==
  ASSUME TypeInv, CallInv, NEW a \in Calls,
         \/ \E x \in Cancelers : StartCancel(x, a)
         \/ \E o \in Outsiders : OutsiderCompletes(o, a)
  PROVE  TypeInv' /\ CallInv'
  <1> USE DEF TypeInv
  <1>1. CallsOK'
    BY CallTypesRoles
  <1>2. UNCHANGED <<status, suspends, queue, parked, scheduled, stage, terminated>>
    BY DEF StartCancel, OutsiderCompletes
  <1>3. QueueOK'
    BY <1>2 DEF QueueOK
  <1> QED BY <1>1, <1>3, StartCancelKeeps, OutsiderKeeps

LEMMA TerminationKeeps ==
  ASSUME TypeInv, CallInv, NEW k \in Terminations, StartTerminate(k) \/ QueueStep(k)
  PROVE  TypeInv' /\ CallInv'
  <1> USE DEF TypeInv
  <1>1. QueueOK'
    BY QueueTypes DEF StartTerminate, QueueStep
  <1>2. UNCHANGED <<blockVars, stateVars, lifeVars, otherVars>>
    BY DEF StartTerminate, QueueStep
  <1>3. CallsOK'
    BY <1>2 DEF CallsOK
  <1> QED BY <1>1, <1>3, QueueStepKeeps

LEMMA StutterKeeps ==
  ASSUME TypeInv, CallInv, UNCHANGED vars
  PROVE  TypeInv' /\ CallInv'
  <1>1. /\ UNCHANGED <<status, suspends, queue, parked, scheduled, stage, terminated>>
        /\ UNCHANGED <<blockStatus, attached, payload, workScheduled, valid, waitSatisfied>>
        /\ UNCHANGED <<refs, cleanup, owed, cleanups, asked, schedules, signals, failFast>>
        /\ UNCHANGED <<pc, stack, call, arg>>
    BY DEF vars
  <1>2. TypeInv'
    BY <1>1 DEF TypeInv, ControlOK, QueueOK, CallsOK
  <1>3. \A a \in Calls : /\ References(a)' = References(a) /\ Signs(a)' = Signs(a)
    <2>1. \A a \in Calls : Claims(a)' = Claims(a) /\ Marks(a)' = Marks(a)
      BY <1>1 DEF Claims, Marks, Attached, Pending, Queued
    <2>2. \A S, a : Number(S, a)' = Number(S, a)
      BY <1>1 DEF Number, Frames, Block, FramesOf
    <2> QED BY <2>1, <2>2 DEF References, Signs
  <1>4. Suspending' = Suspending /\ Outstanding' = Outstanding
    BY <1>1, <1>3 DEF Suspending, Outstanding
  <1>5. Staged("Work")' = Staged("Work") /\ Staged("Completion")' = Staged("Completion")
    BY <1>1 DEF Staged
  <1>6. ReferencesOK' /\ SignsOK' /\ FetchOK'
    BY <1>1, <1>3 DEF CallInv, ReferencesOK, SignsOK, FetchOK, Fetches
  <1>7. SuspendOK'
    BY <1>1, <1>4, <1>5 DEF CallInv, SuspendOK
  <1> QED BY <1>2, <1>6, <1>7 DEF CallInv

-----------------------------------------------------------------------------
(* Nothing is counted before the first call.                                *)

LEMMA InitCounts ==
  ASSUME Init
  PROVE  \A S, a : "idle" \notin S => Number(S, a) = 0
  <1> SUFFICES ASSUME NEW S, NEW a, "idle" \notin S
               PROVE  Number(S, a) = 0
    OBVIOUS
  <1>1. \A t \in Threads : FramesOf(t) = <<"idle">> \o <<>>
    BY DEF Init, FramesOf
  <1>2. Depths(S, <<"idle">> \o <<>>) = {}
    <2>1. "idle" \in Labels /\ <<>> \in Seq(Labels)
      BY DEF Labels
    <2>2. /\ IsFiniteSet(Depths(S, <<"idle">> \o <<>>))
          /\ Weight(S, <<"idle">> \o <<>>) = Weight(S, <<>>) + Hit("idle", S)
      BY <2>1, WeightPush
    <2>3. Weight(S, <<>>) = 0 /\ Hit("idle", S) = 0
      BY WeightEmpty DEF Hit
    <2> QED BY <2>2, <2>3, FS_EmptySet DEF Weight
  <1>3. \A t \in Threads : Block(S, a, t) = {}
    BY <1>1, <1>2 DEF Block, Slots
  <1>4. Frames(S, a) = {}
    BY <1>3 DEF Frames
  <1> QED BY <1>4, FS_EmptySet DEF Number

LEMMA InitKeeps ==
  ASSUME Init
  PROVE  TypeInv /\ CallInv
  <1>1. ControlOK
    <2>1. \A t \in Threads : WellNested(pc[t], stack[t])
      BY FirstFrames DEF Init
    <2>2. \A t \in Threads : stack[t] = <<>> /\ pc[t] = "idle"
      BY DEF Init
    <2>3. "idle" \in Labels /\ "ok" \in Args /\ <<>> \in Seq(Labels)
      BY DEF Labels, Args
    <2> QED BY <2>1, <2>2, <2>3 DEF Init, ControlOK, Threads
  <1>2. QueueOK
    BY DEF Init, QueueInit, QueueOK, Stages
  <1>3. CallsOK
    <2>1. /\ blockStatus = [a \in Calls |-> "none"] /\ attached = [a \in Calls |-> FALSE]
          /\ refs = [a \in Calls |-> 0] /\ cleanup = [a \in Calls |-> "Destructor"]
          /\ workScheduled = [a \in Calls |-> FALSE] /\ valid = [a \in Calls |-> TRUE]
          /\ waitSatisfied = [a \in Calls |-> FALSE] /\ payload = [a \in Calls |-> FALSE]
      BY DEF Init
    <2>2. /\ owed = [a \in Calls |-> FALSE] /\ asked = [a \in Calls |-> FALSE]
          /\ schedules = [a \in Calls |-> 0] /\ cleanups = [a \in Calls |-> 0]
          /\ signals = [a \in Calls |-> 0] /\ failFast = FALSE
      BY DEF Init
    <2>3. /\ blockStatus \in [Calls -> {"none", "pending", "ok", "fail", "abort"}]
          /\ attached \in [Calls -> BOOLEAN] /\ payload \in [Calls -> BOOLEAN]
          /\ refs \in [Calls -> Int]
      BY <2>1
    <2>4. cleanup \in [Calls -> {"Destructor", "AfterDoWork", "InCancel", "CleanedUp"}]
      BY <2>1
    <2>5. /\ workScheduled \in [Calls -> BOOLEAN] /\ valid \in [Calls -> BOOLEAN]
          /\ waitSatisfied \in [Calls -> BOOLEAN]
      BY <2>1
    <2>6. /\ owed \in [Calls -> BOOLEAN] /\ asked \in [Calls -> BOOLEAN]
          /\ schedules \in [Calls -> Nat] /\ cleanups \in [Calls -> Nat]
          /\ signals \in [Calls -> Nat] /\ failFast \in BOOLEAN
      BY <2>2
    <2> QED BY <2>3, <2>4, <2>5, <2>6 DEF CallsOK
  <1>4. \A a \in Calls : /\ Number(Holding, a) = 0 /\ Number(Twice, a) = 0
                         /\ Number(Tokens, a) = 0
    BY InitCounts, IdleSets
  <1>5. \A a \in Calls : Claims(a) = 0 /\ Marks(a) = 0
    <2>1. \A a : Queued(a, "Work") = 0 /\ Queued(a, "Completion") = 0
      <3>1. \A a : Spots(a, <<>>) = {}
        BY DEF Spots
      <3>2. queue["Work"] = <<>> /\ queue["Completion"] = <<>>
        BY DEF Init, QueueInit, Ports
      <3> QED BY <3>1, <3>2, FS_EmptySet DEF Queued
    <2>2. \A a \in Calls : ~attached[a] /\ blockStatus[a] = "none" /\ signals[a] = 0
      BY DEF Init
    <2> QED BY <2>1, <2>2 DEF Claims, Marks, Attached, Pending
  <1>6. \A a \in Calls : References(a) = 0 /\ Signs(a) = 0
    BY <1>4, <1>5 DEF References, Signs
  <1>7. ReferencesOK
    BY <1>6 DEF ReferencesOK, Init
  <1>8. SignsOK
    BY <1>6 DEF SignsOK, Init, Threads
  <1>9. FetchOK
    BY DEF FetchOK, Fetches, Init
  <1>10. SuspendOK
    <2>1. Suspending = {}
      BY DEF Suspending, Init
    <2>2. Outstanding = {}
      BY <1>6 DEF Outstanding
    <2>3. Staged("Work") = {} /\ Staged("Completion") = {}
      BY DEF Staged, Init, QueueInit, Ports
    <2>4. suspends["Work"] = 0 /\ suspends["Completion"] = 0
      BY DEF Init, QueueInit, Ports
    <2> QED BY <2>1, <2>2, <2>3, <2>4, FS_EmptySet DEF SuspendOK
  <1> QED BY <1>1, <1>2, <1>3, <1>7, <1>8, <1>9, <1>10 DEF TypeInv, CallInv

\* The inductive invariant: the reference count is the number of the holders, a call
\* has one sign, one thread fetches its result, and the suspends are accounted for.
THEOREM CallsInvariant == Spec => [](TypeInv /\ CallInv)
  <1>1. Init => TypeInv /\ CallInv
    BY InitKeeps
  <1>2. TypeInv /\ CallInv /\ [Next]_vars => TypeInv' /\ CallInv'
    <2> SUFFICES ASSUME TypeInv, CallInv, [Next]_vars
                 PROVE  TypeInv' /\ CallInv'
      OBVIOUS
    <2>1. CASE UNCHANGED vars
      BY <2>1, StutterKeeps
    <2>2. ASSUME NEW t \in Threads, Proceed(t)
          PROVE  TypeInv' /\ CallInv'
      BY <2>2, ProceedKeeps
    <2>3. ASSUME NEW a \in Calls, Begin(a) \/ ClientStep(a)
          PROVE  TypeInv' /\ CallInv'
      BY <2>3, ClientKeeps
    <2>4. ASSUME NEW w \in Workers, WorkerStep(w)
          PROVE  TypeInv' /\ CallInv'
      BY <2>4, WorkerKeeps
    <2>5. ASSUME NEW n \in Notifiers, NotifierStep(n)
          PROVE  TypeInv' /\ CallInv'
      BY <2>5, NotifierKeeps
    <2>6. ASSUME NEW a \in Calls,
                 \/ \E x \in Cancelers : StartCancel(x, a)
                 \/ \E o \in Outsiders : OutsiderCompletes(o, a)
          PROVE  TypeInv' /\ CallInv'
      BY <2>6, OthersKeep
    <2>7. ASSUME NEW k \in Terminations, StartTerminate(k) \/ QueueStep(k)
          PROVE  TypeInv' /\ CallInv'
      BY <2>7, TerminationKeeps
    <2> QED BY <2>1, <2>2, <2>3, <2>4, <2>5, <2>6, <2>7 DEF Next
  <1> QED BY <1>1, <1>2, PTL DEF Spec

-----------------------------------------------------------------------------
(* What follows for every state                                             *)


LEMMA NumberType ==
  ASSUME ControlOK, NEW S, NEW a
  PROVE  IsFiniteSet(Frames(S, a)) /\ Number(S, a) \in Nat
  <1>1. CASE Threads = {}
    BY <1>1, FS_EmptySet DEF Frames, Number
  <1>2. ASSUME NEW t \in Threads
        PROVE  IsFiniteSet(Frames(S, a))
    <2> DEFINE M == [u \in Threads |-> Block(S, a, u)]
    <2>1. \A u \in Threads : IsFiniteSet(M[u])
      BY BlockCount
    <2>2. \A u, v \in Threads : u # v => M[u] \cap M[v] = {}
      BY DEF Block, Slots
    <2>3. Frames(S, a) = UNION {M[u] : u \in Threads}
      BY DEF Frames
    <2> HIDE DEF M
    <2>4. IsFiniteSet(UNION {M[u] : u \in Threads})
      BY <1>2, <2>1, <2>2, SplitUnion
    <2> QED BY <2>3, <2>4
  <1> QED BY <1>1, <1>2, FS_CardinalityType DEF Number

\* A thread that has a place in S is counted there.
LEMMA PlaceCounts ==
  ASSUME ControlOK, NEW t \in Threads, NEW S, NEW p \in S, p \in Places(t)
  PROVE  Number(S, call[t]) > 0
  <1> DEFINE s == stack[t]
             e == <<pc[t]>>
             f == e \o s
  <1>1. pc[t] \in Labels /\ s \in Seq(Labels)
    BY DEF ControlOK
  <1>2. /\ Len(s) \in Nat /\ Len(f) = Len(s) + 1 /\ DOMAIN s = 1 .. Len(s)
        /\ f[1] = pc[t] /\ \A n \in 1 .. Len(s) : f[n + 1] = s[n]
    <2>1. e \in Seq(Labels) /\ Len(e) = 1 /\ e[1] = pc[t]
      BY <1>1
    <2> HIDE DEF e, s
    <2>2. /\ Len(f) = Len(e) + Len(s)
          /\ \A n \in 1 .. Len(e) + Len(s) :
                f[n] = IF n <= Len(e) THEN e[n] ELSE s[n - Len(e)]
      BY <1>1, <2>1, ConcatProperties
    <2>3. Len(s) \in Nat /\ DOMAIN s = 1 .. Len(s)
      BY <1>1
    <2> HIDE DEF f
    <2>4. f[1] = pc[t]
      BY <2>1, <2>2, <2>3
    <2>5. ASSUME NEW n \in 1 .. Len(s)
          PROVE  f[n + 1] = s[n]
      <3>1. n + 1 \in 1 .. Len(e) + Len(s) /\ ~(n + 1 <= Len(e)) /\ n + 1 - Len(e) = n
        BY <2>1, <2>3
      <3> QED BY <2>2, <3>1
    <2> QED BY <2>1, <2>2, <2>3, <2>4, <2>5
  <1>3. PICK m \in 1 .. Len(s) + 1 : f[m] = p
    <2>1. CASE p = pc[t]
      BY <1>2, <2>1
    <2>2. CASE p # pc[t]
      <3>1. PICK n \in 1 .. Len(s) : s[n] = p
        BY <1>2, <2>2 DEF Places
      <3>2. n + 1 \in 1 .. Len(s) + 1 /\ f[n + 1] = p
        BY <1>2, <3>1
      <3> QED BY <3>2
    <2> QED BY <2>1, <2>2
  <1> DEFINE d == Len(s) + 2 - m
  <1>4. d \in Depths(S, f)
    <2> HIDE DEF f, s
    <2>1. d \in 1 .. Len(f) /\ Len(f) + 1 - d = m
      BY <1>2, <1>3
    <2> HIDE DEF d
    <2> QED BY <1>3, <2>1 DEF Depths
  <1>5. FramesOf(t) = f
    BY DEF FramesOf
  <1> HIDE DEF f, d
  <1>6. <<t, d>> \in Block(S, call[t], t)
    BY <1>4, <1>5 DEF Block, Slots
  <1>7. Frames(S, call[t]) # {}
    BY <1>6 DEF Frames
  <1>8. IsFiniteSet(Frames(S, call[t])) /\ Number(S, call[t]) \in Nat
    BY NumberType
  <1>9. Number(S, call[t]) # 0
    BY <1>7, <1>8, FS_EmptySet DEF Number
  <1> QED BY <1>8, <1>9

LEMMA CountsFollow ==
  ASSUME TypeInv, CallInv, NEW a \in Calls
  PROVE  /\ Signs(a) \in Nat /\ refs[a] \in Nat /\ signals[a] \in Nat
         /\ Claims(a) \in Nat /\ Number(Holding, a) \in Nat
         /\ Claims(a) <= refs[a] /\ Number(Holding, a) <= refs[a]
         /\ signals[a] <= Signs(a)
  <1>1. /\ Number(Holding, a) \in Nat /\ Number(Twice, a) \in Nat /\ Number(Tokens, a) \in Nat
    BY NumberType DEF TypeInv
  <1>2. Claims(a) \in Nat /\ Marks(a) \in Nat /\ signals[a] \in Nat /\ signals[a] <= Marks(a)
    BY TermTypes DEF TypeInv
  <1>3. refs[a] = References(a)
    BY DEF CallInv, ReferencesOK
  <1> QED BY <1>1, <1>2, <1>3 DEF References, Signs

\* The types of the calls' and the queue's state; that neither a count of references
\* nor one of suspends goes below zero is the sums' doing (AsyncState::Release,
\* TaskQueuePortContextImpl::RemoveSuspend).
THEOREM TypeCorrect == Spec => []TypeOK
  <1>1. TypeInv /\ CallInv => TypeOK
    <2> SUFFICES ASSUME TypeInv, CallInv
                 PROVE  TypeOK
      OBVIOUS
    <2>1. refs \in [Calls -> Nat]
      <3>1. \A a \in Calls : refs[a] \in Nat
        BY CountsFollow
      <3> QED BY <3>1 DEF TypeInv, CallsOK
    <2>2. suspends \in [Ports -> Nat]
      <3>1. suspends["Work"] \in Nat /\ suspends["Completion"] \in Nat
        BY FiniteSums DEF CallInv, SuspendOK
      <3> QED BY <3>1 DEF TypeInv, QueueOK, Ports
    <2>3. /\ pc \in [Threads -> Labels] /\ stack \in [Threads -> Seq(Labels)]
          /\ call \in [Threads -> Calls \cup {None}]
          /\ arg \in [Threads -> {"ok", "data", "fail", "abort", "pending"}]
      BY DEF TypeInv, ControlOK, Args
    <2>4. /\ status \in [Ports -> {"Active", "Canceled", "Terminating", "Terminated"}]
          /\ queue \in [Ports -> Seq(Calls)]
          /\ parked \in [Ports -> SUBSET Terminations]
          /\ scheduled \in [Ports -> SUBSET Terminations]
          /\ terminated \subseteq Terminations
      BY DEF TypeInv, QueueOK
    <2> QED BY <2>1, <2>2, <2>3, <2>4 DEF TypeInv, CallsOK, TypeOK
  <1> QED BY <1>1, CallsInvariant, PTL

\* SignalWait's assertion: a call is signaled once, however completion, cancellation and
\* termination race (XAsync.cpp, SignalWait).
THEOREM CallsSignaledOnce == Spec => []SignaledOnce
  <1>1. TypeInv /\ CallInv => SignaledOnce
    <2> SUFFICES ASSUME TypeInv, CallInv, NEW a \in Calls
                 PROVE  signals[a] <= 1
      BY DEF SignaledOnce
    <2>1. Signs(a) \in Nat /\ signals[a] \in Nat /\ signals[a] <= Signs(a)
      BY CountsFollow
    <2>2. Signs(a) <= 1
      BY DEF CallInv, SignsOK
    <2> QED BY <2>1, <2>2
  <1> QED BY <1>1, CallsInvariant, PTL

\* Nobody uses an AsyncState that was deleted: the count of references is at least that
\* of its holders, the block, a queued callback or a thread's AsyncStateRef.
THEOREM ReferencesAreLive == Spec => []LiveReferences
  <1>1. TypeInv /\ CallInv => LiveReferences
    <2> SUFFICES ASSUME TypeInv, CallInv, NEW a \in Calls,
                        \/ attached[a]
                        \/ \E p \in Ports : \E n \in DOMAIN queue[p] : queue[p][n] = a
                        \/ \E t \in Threads : call[t] = a /\ "release" \in Places(t)
                 PROVE  refs[a] > 0
      BY DEF LiveReferences
    <2>1. /\ refs[a] \in Nat /\ Claims(a) \in Nat /\ Number(Holding, a) \in Nat
          /\ Claims(a) <= refs[a] /\ Number(Holding, a) <= refs[a]
      BY CountsFollow
    <2>2. /\ Attached(a) <= Claims(a) /\ Queued(a, "Work") <= Claims(a)
          /\ Queued(a, "Completion") <= Claims(a)
          /\ Queued(a, "Work") \in Nat /\ Queued(a, "Completion") \in Nat
      BY TermTypes DEF TypeInv
    <2>3. CASE attached[a]
      BY <2>1, <2>2, <2>3 DEF Attached
    <2>4. ASSUME NEW p \in Ports, NEW n \in DOMAIN queue[p], queue[p][n] = a
          PROVE  refs[a] > 0
      <3>1. n \in Spots(a, queue[p])
        BY <2>4 DEF Spots
      <3>2. queue[p] \in Seq(Calls)
        BY DEF TypeInv, QueueOK
      <3>3. Queued(a, p) # 0
        BY <3>1, <3>2, SpotsFinite, FS_EmptySet DEF Queued
      <3>4. Queued(a, p) <= Claims(a) /\ Queued(a, p) \in Nat
        BY <2>2 DEF Ports
      <3> QED BY <2>1, <3>3, <3>4
    <2>5. ASSUME NEW t \in Threads, call[t] = a, "release" \in Places(t)
          PROVE  refs[a] > 0
      <3>1. "release" \in Holding
        BY DEF Holding
      <3>2. Number(Holding, a) > 0
        BY <2>5, <3>1, PlaceCounts DEF TypeInv
      <3> QED BY <2>1, <3>2
    <2> QED BY <2>3, <2>4, <2>5
  <1> QED BY <1>1, CallsInvariant, PTL

-----------------------------------------------------------------------------
(* Terminations and calls.  While the work port accepts callbacks, or a    *)
(* call is still to be signaled, no termination has come past the place    *)
(* where it looks whether the port is suspended.                           *)

NothingEnds ==
    /\ scheduled["Work"] = {} /\ scheduled["Completion"] = {} /\ terminated = {}
    /\ status["Completion"] \in {"Active", "Canceled"}
    /\ \A k \in Terminations : /\ stage[k]["Work"] \notin {"schedule", "collect"}
                               /\ stage[k]["Completion"] \in {"none", "prepared"}

\* A port that accepts callbacks has no termination that has begun to end it.
PortOpen ==
    ~Refuses("Work") =>
        /\ NothingEnds /\ parked["Work"] = {}
        /\ \A k \in Terminations :
              stage[k]["Work"] \in {"none", "prepared", "canceled", "start"}

CallsOpen == Outstanding # {} => NothingEnds

EndsOK == PortOpen /\ CallsOpen /\ ~failFast

\* Nobody moves what is parked on behalf of a resume while a call is to be signaled:
\* the window between RemoveSuspend and the loop that schedules the terminations in
\* TaskQueuePortContextImpl's ResumeTermination is not hit by another XAsyncBegin.
NoLateCollect ==
    \A t \in Threads : pc[t] = "collect" => Outstanding = {} \/ parked["Work"] = {}

\* Only an accepted XAsyncBegin makes a call outstanding: the suspends leave room for
\* no other.
LEMMA NoneBegins ==
  ASSUME TypeInv, CallInv, CallInv', NEW t \in Threads, UNCHANGED stage,
         \E p : pc' = [pc EXCEPT ![t] = p],
         \/ /\ UNCHANGED suspends
            /\ pc[t] \in {"verify", "resume"} => pc'[t] \in {"verify", "resume"}
         \/ /\ suspends'["Work"] = suspends["Work"] - 1
            /\ pc[t] \in {"verify", "resume"}
         \/ /\ suspends'["Work"] = suspends["Work"] + 1
            /\ pc[t] \notin {"verify", "resume"} /\ pc'[t] \in {"verify", "resume"},
         Outstanding' # {}
  PROVE  Outstanding # {}
  <1>1. pc \in [Threads -> Labels]
    BY DEF TypeInv, ControlOK
  <1>2. \A u \in Threads \ {t} : pc'[u] = pc[u]
    BY <1>1
  <1>3. /\ suspends["Work"] = Cardinality(Suspending) + Cardinality(Outstanding)
                                + Cardinality(Staged("Work"))
        /\ suspends'["Work"] = Cardinality(Suspending') + Cardinality(Outstanding')
                                + Cardinality(Staged("Work")')
        /\ Staged("Work")' = Staged("Work")
    BY DEF CallInv, SuspendOK, Staged
  <1>4. IsFiniteSet(Suspending') /\ IsFiniteSet(Outstanding')
    <2>1. IsFiniteSet(Calls)
      BY CallAssumption, FS_Subset DEF Threads
    <2>2. Outstanding' \subseteq Calls /\ Suspending' \subseteq Threads
      BY DEF Outstanding, Suspending
    <2> QED BY <2>1, <2>2, CallAssumption, FS_Subset
  <1>5. /\ Cardinality(Suspending') \in Nat /\ Cardinality(Outstanding') \in Nat
        /\ Cardinality(Suspending) \in Nat /\ Cardinality(Staged("Work")) \in Nat
        /\ Cardinality(Outstanding) \in Nat /\ Cardinality(Outstanding') # 0
    BY <1>4, FiniteSums, FS_CardinalityType, FS_EmptySet
  <1> SUFFICES Cardinality(Outstanding) # 0
    BY FS_EmptySet
  <1>6. CASE /\ UNCHANGED suspends
             /\ pc[t] \in {"verify", "resume"} => pc'[t] \in {"verify", "resume"}
    <2>1. Suspending \subseteq Suspending'
      BY <1>2, <1>6 DEF Suspending
    <2>2. Cardinality(Suspending) <= Cardinality(Suspending')
      BY <1>4, <2>1, FS_Subset
    <2> QED BY <1>3, <1>5, <1>6, <2>2
  <1>7. CASE suspends'["Work"] = suspends["Work"] - 1 /\ pc[t] \in {"verify", "resume"}
    <2>1. Suspending \ {t} \subseteq Suspending' /\ t \in Suspending
      BY <1>2, <1>7 DEF Suspending
    <2>2. Cardinality(Suspending \ {t}) <= Cardinality(Suspending')
      BY <1>4, <2>1, FS_Subset
    <2>3. Cardinality(Suspending \ {t}) = Cardinality(Suspending) - 1
      BY <2>1, FiniteSums, Departs
    <2>4. /\ Cardinality(Suspending) - 1 <= Cardinality(Suspending')
          /\ Cardinality(Suspending) + Cardinality(Outstanding) - 1
                = Cardinality(Suspending') + Cardinality(Outstanding')
      BY <1>3, <1>5, <1>7, <2>2, <2>3
    <2> QED BY <1>5, <2>4
  <1>8. CASE /\ suspends'["Work"] = suspends["Work"] + 1
             /\ pc[t] \notin {"verify", "resume"} /\ pc'[t] \in {"verify", "resume"}
    <2>1. Suspending' = Suspending \cup {t} /\ t \notin Suspending
      BY <1>2, <1>8 DEF Suspending
    <2>2. Cardinality(Suspending') = Cardinality(Suspending) + 1
      BY <2>1, FiniteSums, Joins
    <2> QED BY <1>3, <1>5, <1>8, <2>2
  <1> QED BY <1>6, <1>7, <1>8

LEMMA SameQueueKeeps ==
  ASSUME EndsOK, Outstanding' # {} => Outstanding # {},
         UNCHANGED <<status, parked, scheduled, stage, terminated, failFast>>
  PROVE  EndsOK'
  <1>1. NothingEnds' = NothingEnds
    BY DEF NothingEnds
  <1> QED BY <1>1 DEF EndsOK, PortOpen, CallsOpen, Refuses

\* The step of a thread that has nothing to do with the queue's terminations
Aside(t) ==
    /\ \E p, s : Enter(t, p, s)
    /\ pc[t] \notin {"verify", "resume"}
    /\ UNCHANGED <<status, suspends, parked, scheduled, stage, terminated, failFast>>

LEMMA AsideKeeps ==
  ASSUME TypeInv, CallInv, CallInv', EndsOK, NEW t \in Threads, Aside(t)
  PROVE  EndsOK'
  <1>1. /\ UNCHANGED <<status, suspends, parked, scheduled, stage, terminated, failFast>>
        /\ \E p : pc' = [pc EXCEPT ![t] = p]
        /\ pc[t] \notin {"verify", "resume"}
    BY DEF Aside, Enter
  <1>2. Outstanding' # {} => Outstanding # {}
    BY <1>1, NoneBegins
  <1> QED BY <1>1, <1>2, SameQueueKeeps

LEMMA ControlSteps ==
  ASSUME NEW t
  PROVE  /\ \A q, s : Enter(t, q, s) => \E p, r : Enter(t, p, r)
         /\ \A q : Goto(t, q) => \E p, r : Enter(t, p, r)
         /\ \A q, b : Call(t, q, b) => \E p, r : Enter(t, p, r)
         /\ Return(t) => \E p, r : Enter(t, p, r)
  BY DEF Goto, Call, Return

LEMMA CompleteAside ==
  ASSUME NEW t, NEW a, NEW r, NEW back, CompleteWith(t, a, r, back)
  PROVE  \E p, s : Enter(t, p, s)
  BY DEF CompleteWith

LEMMA FunctionsAside ==
  ASSUME NEW t \in Threads,
         \/ Release(t) \/ ScheduleCall(t) \/ ClaimSchedule(t) \/ SubmitWork(t)
         \/ Complete(t) \/ SignalWait(t) \/ Settle(t) \/ CleanupState(t)
         \/ Cancel(t) \/ TryCancel(t) \/ ProviderCancel(t) \/ RevertCancel(t)
         \/ GetResult(t) \/ ExtractResult(t)
  PROVE  Aside(t)
  <1>1. CASE Release(t)
    BY <1>1, ControlSteps DEF Release, Aside
  <1>2. CASE ScheduleCall(t)
    BY <1>2, ControlSteps DEF ScheduleCall, Aside
  <1>3. CASE ClaimSchedule(t)
    BY <1>3, ControlSteps DEF ClaimSchedule, Aside
  <1>4. CASE SubmitWork(t)
    BY <1>4, ControlSteps DEF SubmitWork, Aside
  <1>5. CASE Complete(t)
    BY <1>5, CompleteAside DEF Complete, Aside
  <1>6. CASE SignalWait(t)
    BY <1>6, ControlSteps DEF SignalWait, Aside
  <1>7. CASE Settle(t)
    BY <1>7, ControlSteps DEF Settle, Aside
  <1>8. CASE CleanupState(t)
    BY <1>8, ControlSteps DEF CleanupState, Aside
  <1>9. CASE Cancel(t)
    BY <1>9, ControlSteps DEF Cancel, Aside
  <1>10. CASE TryCancel(t)
    BY <1>10, ControlSteps DEF TryCancel, Aside
  <1>11. CASE ProviderCancel(t)
    BY <1>11, ControlSteps DEF ProviderCancel, Aside
  <1>12. CASE RevertCancel(t)
    BY <1>12, ControlSteps DEF RevertCancel, Aside
  <1>13. CASE GetResult(t)
    BY <1>13, ControlSteps DEF GetResult, Aside
  <1>14. CASE ExtractResult(t)
    BY <1>14, ControlSteps DEF ExtractResult, Aside
  <1> QED BY <1>1, <1>2, <1>3, <1>4, <1>5, <1>6, <1>7, <1>8, <1>9, <1>10, <1>11, <1>12,
             <1>13, <1>14

LEMMA RolesAside ==
  ASSUME NEW t \in Threads,
         \/ ProviderBegin(t) \/ EndBegin(t) \/ GetStatus(t) \/ WaitReturns(t)
         \/ FetchResult(t) \/ WorkerStep(t) \/ NotifierStep(t)
         \/ \E a \in Calls : StartCancel(t, a) \/ OutsiderCompletes(t, a)
  PROVE  Aside(t)
  <1>1. CASE ProviderBegin(t) \/ ProviderDoWork(t)
    BY <1>1, ControlSteps DEF ProviderBegin, ProviderDoWork, ProviderOp, Aside
  <1>2. CASE EndBegin(t)
    BY <1>2, ControlSteps DEF EndBegin, Aside
  <1>3. CASE GetStatus(t)
    BY <1>3, ControlSteps DEF GetStatus, Aside
  <1>4. CASE WaitReturns(t)
    BY <1>4, ControlSteps DEF WaitReturns, Aside
  <1>5. CASE FetchResult(t)
    BY <1>5, ControlSteps DEF FetchResult, Aside
  <1>6. CASE RunWork(t)
    BY <1>6, ControlSteps DEF RunWork, Aside
  <1>7. CASE StartWork(t)
    BY <1>7, ControlSteps DEF StartWork, Aside
  <1>8. CASE Abort(t)
    BY <1>8, ControlSteps DEF Abort, Aside
  <1>9. CASE EndWork(t)
    BY <1>9, ControlSteps DEF EndWork, Aside
  <1>10. CASE CleanupAfterWork(t)
    BY <1>10, ControlSteps DEF CleanupAfterWork, Aside
  <1>11. CASE RunCompletion(t)
    BY <1>11, ControlSteps DEF RunCompletion, Aside
  <1>12. CASE ClientCallback(t)
    BY <1>12, ControlSteps DEF ClientCallback, Aside
  <1>13. ASSUME NEW a \in Calls, StartCancel(t, a)
         PROVE  Aside(t)
    BY <1>13, ControlSteps DEF StartCancel, Aside
  <1>14. ASSUME NEW a \in Calls, OutsiderCompletes(t, a)
         PROVE  Aside(t)
    BY <1>14, CompleteAside DEF OutsiderCompletes, Aside
  <1> QED BY <1>1, <1>2, <1>3, <1>4, <1>5, <1>6, <1>7, <1>8, <1>9, <1>10, <1>11, <1>12,
             <1>13, <1>14 DEF WorkerStep, NotifierStep

\* The completion callback is never refused: the sign its thread is about to give keeps
\* the call outstanding.
LEMMA CompletionKeeps ==
  ASSUME TypeInv, CallInv, CallInv', EndsOK, NEW t \in Threads, call[t] \in Calls,
         SignalCompletion(t)
  PROVE  EndsOK'
  <1> DEFINE a == call[t]
  <1>1. ~Refuses("Completion")
    <2>1. Signs(a) \in Nat /\ Signs(a) # 0 /\ Number(Tokens, a) > 0
      <3>1. "signal" \in Tokens /\ "signal" \in Places(t)
        BY DEF Tokens, Places, SignalCompletion
      <3>2. Number(Tokens, a) > 0
        BY <3>1, PlaceCounts DEF TypeInv
      <3>3. Number(Tokens, a) \in Nat /\ Marks(a) \in Nat
        BY NumberType, TermTypes DEF TypeInv
      <3> QED BY <3>2, <3>3 DEF Signs
    <2>2. ~waitSatisfied[a]
      <3>1. Marks(a) \in Nat /\ signals[a] \in Nat /\ signals[a] <= Marks(a)
        BY TermTypes DEF TypeInv
      <3>2. Number(Tokens, a) \in Nat
        BY NumberType DEF TypeInv
      <3>3. Signs(a) <= 1
        BY DEF CallInv, SignsOK
      <3>4. ~(signals[a] > 0)
        BY <2>1, <3>1, <3>2, <3>3 DEF Signs
      <3> QED BY <3>4 DEF CallInv, SignsOK
    <2>3. NothingEnds
      BY <2>1, <2>2 DEF Outstanding, EndsOK, CallsOpen
    <2> QED BY <2>3 DEF NothingEnds, Refuses
  <1>2. Aside(t)
    BY <1>1, ControlSteps DEF SignalCompletion, Aside
  <1> QED BY <1>2, AsideKeeps

\* XAsyncBegin's suspend, its refusal, and the suspend that is given back
LEMMA SuspendersKeep ==
  ASSUME TypeInv, CallInv, CallInv', EndsOK, NEW t \in Threads,
         \/ Begin(t) \/ ResumeQueue(t)
         \/ VerifySuspend(t) /\ Refuses("Work")
  PROVE  EndsOK'
  <1> USE DEF TypeInv
  <1>1. UNCHANGED <<status, parked, scheduled, stage, terminated, failFast>>
    BY DEF Begin, VerifySuspend, ResumeQueue
  <1>2. Outstanding' # {} => Outstanding # {}
    <2>1. \E p : pc' = [pc EXCEPT ![t] = p]
      BY DEF Begin, VerifySuspend, ResumeQueue, Goto, Return, Enter
    <2>2. CASE Begin(t)
      <3>1. suspends'["Work"] = suspends["Work"] + 1 /\ pc[t] = "idle" /\ pc'[t] = "verify"
        BY <2>2 DEF Begin, TakeSuspend, QueueOK, Ports, Enter, ControlOK
      <3> QED BY <1>1, <2>1, <3>1, NoneBegins
    <2>3. CASE VerifySuspend(t) /\ Refuses("Work")
      <3>1. UNCHANGED suspends /\ pc'[t] = "resume"
        BY <2>3 DEF VerifySuspend, Enter, ControlOK
      <3> QED BY <1>1, <2>1, <3>1, NoneBegins
    <2>4. CASE ResumeQueue(t)
      <3>1. suspends'["Work"] = suspends["Work"] - 1 /\ pc[t] = "resume"
        BY <2>4 DEF ResumeQueue, DropSuspend, QueueOK, Ports
      <3> QED BY <1>1, <2>1, <3>1, NoneBegins
    <2> QED BY <2>2, <2>3, <2>4
  <1> QED BY <1>1, <1>2, SameQueueKeeps

\* A call is accepted while nothing has begun to end.
LEMMA AcceptedOpen ==
  ASSUME EndsOK, NEW c, VerifySuspend(c), ~Refuses("Work")
  PROVE  EndsOK'
  <1>1. UNCHANGED <<status, parked, scheduled, stage, terminated, failFast>>
    BY DEF VerifySuspend
  <1>2. NothingEnds' = NothingEnds
    BY <1>1 DEF NothingEnds
  <1> QED BY <1>1, <1>2 DEF EndsOK, PortOpen, CallsOpen, Refuses

\* Whoever schedules what is parked does so after the last call was signaled.
LEMMA CollectKeeps ==
  ASSUME TypeInv, CallInv, CallInv', EndsOK, NoLateCollect, NEW t \in Threads, CollectQueue(t)
  PROVE  EndsOK'
  <1>1. /\ UNCHANGED <<status, suspends, stage, terminated, failFast>> /\ pc[t] = "collect"
        /\ CollectParked("Work") /\ \E p : pc' = [pc EXCEPT ![t] = p]
    BY DEF CollectQueue, Return, Enter
  <1>2. Outstanding' # {} => Outstanding # {}
    BY <1>1, NoneBegins
  <1>3. parked["Work"] = {} => UNCHANGED <<scheduled, parked>>
    BY <1>1 DEF CollectParked, TypeInv, QueueOK, Ports
  <1>4. CASE parked["Work"] = {}
    BY <1>1, <1>2, <1>3, <1>4, SameQueueKeeps
  <1>5. CASE parked["Work"] # {}
    <2>1. Outstanding' = {}
      BY <1>1, <1>2, <1>5 DEF NoLateCollect
    <2>2. Refuses("Work")
      BY <1>5 DEF EndsOK, PortOpen
    <2> QED BY <1>1, <2>1, <2>2 DEF EndsOK, PortOpen, CallsOpen, Refuses
  <1> QED BY <1>4, <1>5

\* A termination that finds a call to be signaled is parked, and the suspend it gives
\* back is not the last.
LEMMA TerminationEndsKeeps ==
  ASSUME TypeInv, CallInv, EndsOK, NEW k \in Terminations, StartTerminate(k) \/ QueueStep(k)
  PROVE  EndsOK'
  <1> USE DEF TypeInv
  <1>1. /\ TerminationStep(k) \/ PrepareWork(k)
        /\ UNCHANGED <<pc, stack, call, arg>>
        /\ UNCHANGED <<blockStatus, waitSatisfied, signals>>
        /\ UNCHANGED queue
    BY StagedStep DEF QueueStep, StartTerminate
  <1>2. UNCHANGED failFast
    BY DEF QueueStep, StartTerminate
  <1>3. Outstanding' = Outstanding
    <2>1. \A a \in Calls : Marks(a)' = Marks(a) /\ Number(Tokens, a)' = Number(Tokens, a)
      BY <1>1 DEF Marks, Pending, Queued, Number, Frames, Block, FramesOf
    <2> QED BY <1>1, <2>1 DEF Outstanding, Signs
  <1>4. Refuses("Work") => Refuses("Work")'
    BY <1>1 DEF TerminationStep, PrepareWork, PrepareCompletion, CancelTermination, Prepare,
                PortTerminate, SetTerminating, AddSuspend, Schedule, Park, Resume, Collect,
                Deliver, Refuses, QueueOK, Ports
  <1>5. CASE ~NothingEnds
    BY <1>2, <1>3, <1>4, <1>5 DEF EndsOK, PortOpen, CallsOpen
  <1>6. ASSUME NothingEnds, NEW p \in Ports, PortTerminate(k, p)
        PROVE  /\ Outstanding # {} => NothingEnds'
               /\ Refuses("Work")'
    <2>1. /\ stage \in [Terminations -> [Ports -> Stages]] /\ suspends \in [Ports -> Int]
          /\ k \notin scheduled[p] /\ stage[k][p] \notin {"schedule", "collect"}
          /\ p = "Completion" => stage[k][p] \in {"none", "prepared"}
      BY <1>6 DEF NothingEnds, Ports, QueueOK
    <2>2. \/ SetTerminating(k, p) \/ AddSuspend(k, p) \/ Park(k, p) \/ Resume(k, p)
      BY <1>6, <2>1 DEF PortTerminate, Schedule, Collect, Deliver, Advance
    <2>3. p = "Work"
      BY <2>1, <2>2 DEF SetTerminating, AddSuspend, Park, Resume, Advance, Ports
    <2>4. ASSUME NEW s \in Stages \ {"schedule", "collect"}, stage' = [stage EXCEPT ![k][p] = s],
                 UNCHANGED <<scheduled, terminated>>, status'["Completion"] = status["Completion"]
          PROVE  NothingEnds'
      <3>1. \A j \in Terminations : /\ stage'[j]["Completion"] = stage[j]["Completion"]
                                    /\ stage'[j]["Work"] \in {s, stage[j]["Work"]}
        BY <2>1, <2>3, <2>4 DEF Ports
      <3> QED BY <1>6, <2>4, <3>1 DEF NothingEnds
    <2>5. /\ suspends["Work"] = Cardinality(Suspending) + Cardinality(Outstanding)
                                  + Cardinality(Staged("Work"))
          /\ Cardinality(Suspending) \in Nat /\ Cardinality(Outstanding) \in Nat
          /\ Cardinality(Staged("Work")) \in Nat
          /\ Outstanding # {} => Cardinality(Outstanding) # 0
          /\ k \in Staged("Work") => Cardinality(Staged("Work")) # 0
      BY FiniteSums, FS_EmptySet DEF CallInv, SuspendOK
    <2>6. CASE SetTerminating(k, p)
      <3>1. /\ stage' = [stage EXCEPT ![k][p] = "suspend"]
            /\ UNCHANGED <<scheduled, terminated>>
            /\ status'["Completion"] = status["Completion"] /\ status'["Work"] = "Terminating"
        BY <2>3, <2>6 DEF SetTerminating, Advance, QueueOK, Ports
      <3>2. "suspend" \in Stages \ {"schedule", "collect"}
        BY DEF Stages
      <3>3. NothingEnds'
        BY <2>4, <3>1, <3>2
      <3> QED BY <3>1, <3>3 DEF Refuses
    <2>7. CASE AddSuspend(k, p)
      <3>1. /\ UNCHANGED <<scheduled, terminated, status>> /\ stage[k]["Work"] = "suspend"
            /\ suspends["Work"] # 0 => stage' = [stage EXCEPT ![k][p] = "park"]
        BY <2>3, <2>7 DEF AddSuspend, Advance
      <3>2. "park" \in Stages \ {"schedule", "collect"}
        BY DEF Stages
      <3>3. suspends["Work"] # 0 => NothingEnds'
        BY <2>4, <3>1, <3>2
      <3>4. Outstanding # {} => suspends["Work"] # 0
        BY <2>5
      <3>5. Refuses("Work")
        BY <3>1 DEF EndsOK, PortOpen
      <3> QED BY <3>1, <3>3, <3>4, <3>5 DEF Refuses
    <2>8. CASE Park(k, p)
      <3>1. /\ UNCHANGED <<scheduled, terminated, status>> /\ stage[k]["Work"] = "park"
            /\ stage' = [stage EXCEPT ![k][p] = "resume"]
        BY <2>3, <2>8 DEF Park, Advance
      <3>2. "resume" \in Stages \ {"schedule", "collect"}
        BY DEF Stages
      <3>3. NothingEnds'
        BY <2>4, <3>1, <3>2
      <3>4. Refuses("Work")
        BY <3>1 DEF EndsOK, PortOpen
      <3> QED BY <3>1, <3>3, <3>4 DEF Refuses
    <2>9. CASE Resume(k, p)
      <3>1. /\ UNCHANGED <<scheduled, terminated, status>> /\ stage[k]["Work"] = "resume"
            /\ suspends["Work"] # 1 => stage' = [stage EXCEPT ![k][p] = "done"]
        BY <2>3, <2>9 DEF Resume, Advance, LastSuspend
      <3>2. "done" \in Stages \ {"schedule", "collect"}
        BY DEF Stages
      <3>3. suspends["Work"] # 1 => NothingEnds'
        BY <2>4, <3>1, <3>2
      <3>4. k \in Staged("Work")
        BY <3>1 DEF Staged
      <3>5. Outstanding # {} => suspends["Work"] # 1
        BY <2>5, <3>4
      <3>6. Refuses("Work")
        BY <3>1 DEF EndsOK, PortOpen
      <3> QED BY <3>1, <3>3, <3>5, <3>6 DEF Refuses
    <2> QED BY <2>2, <2>6, <2>7, <2>8, <2>9
  <1>7. ASSUME NothingEnds, NEW s \in {"prepared", "canceled", "start"},
               PrepareWork(k) \/ PrepareCompletion(k) \/ CancelTermination(k),
               stage'[k]["Work"] = s, stage'[k]["Completion"] \in {"none", "prepared"}
        PROVE  EndsOK'
    <2>1. /\ \A j \in Terminations \ {k} : stage'[j] = stage[j]
          /\ UNCHANGED <<parked, scheduled, terminated>>
      BY <1>7 DEF PrepareWork, PrepareCompletion, CancelTermination, Advance, QueueOK
    <2>2. /\ status'["Completion"] \in {"Active", "Canceled"}
          /\ Refuses("Work")' = Refuses("Work")
      BY <1>7 DEF PrepareWork, PrepareCompletion, CancelTermination, Prepare, NothingEnds,
                  Refuses, QueueOK, Ports
    <2>3. NothingEnds'
      BY <1>7, <2>1, <2>2 DEF NothingEnds
    <2> QED BY <1>2, <1>7, <2>1, <2>2, <2>3 DEF EndsOK, PortOpen, CallsOpen
  <1>8. CASE NothingEnds /\ (PrepareWork(k) \/ PrepareCompletion(k) \/ CancelTermination(k))
    <2>1. stage[k]["Completion"] \in {"none", "prepared"}
      BY <1>8 DEF NothingEnds
    <2>2. /\ stage'[k]["Work"] \in {"prepared", "canceled", "start"}
          /\ stage'[k]["Completion"] \in {"none", "prepared"}
      BY <1>8, <2>1 DEF PrepareWork, PrepareCompletion, CancelTermination, Advance, QueueOK, Ports
    <2> QED BY <1>7, <1>8, <2>2
  <1>9. ASSUME NothingEnds, NEW p \in Ports, PortTerminate(k, p)
        PROVE  EndsOK'
    BY <1>2, <1>3, <1>6, <1>9 DEF EndsOK, PortOpen, CallsOpen
  <1> QED BY <1>1, <1>5, <1>8, <1>9 DEF TerminationStep

\* What no step breaks as long as nobody collects late
LEMMA EndsKept ==
  ASSUME TypeInv, CallInv, CallInv', EndsOK, NoLateCollect, [Next]_vars
  PROVE  EndsOK'
  <1>1. CASE UNCHANGED vars
    <2>1. /\ UNCHANGED <<status, parked, scheduled, stage, terminated, failFast>>
          /\ UNCHANGED <<pc, stack, call, queue, blockStatus, waitSatisfied, signals>>
      BY <1>1 DEF vars
    <2>2. Outstanding' = Outstanding
      <3>1. \A a \in Calls : Marks(a)' = Marks(a) /\ Number(Tokens, a)' = Number(Tokens, a)
        BY <2>1 DEF Marks, Pending, Queued, Number, Frames, Block, FramesOf
      <3> QED BY <2>1, <3>1 DEF Outstanding, Signs
    <2> QED BY <2>1, <2>2, SameQueueKeeps
  <1>2. ASSUME NEW t \in Threads, Proceed(t)
        PROVE  EndsOK'
    <2>1. call[t] \in Calls
      BY <1>2, ProceedTypes
    <2> QED BY <1>2, <2>1, FunctionsAside, AsideKeeps, CompletionKeeps, SuspendersKeep,
               CollectKeeps DEF Proceed
  <1>3. ASSUME NEW a \in Calls, Begin(a) \/ ClientStep(a)
        PROVE  EndsOK'
    <2>1. a \in Threads
      BY DEF Threads
    <2>2. CASE Begin(a) \/ VerifySuspend(a)
      <3>1. CASE Begin(a) \/ (VerifySuspend(a) /\ Refuses("Work"))
        BY <2>1, <3>1, SuspendersKeep
      <3>2. CASE VerifySuspend(a) /\ ~Refuses("Work")
        BY <3>2, AcceptedOpen
      <3> QED BY <2>2, <3>1, <3>2
    <2>3. CASE \/ ProviderBegin(a) \/ EndBegin(a) \/ GetStatus(a) \/ WaitReturns(a)
               \/ FetchResult(a)
      BY <2>1, <2>3, RolesAside, AsideKeeps
    <2> QED BY <1>3, <2>2, <2>3 DEF ClientStep
  <1>4. ASSUME NEW t \in Threads, WorkerStep(t) \/ NotifierStep(t)
        PROVE  EndsOK'
    BY <1>4, RolesAside, AsideKeeps
  <1>5. ASSUME NEW t \in Threads, NEW a \in Calls, StartCancel(t, a) \/ OutsiderCompletes(t, a)
        PROVE  EndsOK'
    BY <1>5, RolesAside, AsideKeeps
  <1>6. ASSUME NEW k \in Terminations, StartTerminate(k) \/ QueueStep(k)
        PROVE  EndsOK'
    BY <1>6, TerminationEndsKeeps
  <1>7. Workers \cup Notifiers \cup Cancelers \cup Outsiders \subseteq Threads
    BY DEF Threads
  <1> QED BY <1>1, <1>2, <1>3, <1>4, <1>5, <1>6, <1>7 DEF Next

LEMMA EndsFirst == Init => EndsOK
  BY DEF Init, QueueInit, EndsOK, PortOpen, CallsOpen, NothingEnds, Refuses, Ports

LEMMA EndsFollow ==
  ASSUME TypeInv, CallInv, EndsOK
  PROVE  CompletionAccepted /\ TerminationWaitsForCalls
  <1>1. ASSUME terminated # {}, NEW a \in Calls, refs[a] > 0
        PROVE  waitSatisfied[a]
    <2>1. Outstanding = {}
      BY <1>1 DEF EndsOK, CallsOpen, NothingEnds
    <2>2. Signs(a) # 0
      BY <1>1 DEF CallInv, SignsOK
    <2> QED BY <2>1, <2>2 DEF Outstanding
  <1> QED BY <1>1 DEF CompletionAccepted, TerminationWaitsForCalls, EndsOK

\* XAsyncComplete's assertion: the completion callback is never refused, as long as
\* nobody schedules parked terminations between a resume and another XAsyncBegin
\* (TaskQueuePortContextImpl, ResumeTermination and SuspendTermination).
THEOREM CompletionIsAccepted == Spec /\ []NoLateCollect => []CompletionAccepted
  <1>1. TypeInv /\ CallInv /\ EndsOK => CompletionAccepted
    BY EndsFollow
  <1>2. /\ TypeInv /\ CallInv /\ CallInv' /\ EndsOK /\ NoLateCollect /\ [Next]_vars
        => EndsOK'
    BY EndsKept
  <1> QED BY <1>1, <1>2, EndsFirst, CallsInvariant, PTL DEF Spec

\* Under the same condition a termination is called back only after every call that was
\* begun on the queue has been signaled (AllocStateNoCompletion's suspend, SignalWait's
\* resume).
THEOREM TerminationWaits == Spec /\ []NoLateCollect => []TerminationWaitsForCalls
  <1>1. TypeInv /\ CallInv /\ EndsOK => TerminationWaitsForCalls
    BY EndsFollow
  <1>2. /\ TypeInv /\ CallInv /\ CallInv' /\ EndsOK /\ NoLateCollect /\ [Next]_vars
        => EndsOK'
    BY EndsKept
  <1> QED BY <1>1, <1>2, EndsFirst, CallsInvariant, PTL DEF Spec

-----------------------------------------------------------------------------
(* One call at a time on a queue needs no condition: whoever resumes the    *)
(* queue for it does so after it was signaled or refused, and it is not     *)
(* begun again.                                                             *)

Resuming == {"resume", "collect"}

ResumesLate ==
    \A t \in Threads : pc[t] \in Resuming => Outstanding = {} /\ blockStatus[call[t]] # "none"

\* The step of a thread that does not go to resume the queue
Aloof(t) ==
    /\ pc'[t] \notin Resuming
    /\ \A u \in Threads \ {t} : pc'[u] = pc[u] /\ call'[u] = call[u]
    /\ \A a \in Calls : blockStatus'[a] = "none" => blockStatus[a] = "none"

LEMMA AloofKeeps ==
  ASSUME TypeInv, ResumesLate, NEW t \in Threads, Aloof(t), Outstanding' # {} => Outstanding # {}
  PROVE  ResumesLate'
  <1> SUFFICES ASSUME NEW u \in Threads, pc'[u] \in Resuming
               PROVE  Outstanding' = {} /\ blockStatus'[call'[u]] # "none"
    BY DEF ResumesLate
  <1>1. pc[u] \in Resuming /\ call'[u] = call[u]
    BY DEF Aloof
  <1>2. call[u] \in Calls
    BY <1>1 DEF TypeInv, ControlOK, Resuming
  <1> QED BY <1>1, <1>2 DEF Aloof, ResumesLate

LEMMA Landings ==
  ASSUME ControlOK, NEW t \in Threads
  PROVE  /\ \A q, s : Enter(t, q, s) => pc'[t] = q /\ \A u \in Threads \ {t} : pc'[u] = pc[u]
         /\ \A q : Goto(t, q) => pc'[t] = q /\ \A u \in Threads \ {t} : pc'[u] = pc[u]
         /\ \A q, b : Call(t, q, b) => pc'[t] = q /\ \A u \in Threads \ {t} : pc'[u] = pc[u]
         /\ Return(t) /\ pc[t] \notin Bottom =>
                 pc'[t] \in Pushed /\ \A u \in Threads \ {t} : pc'[u] = pc[u]
  <1>1. pc[t] \notin Bottom => Head(stack[t]) \in Pushed
    <2>1. pc[t] \notin Bottom => stack[t] \in Seq(Pushed) /\ stack[t] # <<>>
      BY DEF ControlOK, WellNested
    <2> QED BY <2>1
  <1> QED BY <1>1 DEF ControlOK, Goto, Call, Return, Enter

LEMMA CompleteAloof ==
  ASSUME TypeInv, NEW t \in Threads, NEW a \in Calls, NEW r \in Args, NEW back \in Seq(Pushed),
         back # <<>>, CompleteWith(t, a, r, back)
  PROVE  /\ pc'[t] \notin Resuming /\ \A u \in Threads \ {t} : pc'[u] = pc[u]
         /\ \A b \in Calls : blockStatus'[b] = "none" => blockStatus[b] = "none"
  <1>1. Head(back) \in Pushed
    OBVIOUS
  <1>2. \E q, s : Enter(t, q, s) /\ q \in Pushed \cup {"signal", "release"}
    BY <1>1 DEF CompleteWith
  <1>3. \A b \in Calls : blockStatus'[b] = "none" => blockStatus[b] = "none"
    BY DEF CompleteWith, TrySetTerminalStatus, TypeInv, CallsOK, Args
  <1> QED BY <1>2, <1>3, Landings DEF TypeInv, Pushed, Resuming

LEMMA FunctionsAloof ==
  ASSUME TypeInv, NEW t \in Threads, call[t] \in Calls,
         \/ Release(t) \/ ScheduleCall(t) \/ ClaimSchedule(t) \/ SubmitWork(t)
         \/ Complete(t) \/ SignalCompletion(t) \/ CollectQueue(t) \/ Settle(t)
         \/ CleanupState(t) \/ Cancel(t) \/ TryCancel(t) \/ ProviderCancel(t)
         \/ RevertCancel(t) \/ GetResult(t) \/ ExtractResult(t)
  PROVE  Aloof(t)
  <1> USE DEF TypeInv, Resuming, Pushed, Bottom
  <1> DEFINE Lands == pc'[t] \notin Resuming /\ \A u \in Threads \ {t} : pc'[u] = pc[u]
  <1>1. ASSUME ~Complete(t)
        PROVE  Lands /\ UNCHANGED <<call, blockStatus>>
    <2>1. CASE Release(t) \/ ScheduleCall(t) \/ ClaimSchedule(t) \/ SubmitWork(t)
      BY <2>1, Landings DEF Release, ScheduleCall, ClaimSchedule, SubmitWork
    <2>2. CASE SignalCompletion(t) \/ CollectQueue(t) \/ Settle(t) \/ CleanupState(t)
      BY <2>2, Landings DEF SignalCompletion, CollectQueue, Settle, CleanupState
    <2>3. CASE Cancel(t) \/ TryCancel(t) \/ ProviderCancel(t) \/ RevertCancel(t)
      BY <2>3, Landings DEF Cancel, TryCancel, ProviderCancel, RevertCancel
    <2>4. CASE GetResult(t) \/ ExtractResult(t)
      BY <2>4, Landings DEF GetResult, ExtractResult
    <2> QED BY <1>1, <2>1, <2>2, <2>3, <2>4
  <1>2. CASE Complete(t)
    <2>1. /\ stack[t] \in Seq(Pushed) /\ stack[t] # <<>> /\ arg[t] \in Args
          /\ CompleteWith(t, call[t], arg[t], stack[t]) /\ UNCHANGED call
      BY <1>2 DEF Complete, ControlOK, WellNested
    <2> QED BY <2>1, CompleteAloof DEF Aloof
  <1> QED BY <1>1, <1>2 DEF Aloof

LEMMA RolesAloof ==
  ASSUME TypeInv, NEW t \in Threads,
         \/ ProviderBegin(t) \/ EndBegin(t) \/ GetStatus(t) \/ WaitReturns(t)
         \/ FetchResult(t) \/ WorkerStep(t) \/ NotifierStep(t)
         \/ \E a \in Calls : StartCancel(t, a) \/ OutsiderCompletes(t, a)
  PROVE  Aloof(t)
  <1> USE DEF TypeInv, Resuming
  <1> DEFINE Lands == pc'[t] \notin Resuming /\ \A u \in Threads \ {t} : pc'[u] = pc[u]
  <1>1. CASE ProviderBegin(t) \/ ProviderDoWork(t)
    <2>1. Lands /\ UNCHANGED <<call, blockStatus>>
      BY <1>1, Landings DEF ProviderBegin, ProviderDoWork, ProviderOp
    <2> QED BY <2>1 DEF Aloof
  <1>2. CASE EndBegin(t) \/ GetStatus(t) \/ WaitReturns(t) \/ FetchResult(t)
    <2>1. Lands /\ UNCHANGED <<call, blockStatus>>
      BY <1>2, Landings DEF EndBegin, GetStatus, WaitReturns, FetchResult
    <2> QED BY <2>1 DEF Aloof
  <1>3. CASE StartWork(t) \/ Abort(t) \/ EndWork(t) \/ CleanupAfterWork(t) \/ ClientCallback(t)
    <2>1. Lands
      <3>1. CASE StartWork(t)
        <4>1. Goto(t, "release") \/ Goto(t, "working") \/ Call(t, "cancel", "aborting")
          BY <3>1 DEF StartWork
        <4> QED BY <4>1, Landings
      <3>2. CASE Abort(t) \/ EndWork(t)
        BY <3>2, Landings DEF Abort, EndWork
      <3>3. CASE CleanupAfterWork(t) \/ ClientCallback(t)
        BY <3>3, Landings DEF CleanupAfterWork, ClientCallback
      <3> QED BY <1>3, <3>1, <3>2, <3>3
    <2>2. UNCHANGED <<call, blockStatus>>
      BY <1>3 DEF StartWork, Abort, EndWork, CleanupAfterWork, ClientCallback
    <2> QED BY <2>1, <2>2 DEF Aloof
  <1>4. ASSUME RunWork(t) \/ RunCompletion(t) \/ \E a \in Calls : StartCancel(t, a)
        PROVE  Aloof(t)
    <2>1. Lands
      <3>1. \E q \in {"start", "start canceled", "callback", "cancel"} : \E s : Enter(t, q, s)
        BY <1>4 DEF RunWork, RunCompletion, StartCancel
      <3> QED BY <3>1, Landings
    <2>2. UNCHANGED blockStatus /\ \E c : call' = [call EXCEPT ![t] = c]
      BY <1>4 DEF RunWork, RunCompletion, StartCancel
    <2> QED BY <2>1, <2>2 DEF Aloof, ControlOK
  <1>5. ASSUME NEW a \in Calls, OutsiderCompletes(t, a)
        PROVE  Aloof(t)
    <2>1. PICK r \in ProviderResults : CompleteWith(t, a, r, <<"idle">>)
      BY <1>5 DEF OutsiderCompletes
    <2>2. r \in Args /\ <<"idle">> \in Seq(Pushed) /\ <<"idle">> # <<>>
      BY CallAssumption DEF Args, Pushed
    <2>3. call' = [call EXCEPT ![t] = a]
      BY <1>5 DEF OutsiderCompletes
    <2> QED BY <2>1, <2>2, <2>3, CompleteAloof DEF Aloof, ControlOK
  <1> QED BY <1>1, <1>2, <1>3, <1>4, <1>5 DEF WorkerStep, NotifierStep

\* With one call, whoever signals or refuses it leaves none to be signaled.
LEMMA SignalLate ==
  ASSUME TypeInv, CallInv, CallInv', ResumesLate, \A a, b \in Calls : a = b,
         NEW t \in Threads, call[t] \in Calls, SignalWait(t)
  PROVE  ResumesLate'
  <1> USE DEF TypeInv
  <1>1. waitSatisfied'[call[t]] /\ UNCHANGED <<call, blockStatus>>
    BY DEF SignalWait, CallsOK
  <1>2. Outstanding' = {}
    BY <1>1 DEF Outstanding
  <1>3. \A u \in Threads \ {t} : pc'[u] = pc[u]
    BY DEF SignalWait, Return, Goto, Enter, ControlOK
  <1>4. blockStatus[call[t]] # "none"
    <2>1. "satisfy" \in Tokens /\ "satisfy" \in Places(t)
      BY DEF Tokens, Places, SignalWait
    <2>2. Number(Tokens, call[t]) > 0
      BY <2>1, PlaceCounts
    <2>3. Signs(call[t]) # 0
      BY <2>2, NumberType, TermTypes DEF Signs
    <2> QED BY <2>3 DEF CallInv, SignsOK
  <1> QED BY <1>1, <1>2, <1>3, <1>4 DEF ResumesLate

LEMMA VerifyLate ==
  ASSUME TypeInv, CallInv, CallInv', ResumesLate, \A a, b \in Calls : a = b,
         NEW c \in Calls, VerifySuspend(c)
  PROVE  ResumesLate'
  <1> USE DEF TypeInv
  <1>1. /\ c \in Threads /\ call[c] = c /\ UNCHANGED call /\ blockStatus[c] = "none"
        /\ blockStatus'[c] # "none" /\ \A u \in Threads \ {c} : pc'[u] = pc[u]
    BY DEF VerifySuspend, Enter, ControlOK, CallsOK, CallInv, SignsOK, Threads
  <1>2. ASSUME NEW u \in Threads, pc[u] \in Resuming
        PROVE  FALSE
    <2>1. call[u] = c
      BY <1>2 DEF ControlOK, Resuming
    <2> QED BY <1>1, <1>2, <2>1 DEF ResumesLate
  <1>3. CASE Refuses("Work")
    <2>1. Outstanding = {}
      <3>1. Signs(c) = 0
        BY <1>1 DEF CallInv, SignsOK
      <3> QED BY <3>1 DEF Outstanding
    <2>2. /\ UNCHANGED <<suspends, stage>> /\ pc' = [pc EXCEPT ![c] = "resume"] /\ pc[c] = "verify"
      BY <1>3 DEF VerifySuspend, Enter
    <2>3. pc'[c] = "resume"
      BY <1>1, <2>2 DEF ControlOK
    <2>4. Outstanding' = {}
      BY <1>1, <2>1, <2>2, <2>3, NoneBegins
    <2>5. ASSUME NEW u \in Threads, pc'[u] \in Resuming
          PROVE  u = c
      BY <1>1, <1>2, <2>5
    <2> QED BY <1>1, <2>4, <2>5 DEF ResumesLate
  <1>4. CASE ~Refuses("Work")
    <2>1. pc'[c] = "begin"
      BY <1>1, <1>4 DEF VerifySuspend, Enter, ControlOK
    <2>2. \A u \in Threads : pc'[u] \notin Resuming
      BY <1>1, <1>2, <2>1 DEF Resuming
    <2> QED BY <2>2 DEF ResumesLate
  <1> QED BY <1>3, <1>4

\* One call is resumed for once, and late.
LEMMA ResumesLateKept ==
  ASSUME TypeInv, CallInv, CallInv', ResumesLate, \A a, b \in Calls : a = b, [Next]_vars
  PROVE  ResumesLate'
  <1> USE DEF TypeInv
  <1>1. ASSUME NEW t \in Threads, Aside(t), Aloof(t)
        PROVE  ResumesLate'
    <2>1. /\ UNCHANGED <<suspends, stage>> /\ \E p : pc' = [pc EXCEPT ![t] = p]
          /\ pc[t] \notin {"verify", "resume"}
      BY <1>1 DEF Aside, Enter
    <2>2. Outstanding' # {} => Outstanding # {}
      BY <2>1, NoneBegins
    <2> QED BY <1>1, <2>2, AloofKeeps
  <1>2. ASSUME UNCHANGED <<pc, stack, call, queue, blockStatus, waitSatisfied, signals>>
        PROVE  ResumesLate'
    <2>1. \A a \in Calls : Marks(a)' = Marks(a) /\ Number(Tokens, a)' = Number(Tokens, a)
      BY <1>2 DEF Marks, Pending, Queued, Number, Frames, Block, FramesOf
    <2>2. Outstanding' = Outstanding
      BY <1>2, <2>1 DEF Outstanding, Signs
    <2> QED BY <1>2, <2>2 DEF ResumesLate
  <1>3. CASE UNCHANGED vars
    BY <1>2, <1>3 DEF vars
  <1>4. ASSUME NEW t \in Threads, ResumeQueue(t)
        PROVE  ResumesLate'
    <2>1. /\ suspends'["Work"] = suspends["Work"] - 1 /\ pc[t] = "resume"
          /\ UNCHANGED <<stage, call, blockStatus>> /\ \E p : pc' = [pc EXCEPT ![t] = p]
      BY <1>4 DEF ResumeQueue, DropSuspend, QueueOK, Ports, Goto, Return, Enter
    <2>2. Outstanding' # {} => Outstanding # {}
      BY <2>1, NoneBegins
    <2>3. \A u \in Threads \ {t} : pc'[u] = pc[u]
      BY <2>1 DEF ControlOK
    <2>4. Outstanding = {} /\ blockStatus[call[t]] # "none"
      BY <2>1 DEF ResumesLate, Resuming
    <2> QED BY <2>1, <2>2, <2>3, <2>4 DEF ResumesLate
  <1>5. ASSUME NEW t \in Threads, Proceed(t)
        PROVE  ResumesLate'
    <2>1. call[t] \in Calls
      BY <1>5, ProceedTypes
    <2>2. CASE \/ Release(t) \/ ScheduleCall(t) \/ ClaimSchedule(t) \/ SubmitWork(t)
               \/ Complete(t) \/ Settle(t) \/ CleanupState(t)
               \/ Cancel(t) \/ TryCancel(t) \/ ProviderCancel(t) \/ RevertCancel(t)
               \/ GetResult(t) \/ ExtractResult(t)
      <3>1. Aside(t)
        BY <2>2, FunctionsAside
      <3>2. Aloof(t)
        BY <2>1, <2>2, FunctionsAloof
      <3> QED BY <1>1, <3>1, <3>2
    <2>3. CASE SignalCompletion(t) \/ CollectQueue(t)
      <3>1. /\ UNCHANGED <<suspends, stage>> /\ \E p : pc' = [pc EXCEPT ![t] = p]
            /\ pc[t] \notin {"verify", "resume"}
        BY <2>3 DEF SignalCompletion, CollectQueue, Goto, Return, Enter
      <3>2. Outstanding' # {} => Outstanding # {}
        BY <3>1, NoneBegins
      <3>3. Aloof(t)
        BY <2>1, <2>3, FunctionsAloof
      <3> QED BY <3>2, <3>3, AloofKeeps
    <2> QED BY <1>4, <1>5, <2>1, <2>2, <2>3, SignalLate DEF Proceed
  <1>6. ASSUME NEW c \in Calls, Begin(c)
        PROVE  ResumesLate'
    <2>1. c \in Threads /\ UNCHANGED <<call, blockStatus, stage>>
      BY <1>6 DEF Begin, Threads
    <2>2. /\ suspends'["Work"] = suspends["Work"] + 1 /\ pc[c] = "idle" /\ pc'[c] = "verify"
          /\ pc' = [pc EXCEPT ![c] = "verify"]
      BY <1>6, <2>1 DEF Begin, TakeSuspend, QueueOK, Ports, Enter, ControlOK
    <2>3. Outstanding' # {} => Outstanding # {}
      BY <2>1, <2>2, NoneBegins
    <2>4. Aloof(c)
      BY <2>1, <2>2 DEF Aloof, Resuming, ControlOK
    <2> QED BY <2>1, <2>3, <2>4, AloofKeeps
  <1>7. ASSUME NEW c \in Calls, ClientStep(c)
        PROVE  ResumesLate'
    <2>1. c \in Threads
      BY DEF Threads
    <2>2. CASE \/ ProviderBegin(c) \/ EndBegin(c) \/ GetStatus(c) \/ WaitReturns(c)
               \/ FetchResult(c)
      BY <1>1, <2>1, <2>2, RolesAside, RolesAloof
    <2> QED BY <1>7, <2>2, VerifyLate DEF ClientStep
  <1>8. ASSUME NEW t \in Threads,
               \/ WorkerStep(t) \/ NotifierStep(t)
               \/ \E a \in Calls : StartCancel(t, a) \/ OutsiderCompletes(t, a)
        PROVE  ResumesLate'
    BY <1>1, <1>8, RolesAside, RolesAloof
  <1>9. ASSUME NEW k \in Terminations, StartTerminate(k) \/ QueueStep(k)
        PROVE  ResumesLate'
    <2>1. UNCHANGED queue
      BY <1>9, StagedStep DEF QueueStep, StartTerminate
    <2> QED BY <1>2, <1>9, <2>1 DEF QueueStep, StartTerminate
  <1>10. Workers \cup Notifiers \cup Cancelers \cup Outsiders \subseteq Threads
    BY DEF Threads
  <1> QED BY <1>3, <1>5, <1>6, <1>7, <1>8, <1>9, <1>10 DEF Next

LEMMA OneCallResumesLate ==
  ASSUME \A a, b \in Calls : a = b
  PROVE  Spec => []NoLateCollect
  <1>1. ResumesLate => NoLateCollect
    BY DEF ResumesLate, NoLateCollect, Resuming
  <1>2. Init => ResumesLate
    BY DEF Init, ResumesLate, Resuming
  <1>3. TypeInv /\ CallInv /\ CallInv' /\ ResumesLate /\ [Next]_vars => ResumesLate'
    BY ResumesLateKept
  <1> QED BY <1>1, <1>2, <1>3, CallsInvariant, PTL DEF Spec

\* With one call on the queue its completion callback is never refused, whatever
\* terminations, cancels and results race with it.
THEOREM OneCallIsAccepted ==
  ASSUME \A a, b \in Calls : a = b
  PROVE  Spec => []CompletionAccepted
  BY OneCallResumesLate, CompletionIsAccepted, PTL

\* With one call on the queue no termination is called back before it was signaled.
THEOREM TerminationWaitsForOneCall ==
  ASSUME \A a, b \in Calls : a = b
  PROVE  Spec => []TerminationWaitsForCalls
  BY OneCallResumesLate, TerminationWaits, PTL

=============================================================================
