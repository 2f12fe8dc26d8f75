-------------------------- MODULE AsyncCleanupProofs --------------------------
(***************************************************************************)
(* A provider is told to clean up once, and not while its DoWork or its    *)
(* Cancel runs, for any number of calls and threads, unless two workers    *)
(* run callbacks of one call at once: then one of them may clean up behind *)
(* the other's back.                                                       *)
(***************************************************************************)
EXTENDS AsyncReferenceProofs

USE DEF blockVars, stateVars, lifeVars, threadVars, otherVars, queueVars

-----------------------------------------------------------------------------
(* The frames of a thread.  A body of XAsyncBegin or of WorkerCallback is  *)
(* the only one of its thread, none of them is open while the thread is in *)
(* XAsyncCancel, and what XAsyncComplete has to settle waits right below   *)
(* the signal.                                                             *)

Core == {"begin", "beginning", "start", "start canceled", "working", "worked"}

Bodies == Core \cup {"aborting", "after"}

WorkerAt == Bodies \ {"begin", "beginning"}

InSignal == {"signal", "satisfy", "resume", "collect", "dead"}

CancelAt == {"cancel", "try", "canceling", "revert"}

Items(f) == {f[n] : n \in DOMAIN f}

LaterItems(f) == {f[n] : n \in DOMAIN f \ {1}}

\* The places a thread returns to, and those but the next
Below(t) == Items(stack[t])

Under(t) == LaterItems(stack[t])

FrameOK(t) ==
    /\ "settle" \notin Under(t) /\ ("settle" \in Below(t) => pc[t] \in InSignal)
    /\ pc[t] \in {"complete", "schedule"} => Below(t) \cap Holding # {}
    /\ Mine(Bodies, call[t], t) <= 1
    /\ Places(t) \cap WorkerAt # {} => t \in Workers
    /\ pc[t] \in CancelAt \/ "revert" \in Below(t) => Places(t) \cap Core = {}

FramesOK == \A t \in Threads : FrameOK(t)

LEMMA PushPlaces ==
  ASSUME NEW b \in Labels, NEW s \in Seq(Labels)
  PROVE  /\ Items(<<b>> \o s) = Items(s) \cup {b}
         /\ LaterItems(<<b>> \o s) = Items(s)
         /\ LaterItems(s) \subseteq Items(s)
  <1> DEFINE f == <<b>> \o s
  <1>1. /\ Len(s) \in Nat /\ DOMAIN s = 1 .. Len(s) /\ DOMAIN f = 1 .. Len(s) + 1
        /\ f \in Seq(Labels) /\ f[1] = b /\ \A n \in 1 .. Len(s) : f[n + 1] = s[n]
    <2> DEFINE e == <<b>>
    <2>1. e \in Seq(Labels) /\ Len(e) = 1 /\ e[1] = b
      OBVIOUS
    <2> HIDE DEF e
    <2>2. /\ e \o s \in Seq(Labels) /\ Len(e \o s) = Len(e) + Len(s)
          /\ \A n \in 1 .. Len(e) + Len(s) :
                (e \o s)[n] = IF n <= Len(e) THEN e[n] ELSE s[n - Len(e)]
      BY <2>1, ConcatProperties
    <2>3. f = e \o s
      BY DEF e, f
    <2> HIDE DEF f
    <2>4. Len(s) \in Nat /\ DOMAIN s = 1 .. Len(s) /\ DOMAIN f = 1 .. Len(f)
      BY <2>2, <2>3
    <2>5. ASSUME NEW n \in 1 .. Len(s)
          PROVE  f[n + 1] = s[n]
      <3>1. n + 1 \in 1 .. Len(e) + Len(s) /\ ~(n + 1 <= Len(e)) /\ n + 1 - Len(e) = n
        BY <2>1, <2>4
      <3> QED BY <2>2, <2>3, <3>1
    <2>6. f[1] = b
      BY <2>1, <2>2, <2>3, <2>4
    <2>7. f \in Seq(Labels) /\ DOMAIN f = 1 .. Len(s) + 1
      BY <2>1, <2>2, <2>3, <2>4
    <2> QED BY <2>4, <2>5, <2>6, <2>7
  <1> HIDE DEF f
  <1>2. ASSUME NEW n \in DOMAIN f, n # 1
        PROVE  \E m \in DOMAIN s : f[n] = s[m]
    <2>1. n - 1 \in 1 .. Len(s) /\ (n - 1) + 1 = n
      BY <1>1, <1>2
    <2> QED BY <1>1, <2>1
  <1>3. ASSUME NEW m \in DOMAIN s
        PROVE  m + 1 \in DOMAIN f \ {1} /\ f[m + 1] = s[m]
    BY <1>1, <1>3
  <1>4. 1 \in DOMAIN f
    BY <1>1
  <1>5. LaterItems(f) = Items(s)
    <2>1. LaterItems(f) \subseteq Items(s)
      BY <1>2 DEF LaterItems, Items
    <2>2. Items(s) \subseteq LaterItems(f)
      BY <1>3 DEF LaterItems, Items
    <2> QED BY <2>1, <2>2
  <1>6. Items(f) = LaterItems(f) \cup {f[1]}
    BY <1>4 DEF Items, LaterItems
  <1>7. LaterItems(s) \subseteq Items(s)
    BY DEF Items, LaterItems
  <1> QED BY <1>1, <1>5, <1>6, <1>7 DEF f

LEMMA WeightNone ==
  ASSUME NEW S, NEW s \in Seq(Labels), Weight(S, s) = 0
  PROVE  Items(s) \cap S = {}
  <1>1. Len(s) \in Nat /\ DOMAIN s = 1 .. Len(s)
    OBVIOUS
  <1>2. IsFiniteSet(Depths(S, s))
    <2>1. IsFiniteSet(1 .. Len(s))
      BY <1>1, FS_Interval
    <2> QED BY <2>1, FS_Subset DEF Depths
  <1>3. Depths(S, s) = {}
    BY <1>2, FS_EmptySet DEF Weight
  <1> SUFFICES ASSUME NEW n \in DOMAIN s, s[n] \in S
               PROVE  FALSE
    BY DEF Items
  <1>4. Len(s) + 1 - n \in 1 .. Len(s) /\ Len(s) + 1 - (Len(s) + 1 - n) = n
    BY <1>1
  <1>5. Len(s) + 1 - n \in Depths(S, s)
    BY <1>4 DEF Depths
  <1> QED BY <1>3, <1>5

LEMMA WeightZero ==
  ASSUME NEW S, NEW s \in Seq(Labels), Items(s) \cap S = {}
  PROVE  Weight(S, s) = 0
  <1>1. Len(s) \in Nat /\ DOMAIN s = 1 .. Len(s)
    OBVIOUS
  <1>2. ASSUME NEW d \in 1 .. Len(s), s[Len(s) + 1 - d] \in S
        PROVE  FALSE
    <2>1. Len(s) + 1 - d \in DOMAIN s
      BY <1>1
    <2>2. s[Len(s) + 1 - d] \in Items(s)
      BY <2>1 DEF Items
    <2> QED BY <1>2, <2>2
  <1>3. Depths(S, s) = {}
    BY <1>2 DEF Depths
  <1> QED BY <1>3, FS_EmptySet DEF Weight

\* What a step does to the places of its thread
LEMMA Placed ==
  ASSUME ControlOK, NEW t \in Threads
  PROVE  /\ \A q : Goto(t, q) => /\ pc'[t] = q /\ stack'[t] = stack[t]
                                 /\ Below(t)' = Below(t) /\ Under(t)' = Under(t)
         /\ \A q, b \in Labels : Call(t, q, b) =>
                 /\ pc'[t] = q /\ stack'[t] = <<b>> \o stack[t]
                 /\ Below(t)' = Below(t) \cup {b} /\ Under(t)' = Below(t)
         /\ Return(t) /\ pc[t] \notin Bottom =>
                 /\ pc'[t] \in Pushed /\ stack[t] = <<pc'[t]>> \o stack'[t]
                 /\ Below(t) = Below(t)' \cup {pc'[t]}
                 /\ Below(t)' = Under(t) /\ Under(t)' \subseteq Below(t)'
  <1> DEFINE s == stack[t]
  <1>1. pc[t] \in Labels /\ s \in Seq(Labels) /\ WellNested(pc[t], s)
    BY DEF ControlOK
  <1>2. ASSUME NEW q, Goto(t, q)
        PROVE  pc'[t] = q /\ stack'[t] = s /\ Below(t)' = Below(t) /\ Under(t)' = Under(t)
    <2>1. pc'[t] = q /\ stack'[t] = s
      BY <1>2 DEF Goto, Enter, ControlOK
    <2> QED BY <2>1 DEF Below, Under
  <1>3. ASSUME NEW q \in Labels, NEW b \in Labels, Call(t, q, b)
        PROVE  /\ pc'[t] = q /\ stack'[t] = <<b>> \o s
               /\ Below(t)' = Below(t) \cup {b} /\ Under(t)' = Below(t)
    <2>1. pc'[t] = q /\ stack'[t] = <<b>> \o s
      BY <1>3 DEF Call, Enter, ControlOK
    <2> HIDE DEF s
    <2>2. Items(<<b>> \o s) = Items(s) \cup {b} /\ LaterItems(<<b>> \o s) = Items(s)
      BY <1>1, PushPlaces
    <2> QED BY <2>1, <2>2 DEF Below, Under, s
  <1>4. ASSUME Return(t), pc[t] \notin Bottom
        PROVE  /\ pc'[t] \in Pushed /\ stack[t] = <<pc'[t]>> \o stack'[t]
               /\ Below(t) = Below(t)' \cup {pc'[t]}
               /\ Below(t)' = Under(t) /\ Under(t)' \subseteq Below(t)'
    <2>1. s # <<>> /\ Head(s) \in Pushed
      BY <1>1, <1>4, NestedPop
    <2>2. Head(s) \in Labels /\ Tail(s) \in Seq(Labels) /\ s = <<Head(s)>> \o Tail(s)
      BY <1>1, <2>1, Unfold
    <2>3. pc'[t] = Head(s) /\ stack'[t] = Tail(s)
      BY <1>4 DEF Return, Enter, ControlOK
    <2> DEFINE r == Tail(s)
               b == Head(s)
    <2>4. b \in Labels /\ r \in Seq(Labels) /\ s = <<b>> \o r
      BY <2>2
    <2> HIDE DEF s, r, b
    <2>5. Items(<<b>> \o r) = Items(r) \cup {b} /\ LaterItems(<<b>> \o r) = Items(r)
      BY <2>4, PushPlaces
    <2>6. LaterItems(r) \subseteq Items(r)
      BY <2>4, PushPlaces
    <2>7. stack[t] = <<b>> \o r /\ pc'[t] = b /\ stack'[t] = r
      BY <2>3, <2>4 DEF s, r, b
    <2> QED BY <2>1, <2>5, <2>6, <2>7 DEF Below, Under, b
  <1> QED BY <1>2, <1>3, <1>4

-----------------------------------------------------------------------------
(* Which places follow which.  A step within a function, into one or out   *)
(* of one keeps FrameOK if it keeps to these rules.                        *)

GotoOK(p, q) ==
    /\ q \notin {"complete", "schedule"}
    /\ p \in InSignal => q \in InSignal
    /\ q \in Bodies => p \in Bodies
    /\ q \in WorkerAt => p \in WorkerAt
    /\ q \in CancelAt => p \in CancelAt
    /\ q \in Core => p \in Core

CallOK(p, q, b) ==
    /\ p \notin InSignal
    /\ q \in {"complete", "schedule"} => b \in Holding
    /\ b = "settle" => q \in InSignal
    /\ Hit(q, Bodies) + Hit(b, Bodies) <= Hit(p, Bodies)
    /\ q \in WorkerAt \/ b \in WorkerAt => p \in WorkerAt
    /\ q \in Core \/ b \in Core => p \in Core
    /\ q \in CancelAt \/ b = "revert" =>
           p \in CancelAt \/ (p \in Bodies /\ q \notin Core /\ b \notin Core)

Follows(t) ==
    /\ Alone(t) /\ call'[t] = call[t]
    /\ \/ \E q \in Labels : Goto(t, q) /\ GotoOK(pc[t], q)
       \/ \E q, b \in Labels : Call(t, q, b) /\ CallOK(pc[t], q, b)
       \/ Return(t) /\ pc[t] \notin Bottom

LEMMA PlacesSplit ==
  ASSUME NEW t
  PROVE  Places(t) = {pc[t]} \cup Below(t)
  BY DEF Places, Below, Items

LEMMA MineSplit ==
  ASSUME ControlOK, NEW t \in Threads, NEW S
  PROVE  /\ Mine(S, call[t], t) = Weight(S, stack[t]) + Hit(pc[t], S)
         /\ Weight(S, stack[t]) \in Nat /\ Hit(pc[t], S) \in {0, 1}
         /\ pc[t] \in Labels /\ stack[t] \in Seq(Labels)
  <1>1. stack[t] \in Seq(Labels) /\ "idle" \in Labels
    BY DEF ControlOK, Labels
  <1>2. Weight(S, stack[t]) \in Nat
    BY <1>1, WeightPush
  <1> QED BY <1>1, <1>2, HitType DEF Mine, ControlOK

LEMMA GotoFrame ==
  ASSUME ControlOK, NEW t \in Threads, FrameOK(t), call'[t] = call[t],
         NEW q \in Labels, Goto(t, q), GotoOK(pc[t], q)
  PROVE  FrameOK(t)'
  <1>1. /\ pc'[t] = q /\ stack'[t] = stack[t]
        /\ Below(t)' = Below(t) /\ Under(t)' = Under(t)
    BY Placed
  <1>2. Places(t) = {pc[t]} \cup Below(t) /\ Places(t)' = {q} \cup Below(t)
    BY <1>1, PlacesSplit DEF Places, Below, Items
  <1>3. Mine(Bodies, call[t], t)' <= 1
    <2>1. Mine(Bodies, call[t], t) <= 1
      BY DEF FrameOK
    <2>2. Mine(Bodies, call[t], t)' = Weight(Bodies, stack[t]) + Hit(q, Bodies)
      BY <1>1 DEF Mine
    <2>3. Hit(q, Bodies) <= Hit(pc[t], Bodies) /\ Hit(q, Bodies) \in {0, 1}
      BY DEF GotoOK, Hit
    <2> QED BY <2>1, <2>2, <2>3, MineSplit
  <1> QED BY <1>1, <1>2, <1>3 DEF FrameOK, GotoOK

LEMMA CallFrame ==
  ASSUME ControlOK, NEW t \in Threads, FrameOK(t), call'[t] = call[t],
         NEW q \in Labels, NEW b \in Labels, Call(t, q, b), CallOK(pc[t], q, b)
  PROVE  FrameOK(t)'
  <1>1. /\ pc'[t] = q /\ stack'[t] = <<b>> \o stack[t]
        /\ Below(t)' = Below(t) \cup {b} /\ Under(t)' = Below(t)
    BY Placed
  <1>2. Places(t) = {pc[t]} \cup Below(t) /\ Places(t)' = {q, b} \cup Below(t)
    BY <1>1, PlacesSplit DEF Places, Below, Items
  <1>3. Mine(Bodies, call[t], t)' <= 1
    <2>1. Mine(Bodies, call[t], t) <= 1
      BY DEF FrameOK
    <2>2. Mine(Bodies, call[t], t)' = Weight(Bodies, stack'[t]) + Hit(q, Bodies)
      BY <1>1 DEF Mine
    <2>3. Weight(Bodies, <<b>> \o stack[t]) = Weight(Bodies, stack[t]) + Hit(b, Bodies)
      BY MineSplit, WeightPush
    <2>4. Hit(q, Bodies) + Hit(b, Bodies) <= Hit(pc[t], Bodies)
      BY DEF CallOK
    <2>5. Weight(Bodies, stack'[t]) = Weight(Bodies, stack[t]) + Hit(b, Bodies)
      BY <1>1, <2>3
    <2>6. Hit(q, Bodies) \in {0, 1} /\ Hit(b, Bodies) \in {0, 1}
      BY HitType
    <2> QED BY <2>1, <2>2, <2>4, <2>5, <2>6, MineSplit
  <1>4. pc[t] \in Bodies => Below(t) \cap Core = {}
    <2> SUFFICES ASSUME pc[t] \in Bodies
                 PROVE  Below(t) \cap Core = {}
      OBVIOUS
    <2>1. Mine(Bodies, call[t], t) <= 1 /\ Hit(pc[t], Bodies) = 1
      BY DEF FrameOK, Hit
    <2>2. Weight(Bodies, stack[t]) = 0 /\ stack[t] \in Seq(Labels)
      BY <2>1, MineSplit
    <2>3. Items(stack[t]) \cap Bodies = {}
      BY <2>2, WeightNone
    <2> QED BY <2>3 DEF Below, Bodies
  <1>5. ASSUME q \in CancelAt \/ "revert" \in Below(t)'
        PROVE  Places(t)' \cap Core = {}
    <2>1. CASE pc[t] \in CancelAt \/ "revert" \in Below(t)
      <3>1. Places(t) \cap Core = {}
        BY <2>1 DEF FrameOK
      <3> QED BY <1>2, <3>1 DEF CallOK
    <2>2. CASE pc[t] \in Bodies /\ q \notin Core /\ b \notin Core
      BY <1>2, <1>4, <2>2
    <2> QED BY <1>1, <1>5, <2>1, <2>2 DEF CallOK
  <1>6. "settle" \notin Under(t)' /\ ("settle" \in Below(t)' => q \in InSignal)
    BY <1>1 DEF FrameOK, CallOK
  <1>7. q \in {"complete", "schedule"} => Below(t)' \cap Holding # {}
    BY <1>1 DEF CallOK
  <1>8. Places(t)' \cap WorkerAt # {} => t \in Workers
    BY <1>2 DEF FrameOK, CallOK
  <1> QED BY <1>1, <1>3, <1>5, <1>6, <1>7, <1>8 DEF FrameOK

LEMMA ReturnFrame ==
  ASSUME ControlOK, NEW t \in Threads, FrameOK(t), call'[t] = call[t],
         Return(t), pc[t] \notin Bottom
  PROVE  FrameOK(t)'
  <1>1. /\ pc'[t] \in Pushed /\ stack[t] = <<pc'[t]>> \o stack'[t]
        /\ Below(t) = Below(t)' \cup {pc'[t]}
        /\ Below(t)' = Under(t) /\ Under(t)' \subseteq Below(t)'
    BY Placed
  <1>2. Places(t)' = {pc'[t]} \cup Below(t)' /\ Places(t)' = Below(t)
    BY <1>1 DEF Places, Below, Items
  <1>3. Below(t) \subseteq Places(t)
    BY PlacesSplit
  <1>4. Mine(Bodies, call[t], t)' <= 1
    <2> DEFINE s == stack'[t]
               b == pc'[t]
    <2>1. Mine(Bodies, call[t], t) <= 1
      BY DEF FrameOK
    <2>2. Mine(Bodies, call[t], t)' = Weight(Bodies, s) + Hit(b, Bodies)
      BY DEF Mine
    <2>3. s \in Seq(Labels) /\ b \in Labels
      <3>1. stack[t] # <<>> /\ stack[t] \in Seq(Labels)
        BY NestedPop, MineSplit DEF ControlOK
      <3>2. s = Tail(stack[t]) /\ b = Head(stack[t])
        BY DEF Return, Enter, ControlOK
      <3> QED BY <3>1, <3>2, Unfold
    <2>4. stack[t] = <<b>> \o s
      BY <1>1
    <2> HIDE DEF s, b
    <2>5. Weight(Bodies, <<b>> \o s) = Weight(Bodies, s) + Hit(b, Bodies)
      BY <2>3, WeightPush
    <2>6. Weight(Bodies, stack[t]) = Weight(Bodies, s) + Hit(b, Bodies)
      BY <2>4, <2>5
    <2> QED BY <2>1, <2>2, <2>6, MineSplit
  <1>5. ASSUME pc'[t] \in CancelAt \/ "revert" \in Below(t)'
        PROVE  Places(t)' \cap Core = {}
    <2>1. "revert" \in Below(t)
      BY <1>1, <1>5 DEF Pushed, CancelAt
    <2> QED BY <1>2, <1>3, <2>1 DEF FrameOK
  <1>6. "settle" \notin Under(t)' /\ "settle" \notin Below(t)'
    BY <1>1 DEF FrameOK
  <1>7. pc'[t] \notin {"complete", "schedule"}
    BY <1>1 DEF Pushed
  <1>8. Places(t)' \cap WorkerAt # {} => t \in Workers
    BY <1>2, <1>3 DEF FrameOK
  <1> QED BY <1>4, <1>5, <1>6, <1>7, <1>8 DEF FrameOK

LEMMA OthersFrame ==
  ASSUME FramesOK, NEW t \in Threads, Alone(t), FrameOK(t)'
  PROVE  FramesOK'
  <1> SUFFICES ASSUME NEW u \in Threads, u # t
               PROVE  FrameOK(u)'
    BY DEF FramesOK
  <1>1. pc'[u] = pc[u] /\ stack'[u] = stack[u] /\ call'[u] = call[u]
    BY DEF Alone
  <1> QED BY <1>1 DEF FramesOK, FrameOK, Below, Under, Places, Mine

LEMMA FollowsFrame ==
  ASSUME ControlOK, NEW t \in Threads, FramesOK, Follows(t)
  PROVE  FramesOK'
  <1>1. FrameOK(t) /\ Alone(t) /\ call'[t] = call[t]
    BY DEF FramesOK, Follows
  <1>2. CASE \E q \in Labels : Goto(t, q) /\ GotoOK(pc[t], q)
    BY <1>1, <1>2, GotoFrame, OthersFrame
  <1>3. CASE \E q, b \in Labels : Call(t, q, b) /\ CallOK(pc[t], q, b)
    BY <1>1, <1>3, CallFrame, OthersFrame
  <1>4. CASE Return(t) /\ pc[t] \notin Bottom
    BY <1>1, <1>4, ReturnFrame, OthersFrame
  <1> QED BY <1>2, <1>3, <1>4 DEF Follows

-----------------------------------------------------------------------------
(* The functions keep to the rules.                                        *)

LEMMA MovesAlone ==
  ASSUME ControlOK, NEW t \in Threads, \E q, s : Enter(t, q, s),
         \/ UNCHANGED call
         \/ \E c : call' = [call EXCEPT ![t] = c],
         \/ UNCHANGED arg
         \/ \E r : arg' = [arg EXCEPT ![t] = r]
  PROVE  Alone(t)
  BY DEF ControlOK, Alone, Enter

LEMMA CallTable ==
  /\ CallOK("complete", "signal", "release") /\ CallOK("complete", "signal", "settle")
  /\ CallOK("canceling", "complete", "revert")
  /\ CallOK("begin", "complete", "beginning") /\ CallOK("begin", "schedule", "beginning")
  /\ CallOK("working", "complete", "worked") /\ CallOK("working", "schedule", "worked")
  /\ CallOK("beginning", "complete", "release") /\ CallOK("worked", "complete", "after")
  /\ CallOK("aborting", "complete", "after") /\ CallOK("start canceled", "cancel", "aborting")
  /\ CallOK("callback", "result", "satisfy")
  BY DEF CallOK, Hit, InSignal, Bodies, Core, WorkerAt, CancelAt, Holding, Twice

LEMMA StepFollows ==
  ASSUME NEW t, Alone(t), call'[t] = call[t]
  PROVE  /\ \A q \in Labels : Goto(t, q) /\ GotoOK(pc[t], q) => Follows(t)
         /\ \A q, b \in Labels : Call(t, q, b) /\ CallOK(pc[t], q, b) => Follows(t)
         /\ Return(t) /\ pc[t] \notin Bottom => Follows(t)
  BY DEF Follows

LEMMA WorkFollows ==
  ASSUME ControlOK, NEW t \in Threads, Release(t) \/ CleanupState(t) \/ Settle(t)
             \/ ScheduleCall(t) \/ ClaimSchedule(t) \/ SubmitWork(t) \/ Complete(t)
  PROVE  Follows(t)
  <1> USE DEF Goto, Call, Return, Labels, Bottom
  <1>1. Alone(t) /\ call'[t] = call[t]
    <2>1. \E q, s : Enter(t, q, s)
      BY DEF Release, CleanupState, Settle, ScheduleCall, ClaimSchedule, SubmitWork,
             Complete, CompleteWith
    <2>2. UNCHANGED call
      BY DEF Release, CleanupState, Settle, ScheduleCall, ClaimSchedule, SubmitWork, Complete
    <2>3. UNCHANGED arg \/ \E r : arg' = [arg EXCEPT ![t] = r]
      BY DEF Release, CleanupState, Settle, ScheduleCall, ClaimSchedule, SubmitWork, Complete
    <2> QED BY <2>1, <2>2, <2>3, MovesAlone
  <1> USE DEF GotoOK, CallOK, Hit, InSignal, Bodies, Core, WorkerAt, CancelAt, Holding, Twice
  <1>2. CASE Release(t)
    BY <1>1, <1>2 DEF Release, Follows
  <1>3. CASE CleanupState(t)
    BY <1>1, <1>3 DEF CleanupState, Follows
  <1>4. CASE Settle(t)
    BY <1>1, <1>4 DEF Settle, Follows
  <1>5. CASE ScheduleCall(t)
    BY <1>1, <1>5 DEF ScheduleCall, Follows
  <1>6. CASE ClaimSchedule(t)
    BY <1>1, <1>6 DEF ClaimSchedule, Follows
  <1>7. CASE SubmitWork(t)
    BY <1>1, <1>7 DEF SubmitWork, Follows
  <1>8. CASE Complete(t)
    <2>1. pc[t] = "complete" /\ CompleteWith(t, call[t], arg[t], stack[t])
      BY <1>8 DEF Complete
    <2>2. \/ Call(t, "signal", "release") \/ Call(t, "signal", "settle")
          \/ Goto(t, "release") \/ Return(t)
      BY <2>1 DEF CompleteWith
    <2> QED BY <1>1, <2>1, <2>2 DEF Follows
  <1> QED BY <1>2, <1>3, <1>4, <1>5, <1>6, <1>7, <1>8

LEMMA SignalFollows ==
  ASSUME ControlOK, NEW t \in Threads,
         \/ SignalCompletion(t) \/ SignalWait(t) \/ ResumeQueue(t) \/ CollectQueue(t)
         \/ GetResult(t) \/ ExtractResult(t)
         \/ Cancel(t) \/ TryCancel(t) \/ ProviderCancel(t) \/ RevertCancel(t)
  PROVE  Follows(t)
  <1> USE DEF Goto, Call, Return, Labels, Bottom
  <1>1. Alone(t) /\ call'[t] = call[t]
    <2>1. \E q, s : Enter(t, q, s)
      BY DEF SignalCompletion, SignalWait, ResumeQueue, CollectQueue, GetResult, ExtractResult,
             Cancel, TryCancel, ProviderCancel, RevertCancel
    <2>2. UNCHANGED call
      BY DEF SignalCompletion, SignalWait, ResumeQueue, CollectQueue, GetResult, ExtractResult,
             Cancel, TryCancel, ProviderCancel, RevertCancel
    <2>3. UNCHANGED arg \/ \E r : arg' = [arg EXCEPT ![t] = r]
      BY DEF SignalCompletion, SignalWait, ResumeQueue, CollectQueue, GetResult, ExtractResult,
             Cancel, TryCancel, ProviderCancel, RevertCancel
    <2> QED BY <2>1, <2>2, <2>3, MovesAlone
  <1> USE DEF GotoOK, CallOK, Hit, InSignal, Bodies, Core, WorkerAt, CancelAt, Holding, Twice
  <1>2. CASE SignalCompletion(t)
    BY <1>1, <1>2 DEF SignalCompletion, Follows
  <1>3. CASE SignalWait(t)
    BY <1>1, <1>3 DEF SignalWait, Follows
  <1>4. CASE ResumeQueue(t)
    BY <1>1, <1>4 DEF ResumeQueue, Follows
  <1>5. CASE CollectQueue(t)
    BY <1>1, <1>5 DEF CollectQueue, Follows
  <1>6. CASE GetResult(t)
    BY <1>1, <1>6 DEF GetResult, Follows
  <1>7. CASE ExtractResult(t)
    BY <1>1, <1>7 DEF ExtractResult, Follows
  <1>8. CASE Cancel(t)
    BY <1>1, <1>8 DEF Cancel, Follows
  <1>9. CASE TryCancel(t)
    BY <1>1, <1>9 DEF TryCancel, Follows
  <1>10. CASE ProviderCancel(t)
    BY <1>1, <1>10 DEF ProviderCancel, Follows
  <1>11. CASE RevertCancel(t)
    BY <1>1, <1>11 DEF RevertCancel, Follows
  <1> QED BY <1>2, <1>3, <1>4, <1>5, <1>6, <1>7, <1>8, <1>9, <1>10, <1>11

\* XAsyncBegin once the call is accepted, WorkerCallback and CompletionCallback
LEMMA BodyFollows ==
  ASSUME ControlOK, NEW t \in Threads,
         \/ ProviderBegin(t) /\ call[t] = t
         \/ EndBegin(t) \/ StartWork(t) \/ Abort(t) \/ ProviderDoWork(t) \/ EndWork(t)
         \/ CleanupAfterWork(t) \/ ClientCallback(t)
         \/ WaitReturns(t)
  PROVE  Follows(t)
  <1> USE DEF Goto, Call, Return, Labels, Bottom
  <1>1. Alone(t) /\ call'[t] = call[t]
    <2>1. \E q, s : Enter(t, q, s)
      BY DEF ProviderBegin, EndBegin, StartWork, Abort, ProviderDoWork, EndWork, ProviderOp,
             CleanupAfterWork, ClientCallback, WaitReturns
    <2>2. UNCHANGED call
      BY DEF ProviderBegin, EndBegin, StartWork, Abort, ProviderDoWork, EndWork, ProviderOp,
             CleanupAfterWork, ClientCallback, WaitReturns
    <2>3. UNCHANGED arg \/ \E r : arg' = [arg EXCEPT ![t] = r]
      BY DEF ProviderBegin, EndBegin, StartWork, Abort, ProviderDoWork, EndWork, ProviderOp,
             CleanupAfterWork, ClientCallback, WaitReturns
    <2> QED BY <2>1, <2>2, <2>3, MovesAlone
  <1>3. CASE ProviderDoWork(t)
    <2>1. /\ pc[t] = "working"
          /\ Call(t, "complete", "worked") \/ Call(t, "schedule", "worked")
                \/ Goto(t, "worked")
      BY <1>3 DEF ProviderDoWork, ProviderOp
    <2>2. GotoOK("working", "worked")
      BY DEF GotoOK, InSignal, Bodies, Core, WorkerAt, CancelAt
    <2> HIDE DEF Goto, Call, Return
    <2> QED BY <1>1, <2>1, <2>2, CallTable, StepFollows
  <1>5. CASE StartWork(t)
    <2>1. \/ pc[t] \in {"start", "start canceled"} /\ Goto(t, "release")
          \/ pc[t] = "start canceled" /\ Call(t, "cancel", "aborting")
          \/ pc[t] = "start" /\ Goto(t, "working")
      BY <1>5 DEF StartWork
    <2>2. /\ GotoOK("start", "release") /\ GotoOK("start canceled", "release")
          /\ GotoOK("start", "working")
      BY DEF GotoOK, InSignal, Bodies, Core, WorkerAt, CancelAt
    <2> HIDE DEF Goto, Call, Return
    <2> QED BY <1>1, <2>1, <2>2, CallTable, StepFollows
  <1>7. CASE EndWork(t)
    <2>1. pc[t] = "worked" /\ (Goto(t, "after") \/ Call(t, "complete", "after"))
      BY <1>7 DEF EndWork
    <2>2. GotoOK("worked", "after")
      BY DEF GotoOK, InSignal, Bodies, Core, WorkerAt, CancelAt
    <2> HIDE DEF Goto, Call, Return
    <2> QED BY <1>1, <2>1, <2>2, CallTable, StepFollows
  <1> USE DEF GotoOK, CallOK, Hit, InSignal, Bodies, Core, WorkerAt, CancelAt, Holding, Twice
  <1>2. CASE ProviderBegin(t)
    <2>1. /\ pc[t] = "begin"
          /\ Call(t, "complete", "beginning") \/ Call(t, "schedule", "beginning")
                \/ Goto(t, "beginning")
      BY <1>2 DEF ProviderBegin, ProviderOp
    <2> QED BY <1>1, <2>1 DEF Follows
  <1>4. CASE EndBegin(t)
    BY <1>1, <1>4 DEF EndBegin, Follows
  <1>6. CASE Abort(t)
    BY <1>1, <1>6 DEF Abort, Follows
  <1>8. CASE CleanupAfterWork(t)
    BY <1>1, <1>8 DEF CleanupAfterWork, Follows
  <1>9. CASE ClientCallback(t)
    BY <1>1, <1>9 DEF ClientCallback, Follows
  <1>10. CASE WaitReturns(t)
    BY <1>1, <1>10 DEF WaitReturns, Follows
  <1> QED BY <1>2, <1>3, <1>4, <1>5, <1>6, <1>7, <1>8, <1>9, <1>10

-----------------------------------------------------------------------------
(* A thread that is in no function enters one with a stack of its own.     *)

LEMMA ShortStacks ==
  /\ Items(<<>>) = {} /\ LaterItems(<<>>) = {} /\ \A S : Weight(S, <<>>) = 0
  /\ \A b \in Labels : /\ Items(<<b>>) = {b} /\ LaterItems(<<b>>) = {}
                       /\ \A S : Weight(S, <<b>>) = Hit(b, S)
  /\ \A b \in Pushed : /\ <<b>> \o <<"idle">> = <<b, "idle">>
                       /\ Items(<<b, "idle">>) = {b, "idle"}
                       /\ LaterItems(<<b, "idle">>) = {"idle"}
                       /\ \A S : "idle" \notin S => Weight(S, <<b, "idle">>) = Hit(b, S)
  <1>1. <<>> \in Seq(Labels) /\ Items(<<>>) = {} /\ LaterItems(<<>>) = {}
    BY DEF Items, LaterItems
  <1>2. ASSUME NEW b \in Labels
        PROVE  /\ <<b>> \in Seq(Labels) /\ Items(<<b>>) = {b} /\ LaterItems(<<b>>) = {}
               /\ \A S : Weight(S, <<b>>) = Hit(b, S)
    <2>1. <<b>> \o <<>> = <<b>> /\ <<b>> \in Seq(Labels)
      OBVIOUS
    <2>2. /\ Items(<<b>> \o <<>>) = Items(<<>>) \cup {b}
          /\ LaterItems(<<b>> \o <<>>) = Items(<<>>)
      BY <1>1, PushPlaces
    <2>3. ASSUME NEW S
          PROVE  Weight(S, <<b>> \o <<>>) = Hit(b, S)
      <3>1. Weight(S, <<b>> \o <<>>) = Weight(S, <<>>) + Hit(b, S)
        BY <1>1, WeightPush
      <3> QED BY <3>1, WeightEmpty, HitType
    <2> QED BY <1>1, <2>1, <2>2, <2>3
  <1>3. ASSUME NEW b \in Pushed
        PROVE  /\ <<b>> \o <<"idle">> = <<b, "idle">>
               /\ Items(<<b, "idle">>) = {b, "idle"}
               /\ LaterItems(<<b, "idle">>) = {"idle"}
               /\ \A S : "idle" \notin S => Weight(S, <<b, "idle">>) = Hit(b, S)
    <2>1. b \in Labels /\ "idle" \in Labels
      BY DEF Pushed, Labels
    <2>2. /\ <<"idle">> \in Seq(Labels) /\ Items(<<"idle">>) = {"idle"}
      BY <1>2, <2>1
    <2>3. /\ Items(<<b>> \o <<"idle">>) = Items(<<"idle">>) \cup {b}
          /\ LaterItems(<<b>> \o <<"idle">>) = Items(<<"idle">>)
      BY <2>1, <2>2, PushPlaces
    <2>4. <<b>> \o <<"idle">> = <<b, "idle">>
      BY TwoFrames
    <2>5. \A S : "idle" \notin S => Weight(S, <<b, "idle">>) = Hit(b, S)
      BY FirstFrames
    <2> QED BY <2>2, <2>3, <2>4, <2>5
  <1> QED BY <1>1, <1>2, <1>3, WeightEmpty

\* The rules for such an entry
EntryOK(t, q, s) ==
    /\ "settle" \notin LaterItems(s) /\ ("settle" \in Items(s) => q \in InSignal)
    /\ q \notin {"complete", "schedule"}
    /\ Weight(Bodies, s) + Hit(q, Bodies) <= 1
    /\ ({q} \cup Items(s)) \cap WorkerAt # {} => t \in Workers
    /\ q \in CancelAt \/ "revert" \in Items(s) => ({q} \cup Items(s)) \cap Core = {}

LEMMA EntryFrame ==
  ASSUME ControlOK, FramesOK, NEW t \in Threads, Alone(t), NEW q, NEW s, Enter(t, q, s),
         EntryOK(t, q, s)
  PROVE  FramesOK'
  <1>1. pc'[t] = q /\ stack'[t] = s
    BY DEF Enter, ControlOK
  <1>2. /\ Below(t)' = Items(s) /\ Under(t)' = LaterItems(s)
        /\ Places(t)' = {q} \cup Items(s)
        /\ Mine(Bodies, call[t], t)' = Weight(Bodies, s) + Hit(q, Bodies)
    BY <1>1 DEF Below, Under, Places, Items, Mine
  <1>3. FrameOK(t)'
    BY <1>1, <1>2 DEF FrameOK, EntryOK
  <1> QED BY <1>3, OthersFrame

\* q is the place where it goes, b the one it comes back to
EntryRule(t, q, b) ==
    /\ q \notin {"complete", "schedule"}
    /\ b = "settle" => q \in InSignal
    /\ Hit(b, Bodies) + Hit(q, Bodies) <= 1
    /\ q \in WorkerAt \/ b \in WorkerAt => t \in Workers
    /\ b # "revert" /\ (q \in CancelAt => q \notin Core /\ b \notin Core)

LEMMA EntryRules ==
  ASSUME NEW t, NEW q
  PROVE  /\ EntryRule(t, q, "idle") => EntryOK(t, q, <<>>)
         /\ \A b \in Labels : EntryRule(t, q, b) => EntryOK(t, q, <<b>>)
         /\ \A b \in Pushed : EntryRule(t, q, b) =>
                EntryOK(t, q, <<b, "idle">>) /\ EntryOK(t, q, <<b>> \o <<"idle">>)
  <1>1. ASSUME NEW s, NEW b, Items(s) \subseteq {b, "idle"}, LaterItems(s) \subseteq {"idle"},
               Weight(Bodies, s) = Hit(b, Bodies), EntryRule(t, q, b)
        PROVE  EntryOK(t, q, s)
    <2>1. "idle" \notin WorkerAt /\ "idle" \notin Core
      BY DEF WorkerAt, Bodies, Core
    <2> QED BY <1>1, <2>1 DEF EntryOK, EntryRule
  <1>2. /\ Items(<<>>) = {} /\ LaterItems(<<>>) = {} /\ Weight(Bodies, <<>>) = 0
        /\ Hit("idle", Bodies) = 0
    BY ShortStacks DEF Hit, Bodies, Core
  <1>3. EntryRule(t, q, "idle") => EntryOK(t, q, <<>>)
    BY <1>1, <1>2
  <1>4. ASSUME NEW b \in Labels, EntryRule(t, q, b)
        PROVE  EntryOK(t, q, <<b>>)
    <2>1. Items(<<b>>) = {b} /\ LaterItems(<<b>>) = {} /\ Weight(Bodies, <<b>>) = Hit(b, Bodies)
      BY ShortStacks
    <2> DEFINE s == <<b>>
    <2>2. Items(s) = {b} /\ LaterItems(s) = {} /\ Weight(Bodies, s) = Hit(b, Bodies)
      BY <2>1
    <2> HIDE DEF s
    <2>3. EntryOK(t, q, s)
      BY <1>1, <1>4, <2>2
    <2> QED BY <2>3 DEF s
  <1>5. ASSUME NEW b \in Pushed, EntryRule(t, q, b)
        PROVE  EntryOK(t, q, <<b, "idle">>) /\ EntryOK(t, q, <<b>> \o <<"idle">>)
    <2>1. /\ Items(<<b, "idle">>) = {b, "idle"} /\ LaterItems(<<b, "idle">>) = {"idle"}
          /\ Weight(Bodies, <<b, "idle">>) = Hit(b, Bodies)
          /\ <<b>> \o <<"idle">> = <<b, "idle">>
      BY ShortStacks DEF Bodies, Core
    <2> DEFINE s == <<b, "idle">>
    <2>2. /\ Items(s) = {b, "idle"} /\ LaterItems(s) = {"idle"}
          /\ Weight(Bodies, s) = Hit(b, Bodies) /\ <<b>> \o <<"idle">> = s
      BY <2>1
    <2> HIDE DEF s
    <2>3. EntryOK(t, q, s)
      BY <1>1, <1>5, <2>2
    <2> QED BY <2>2, <2>3 DEF s
  <1> QED BY <1>3, <1>4, <1>5

LEMMA EntryTable ==
  ASSUME NEW t
  PROVE  /\ \A q \in {"verify", "waited", "done", "idle"} : EntryRule(t, q, "idle")
         /\ EntryRule(t, "resume", "done") /\ EntryRule(t, "begin", "begun")
         /\ EntryRule(t, "waiting", "waited") /\ EntryRule(t, "result", "done")
         /\ EntryRule(t, "cancel", "idle") /\ EntryRule(t, "release", "idle")
         /\ EntryRule(t, "callback", "release")
         /\ EntryRule(t, "signal", "release") /\ EntryRule(t, "signal", "settle")
         /\ t \in Workers => EntryRule(t, "start", "idle") /\ EntryRule(t, "start canceled", "idle")
         /\ {"idle", "done", "begun", "waited"} \subseteq Labels
         /\ {"release", "settle"} \subseteq Pushed
  BY DEF EntryRule, Hit, InSignal, Bodies, Core, WorkerAt, CancelAt, Labels, Pushed

LEMMA EntriesFrame ==
  ASSUME ControlOK, FramesOK, NEW t \in Threads,
         \/ Begin(t) \/ VerifySuspend(t) \/ GetStatus(t) \/ FetchResult(t)
         \/ RunCompletion(t) \/ (\E a \in Calls : StartCancel(t, a))
         \/ (\E a \in Calls : OutsiderCompletes(t, a))
         \/ t \in Workers /\ RunWork(t)
  PROVE  FramesOK'
  <1>1. Alone(t)
    <2>1. \E q, s : Enter(t, q, s)
      BY DEF Begin, VerifySuspend, GetStatus, FetchResult, RunCompletion, RunWork, StartCancel,
             OutsiderCompletes, CompleteWith
    <2>2. UNCHANGED call \/ \E c : call' = [call EXCEPT ![t] = c]
      BY DEF Begin, VerifySuspend, GetStatus, FetchResult, RunCompletion, RunWork, StartCancel,
             OutsiderCompletes
    <2>3. UNCHANGED arg
      BY DEF Begin, VerifySuspend, GetStatus, FetchResult, RunCompletion, RunWork, StartCancel,
             OutsiderCompletes
    <2> QED BY <2>1, <2>2, <2>3, MovesAlone
  <1>2. /\ \A q \in {"verify", "waited", "done", "idle"} : EntryOK(t, q, <<>>)
        /\ EntryOK(t, "resume", <<"done">>) /\ EntryOK(t, "begin", <<"begun">>)
        /\ EntryOK(t, "waiting", <<"waited">>) /\ EntryOK(t, "result", <<"done">>)
        /\ EntryOK(t, "cancel", <<"idle">>) /\ EntryOK(t, "release", <<"idle">>)
        /\ EntryOK(t, "callback", <<"release", "idle">>)
    BY EntryRules, EntryTable
  <1>3. /\ EntryOK(t, "signal", <<"release">> \o <<"idle">>)
        /\ EntryOK(t, "signal", <<"settle">> \o <<"idle">>)
    BY EntryRules, EntryTable
  <1>4. t \in Workers => EntryOK(t, "start", <<"idle">>) /\ EntryOK(t, "start canceled", <<"idle">>)
    BY EntryRules, EntryTable
  <1>5. SUFFICES \E q, s : Enter(t, q, s) /\ EntryOK(t, q, s)
    BY <1>1, EntryFrame
  <1>6. CASE Begin(t) \/ GetStatus(t) \/ FetchResult(t)
    BY <1>2, <1>6 DEF Begin, GetStatus, FetchResult
  <1>7. CASE VerifySuspend(t)
    BY <1>2, <1>7 DEF VerifySuspend
  <1>8. CASE RunCompletion(t)
    BY <1>2, <1>8 DEF RunCompletion
  <1>9. CASE \E a \in Calls : StartCancel(t, a)
    BY <1>2, <1>9 DEF StartCancel
  <1>10. CASE t \in Workers /\ RunWork(t)
    BY <1>4, <1>10 DEF RunWork
  <1>11. ASSUME NEW a \in Calls, OutsiderCompletes(t, a)
         PROVE  \E q, s : Enter(t, q, s) /\ EntryOK(t, q, s)
    <2>1. \E r \in ProviderResults : CompleteWith(t, a, r, <<"idle">>)
      BY <1>11 DEF OutsiderCompletes
    <2>2. \/ Enter(t, "signal", <<"release">> \o <<"idle">>)
          \/ Enter(t, "signal", <<"settle">> \o <<"idle">>)
          \/ Enter(t, "release", <<"idle">>)
          \/ Enter(t, Head(<<"idle">>), Tail(<<"idle">>))
      BY <2>1 DEF CompleteWith
    <2>3. Head(<<"idle">>) = "idle" /\ Tail(<<"idle">>) = <<>>
      OBVIOUS
    <2>4. CASE Enter(t, Head(<<"idle">>), Tail(<<"idle">>))
      <3>1. Enter(t, "idle", <<>>)
        BY <2>3, <2>4
      <3> QED BY <1>2, <3>1
    <2> QED BY <1>2, <1>3, <2>2, <2>4
  <1> QED BY <1>6, <1>7, <1>8, <1>9, <1>10, <1>11

LEMMA FramesStep ==
  ASSUME TypeInv, FramesOK, [Next]_vars
  PROVE  FramesOK'
  <1> USE DEF TypeInv
  <1>1. ASSUME UNCHANGED <<pc, stack, call>>
        PROVE  FramesOK'
    BY <1>1 DEF FramesOK, FrameOK, Below, Under, Places, Mine
  <1>2. CASE UNCHANGED vars
    BY <1>1, <1>2 DEF vars
  <1>3. ASSUME NEW t \in Threads, Proceed(t)
        PROVE  FramesOK'
    BY <1>3, WorkFollows, SignalFollows, FollowsFrame DEF Proceed
  <1>4. ASSUME NEW a \in Calls, Begin(a) \/ ClientStep(a)
        PROVE  FramesOK'
    <2>1. a \in Threads /\ call[a] = a
      BY DEF Threads, ControlOK
    <2>2. CASE ProviderBegin(a) \/ EndBegin(a) \/ WaitReturns(a)
      BY <2>1, <2>2, BodyFollows, FollowsFrame
    <2>3. CASE Begin(a) \/ VerifySuspend(a) \/ GetStatus(a) \/ FetchResult(a)
      BY <2>1, <2>3, EntriesFrame
    <2> QED BY <1>4, <2>2, <2>3 DEF ClientStep
  <1>5. ASSUME NEW w \in Workers, WorkerStep(w)
        PROVE  FramesOK'
    <2>1. w \in Threads
      BY DEF Threads
    <2>2. CASE RunWork(w)
      BY <2>1, <2>2, EntriesFrame
    <2> QED BY <1>5, <2>1, <2>2, BodyFollows, FollowsFrame DEF WorkerStep
  <1>6. ASSUME NEW d \in Notifiers, NotifierStep(d)
        PROVE  FramesOK'
    <2>1. d \in Threads
      BY DEF Threads
    <2> QED BY <1>6, <2>1, EntriesFrame, BodyFollows, FollowsFrame DEF NotifierStep
  <1>7. ASSUME NEW x \in Cancelers \cup Outsiders, NEW a \in Calls,
               StartCancel(x, a) \/ OutsiderCompletes(x, a)
        PROVE  FramesOK'
    <2>1. x \in Threads
      BY DEF Threads
    <2> QED BY <1>7, <2>1, EntriesFrame
  <1>8. ASSUME NEW k \in Terminations, StartTerminate(k) \/ QueueStep(k)
        PROVE  FramesOK'
    BY <1>1, <1>8 DEF StartTerminate, QueueStep
  <1> QED BY <1>2, <1>3, <1>4, <1>5, <1>6, <1>7, <1>8 DEF Next

\* The functions of a thread nest as the code calls them.
THEOREM FramesInvariant == Spec => []FramesOK
  <1>1. Init => FramesOK
    <2> SUFFICES ASSUME Init, NEW t \in Threads
                 PROVE  FrameOK(t)
      BY DEF FramesOK
    <2>1. pc[t] = "idle" /\ stack[t] = <<>>
      BY DEF Init
    <2>2. Below(t) = {} /\ Under(t) = {} /\ Places(t) = {"idle"}
      BY <2>1, ShortStacks, PlacesSplit DEF Below, Under
    <2>3. Mine(Bodies, call[t], t) = 0
      <3>1. Weight(Bodies, <<>>) = 0
        BY WeightEmpty
      <3>2. Hit("idle", Bodies) = 0
        BY DEF Hit, Bodies, Core
      <3> QED BY <2>1, <3>1, <3>2 DEF Mine
    <2>4. {"idle"} \cap WorkerAt = {} /\ "idle" \notin CancelAt
      BY DEF WorkerAt, CancelAt, Bodies, Core
    <2> QED BY <2>1, <2>2, <2>3, <2>4 DEF FrameOK
  <1>2. TypeInv /\ FramesOK /\ [Next]_vars => FramesOK'
    BY FramesStep
  <1> QED BY <1>1, <1>2, CallsInvariant, PTL DEF Spec

-----------------------------------------------------------------------------
(* What a call has still before it.  It is driven by one thing at a time:  *)
(* its queued WorkerCallback, what its provider has started, or a thread   *)
(* on its way to or in the provider's Begin or DoWork.  Once XAsyncComplete *)
(* is called from there nothing is left, so cleanup is marked AfterDoWork  *)
(* only when nothing drives the call; a completion from the provider's     *)
(* Cancel may come while something does, but then cleanup is InCancel.     *)

Driving == {"begin", "schedule", "claim", "submit", "start", "start canceled", "working"}

Canceling == {"canceling", "revert"}

Worked == {"worked"}

Owing(a) == IF owed[a] THEN 1 ELSE 0

Load(a) == Queued(a, "Work") + Owing(a) + Number(Driving, a)

CallClean(a) ==
    /\ Load(a) <= 1
    /\ blockStatus[a] = "none" => Load(a) = 0 /\ cleanup[a] = "Destructor"
    /\ cleanups[a] = IF cleanup[a] = "CleanedUp" THEN 1 ELSE 0
    /\ Number(Canceling, a) = IF cleanup[a] = "InCancel" THEN 1 ELSE 0
    /\ cleanup[a] \in {"AfterDoWork", "CleanedUp"} => Load(a) = 0
    /\ cleanup[a] = "CleanedUp" => Number(Worked, a) = 0

DoneOK(t) ==
    pc[t] # "idle" =>
        /\ pc[t] = "complete" \/ "settle" \in Places(t) =>
               Load(call[t]) = 0 \/ "revert" \in Below(t)
        /\ "aborting" \in Places(t) => Load(call[t]) = 0
        /\ (/\ Places(t) \cap {"worked", "beginning"} # {}
            /\ arg[t] # "pending" /\ pc[t] \notin {"schedule", "claim"})
                => Load(call[t]) = 0

CleanOK == (\A a \in Calls : CallClean(a)) /\ (\A t \in Threads : DoneOK(t))

-----------------------------------------------------------------------------
(* Counting, for any set of places                                         *)

LEMMA MineMoves ==
  ASSUME ControlOK, ControlOK', NEW t \in Threads, Alone(t), NEW S, NEW n \in Int,
         \A a \in Calls : /\ Mine(S, a, t) \in Int /\ Mine(S, a, t)' \in Int
                          /\ Mine(S, a, t)' = Mine(S, a, t) + IF a = call'[t] THEN n ELSE 0
  PROVE  Moves(t, S, n)
  <1> SUFFICES ASSUME NEW a \in Calls
               PROVE  /\ Number(S, a) \in Nat /\ Number(S, a)' \in Nat
                      /\ Number(S, a)' = Number(S, a) + IF a = call'[t] THEN n ELSE 0
    BY DEF Moves
  <1>1. /\ Number(S, a) \in Nat /\ Number(S, a)' \in Nat
        /\ Number(S, a)' = Number(S, a) + Mine(S, a, t)' - Mine(S, a, t)
    BY FrameStep
  <1>2. CASE a = call'[t]
    BY <1>1, <1>2
  <1>3. CASE a # call'[t]
    BY <1>1, <1>3
  <1> QED BY <1>2, <1>3

LEMMA GotoMoves ==
  ASSUME ControlOK, ControlOK', NEW t \in Threads, Alone(t), call'[t] = call[t],
         NEW q \in Labels, Goto(t, q), NEW S
  PROVE  Moves(t, S, Hit(q, S) - Hit(pc[t], S))
  <1>1. pc'[t] = q /\ stack'[t] = stack[t]
    BY Placed
  <1>2. /\ Weight(S, stack[t]) \in Nat /\ Hit(pc[t], S) \in {0, 1} /\ Hit(q, S) \in {0, 1}
    BY MineSplit, HitType
  <1>3. ASSUME NEW a
        PROVE  /\ Mine(S, a, t) = IF call[t] = a THEN Weight(S, stack[t]) + Hit(pc[t], S) ELSE 0
               /\ Mine(S, a, t)' = IF call[t] = a THEN Weight(S, stack[t]) + Hit(q, S) ELSE 0
    BY <1>1 DEF Mine
  <1>4. \A a : /\ Mine(S, a, t) \in Int /\ Mine(S, a, t)' \in Int
               /\ Mine(S, a, t)' = Mine(S, a, t)
                     + IF a = call'[t] THEN Hit(q, S) - Hit(pc[t], S) ELSE 0
    BY <1>2, <1>3
  <1> QED BY <1>2, <1>4, MineMoves

LEMMA CallMoves ==
  ASSUME ControlOK, ControlOK', NEW t \in Threads, Alone(t), call'[t] = call[t],
         NEW q \in Labels, NEW b \in Labels, Call(t, q, b), NEW S
  PROVE  Moves(t, S, Hit(q, S) + Hit(b, S) - Hit(pc[t], S))
  <1>1. pc'[t] = q /\ stack'[t] = <<b>> \o stack[t]
    BY Placed
  <1>2. /\ Weight(S, stack[t]) \in Nat /\ Hit(pc[t], S) \in {0, 1} /\ stack[t] \in Seq(Labels)
        /\ Hit(q, S) \in {0, 1} /\ Hit(b, S) \in {0, 1}
    BY MineSplit, HitType
  <1>3. Weight(S, <<b>> \o stack[t]) = Weight(S, stack[t]) + Hit(b, S)
    BY <1>2, WeightPush
  <1>4. Weight(S, stack'[t]) = Weight(S, stack[t]) + Hit(b, S)
    BY <1>1, <1>3
  <1>5. ASSUME NEW a
        PROVE  /\ Mine(S, a, t) = IF call[t] = a THEN Weight(S, stack[t]) + Hit(pc[t], S) ELSE 0
               /\ Mine(S, a, t)' = IF call[t] = a THEN Weight(S, stack'[t]) + Hit(q, S) ELSE 0
    BY <1>1 DEF Mine
  <1>6. \A a : /\ Mine(S, a, t) \in Int /\ Mine(S, a, t)' \in Int
               /\ Mine(S, a, t)' = Mine(S, a, t)
                     + IF a = call'[t] THEN Hit(q, S) + Hit(b, S) - Hit(pc[t], S) ELSE 0
    BY <1>2, <1>4, <1>5
  <1> QED BY <1>2, <1>6, MineMoves

LEMMA ReturnMoves ==
  ASSUME ControlOK, ControlOK', NEW t \in Threads, Alone(t), call'[t] = call[t],
         Return(t), pc[t] \notin Bottom, NEW S
  PROVE  Moves(t, S, 0 - Hit(pc[t], S))
  <1> DEFINE q == pc'[t]
             r == stack'[t]
  <1>1. stack[t] = <<q>> \o r
    BY Placed
  <1>2. q \in Labels /\ r \in Seq(Labels)
    BY DEF ControlOK
  <1>3. Mine(S, call[t], t)' = Weight(S, r) + Hit(q, S)
    BY DEF Mine
  <1>4. \A a : call[t] # a => Mine(S, a, t)' = 0 /\ Mine(S, a, t) = 0
    BY DEF Mine
  <1> HIDE DEF q, r
  <1>5. Weight(S, <<q>> \o r) = Weight(S, r) + Hit(q, S) /\ Weight(S, r) \in Nat
    BY <1>2, WeightPush
  <1>6. Weight(S, stack[t]) = Weight(S, r) + Hit(q, S)
    BY <1>1, <1>5
  <1>7. /\ Mine(S, call[t], t) = Weight(S, stack[t]) + Hit(pc[t], S)
        /\ Hit(pc[t], S) \in {0, 1} /\ Hit(q, S) \in {0, 1}
    BY MineSplit, HitType
  <1>8. \A a : /\ Mine(S, a, t) \in Int /\ Mine(S, a, t)' \in Int
               /\ Mine(S, a, t)' = Mine(S, a, t)
                     + IF a = call'[t] THEN 0 - Hit(pc[t], S) ELSE 0
    BY <1>3, <1>4, <1>5, <1>6, <1>7
  <1> QED BY <1>7, <1>8, MineMoves

LEMMA EntryMoves ==
  ASSUME ControlOK, ControlOK', NEW t \in Threads, Alone(t), pc[t] \in Bottom,
         NEW q \in Labels, NEW s \in Seq(Labels), Enter(t, q, s),
         NEW S, S \cap Bottom = {}
  PROVE  Moves(t, S, Hit(q, S) + Weight(S, s))
  <1>1. pc'[t] = q /\ stack'[t] = s /\ stack[t] = <<>>
    BY DEF Enter, ControlOK, WellNested
  <1>2. Weight(S, <<>>) = 0 /\ Weight(S, s) \in Nat /\ Hit(q, S) \in {0, 1}
    BY WeightEmpty, WeightPush, HitType
  <1>3. Hit(pc[t], S) = 0
    BY DEF Hit
  <1>4. ASSUME NEW a
        PROVE  /\ Mine(S, a, t) = 0
               /\ Mine(S, a, t)' = IF call'[t] = a THEN Weight(S, s) + Hit(q, S) ELSE 0
    BY <1>1, <1>2, <1>3 DEF Mine
  <1>5. \A a : /\ Mine(S, a, t) \in Int /\ Mine(S, a, t)' \in Int
               /\ Mine(S, a, t)' = Mine(S, a, t)
                     + IF a = call'[t] THEN Hit(q, S) + Weight(S, s) ELSE 0
    BY <1>2, <1>4
  <1> QED BY <1>2, <1>5, MineMoves

\* What a step adds to the load of the call of its thread, to the frames in the
\* provider's Cancel and to those in its DoWork
LoadMoves(t, n) ==
    \A a \in Calls : /\ Load(a) \in Nat /\ Load(a)' \in Nat
                     /\ Load(a)' = Load(a) + IF a = call'[t] THEN n ELSE 0

Tally(t, n, c, w) == LoadMoves(t, n) /\ Moves(t, Canceling, c) /\ Moves(t, Worked, w)

\* What it adds to the callbacks in the work queue and to what providers have started
Waits(t, k) ==
    \A a \in Calls :
        /\ Queued(a, "Work") \in Nat /\ Queued(a, "Work")' \in Nat
        /\ Queued(a, "Work")' + Owing(a)' =
               Queued(a, "Work") + Owing(a) + IF a = call'[t] THEN k ELSE 0

LEMMA WaitsSame ==
  ASSUME QueueOK, NEW t, queue'["Work"] = queue["Work"], UNCHANGED owed
  PROVE  Waits(t, 0)
  <1>1. \A a \in Calls : Queued(a, "Work") \in Nat
    BY QueuedType DEF Ports
  <1>2. \A a \in Calls : Queued(a, "Work")' = Queued(a, "Work") /\ Owing(a)' = Owing(a)
    BY DEF Queued, Owing
  <1>3. \A a \in Calls : Owing(a) \in {0, 1}
    BY DEF Owing
  <1> QED BY <1>1, <1>2, <1>3 DEF Waits

LEMMA LoadSum ==
  ASSUME NEW t, NEW d \in Int, NEW k \in Int, Moves(t, Driving, d), Waits(t, k)
  PROVE  LoadMoves(t, d + k)
  <1> SUFFICES ASSUME NEW a \in Calls
               PROVE  /\ Load(a) \in Nat /\ Load(a)' \in Nat
                      /\ Load(a)' = Load(a) + IF a = call'[t] THEN d + k ELSE 0
    BY DEF LoadMoves
  <1>1. /\ Number(Driving, a) \in Nat /\ Number(Driving, a)' \in Nat
        /\ Number(Driving, a)' = Number(Driving, a) + IF a = call'[t] THEN d ELSE 0
    BY DEF Moves
  <1>2. /\ Queued(a, "Work") \in Nat /\ Queued(a, "Work")' \in Nat
        /\ Queued(a, "Work")' + Owing(a)' =
               Queued(a, "Work") + Owing(a) + IF a = call'[t] THEN k ELSE 0
    BY DEF Waits
  <1>3. Owing(a) \in {0, 1} /\ Owing(a)' \in {0, 1}
    BY DEF Owing
  <1>4. /\ Load(a) = Queued(a, "Work") + Owing(a) + Number(Driving, a)
        /\ Load(a)' = Queued(a, "Work")' + Owing(a)' + Number(Driving, a)'
    BY DEF Load
  <1>5. CASE a = call'[t]
    BY <1>1, <1>2, <1>3, <1>4, <1>5
  <1>6. CASE a # call'[t]
    BY <1>1, <1>2, <1>3, <1>4, <1>6
  <1> QED BY <1>5, <1>6

LEMMA GotoTally ==
  ASSUME ControlOK, ControlOK', NEW t \in Threads, Alone(t), call'[t] = call[t],
         NEW q \in Labels, Goto(t, q), NEW k \in Int, Waits(t, k)
  PROVE  Tally(t, Hit(q, Driving) - Hit(pc[t], Driving) + k,
                  Hit(q, Canceling) - Hit(pc[t], Canceling),
                  Hit(q, Worked) - Hit(pc[t], Worked))
  <1>1. Hit(q, Driving) - Hit(pc[t], Driving) \in Int
    BY HitType
  <1> QED BY <1>1, GotoMoves, LoadSum DEF Tally

LEMMA CallTally ==
  ASSUME ControlOK, ControlOK', NEW t \in Threads, Alone(t), call'[t] = call[t],
         NEW q \in Labels, NEW b \in Labels, Call(t, q, b), NEW k \in Int, Waits(t, k)
  PROVE  Tally(t, Hit(q, Driving) + Hit(b, Driving) - Hit(pc[t], Driving) + k,
                  Hit(q, Canceling) + Hit(b, Canceling) - Hit(pc[t], Canceling),
                  Hit(q, Worked) + Hit(b, Worked) - Hit(pc[t], Worked))
  <1>1. Hit(q, Driving) + Hit(b, Driving) - Hit(pc[t], Driving) \in Int
    BY HitType
  <1> QED BY <1>1, CallMoves, LoadSum DEF Tally

LEMMA ReturnTally ==
  ASSUME ControlOK, ControlOK', NEW t \in Threads, Alone(t), call'[t] = call[t],
         Return(t), pc[t] \notin Bottom, NEW k \in Int, Waits(t, k)
  PROVE  Tally(t, 0 - Hit(pc[t], Driving) + k, 0 - Hit(pc[t], Canceling),
                  0 - Hit(pc[t], Worked))
  <1>1. 0 - Hit(pc[t], Driving) \in Int
    BY HitType
  <1> QED BY <1>1, ReturnMoves, LoadSum DEF Tally

LEMMA EntryTally ==
  ASSUME ControlOK, ControlOK', NEW t \in Threads, Alone(t), pc[t] \in Bottom,
         NEW q \in Labels, NEW s \in Seq(Labels), Enter(t, q, s),
         Items(s) \cap (Driving \cup Canceling \cup Worked) = {},
         NEW k \in Int, Waits(t, k)
  PROVE  Tally(t, Hit(q, Driving) + k, Hit(q, Canceling), Hit(q, Worked))
  <1>1. /\ Driving \cap Bottom = {} /\ Canceling \cap Bottom = {} /\ Worked \cap Bottom = {}
    BY DEF Driving, Canceling, Worked, Bottom
  <1>2. Weight(Driving, s) = 0 /\ Weight(Canceling, s) = 0 /\ Weight(Worked, s) = 0
    BY WeightZero
  <1>4. /\ Moves(t, Driving, Hit(q, Driving)) /\ Moves(t, Canceling, Hit(q, Canceling))
        /\ Moves(t, Worked, Hit(q, Worked))
    <2>1. /\ Moves(t, Driving, Hit(q, Driving) + Weight(Driving, s))
          /\ Moves(t, Canceling, Hit(q, Canceling) + Weight(Canceling, s))
          /\ Moves(t, Worked, Hit(q, Worked) + Weight(Worked, s))
      BY <1>1, EntryMoves
    <2>2. Hit(q, Driving) \in Int /\ Hit(q, Canceling) \in Int /\ Hit(q, Worked) \in Int
      BY HitType
    <2>3. /\ Hit(q, Driving) + Weight(Driving, s) = Hit(q, Driving)
          /\ Hit(q, Canceling) + Weight(Canceling, s) = Hit(q, Canceling)
          /\ Hit(q, Worked) + Weight(Worked, s) = Hit(q, Worked)
      BY <1>2, <2>2
    <2> QED BY <2>1, <2>3
  <1>5. Hit(q, Driving) \in Int
    BY HitType
  <1> QED BY <1>4, <1>5, LoadSum DEF Tally

-----------------------------------------------------------------------------
(* Most steps leave cleanup alone and give the call no load.               *)

Ordinary(t) ==
    /\ Alone(t) /\ UNCHANGED <<cleanup, cleanups>>
    /\ \E n \in {-1, 0}, w \in {-1, 0, 1} :
          /\ Tally(t, n, 0, w)
          /\ w = 1 => Load(call'[t]) # 0
    /\ \A a \in Calls : blockStatus'[a] = "none" => blockStatus[a] = "none"

LEMMA DoneStill ==
  ASSUME ControlOK, NEW t \in Threads, Alone(t), \A u \in Threads : DoneOK(u), DoneOK(t)',
         \A a \in Calls : Load(a) = 0 => Load(a)' = 0
  PROVE  \A u \in Threads : DoneOK(u)'
  <1> SUFFICES ASSUME NEW u \in Threads, u # t
               PROVE  DoneOK(u)'
    OBVIOUS
  <1>1. pc'[u] = pc[u] /\ stack'[u] = stack[u] /\ call'[u] = call[u] /\ arg'[u] = arg[u]
    BY DEF Alone
  <1>2. Places(u)' = Places(u) /\ Below(u)' = Below(u)
    BY <1>1 DEF Places, Below
  <1>3. CASE pc[u] = "idle"
    BY <1>1, <1>3 DEF DoneOK
  <1>4. CASE pc[u] # "idle"
    <2>1. call[u] \in Calls
      BY <1>4 DEF ControlOK
    <2>2. Load(call[u]) = 0 => Load(call[u])' = 0
      BY <1>1, <2>1
    <2>3. DoneOK(u)
      OBVIOUS
    <2> QED BY <1>1, <1>2, <1>4, <2>2, <2>3 DEF DoneOK
  <1> QED BY <1>3, <1>4

LEMMA OrdinaryKeeps ==
  ASSUME ControlOK, CallsOK, CleanOK, NEW t \in Threads, Ordinary(t), DoneOK(t)'
  PROVE  CleanOK'
  <1>1. PICK n \in {-1, 0}, w \in {-1, 0, 1} :
            Tally(t, n, 0, w) /\ (w = 1 => Load(call'[t]) # 0)
    BY DEF Ordinary
  <1>2. ASSUME NEW a \in Calls
        PROVE  CallClean(a)'
    <2>1. /\ Load(a) \in Nat /\ Load(a)' \in Nat /\ Load(a)' <= Load(a)
      BY <1>1 DEF Tally, LoadMoves
    <2>2. /\ Number(Canceling, a)' = Number(Canceling, a)
          /\ Number(Worked, a) = 0 /\ Load(a) = 0 => Number(Worked, a)' = 0
      <3>1. Moves(t, Canceling, 0) /\ Moves(t, Worked, w)
        BY <1>1 DEF Tally
      <3>2. Number(Canceling, a)' = Number(Canceling, a)
        BY <3>1 DEF Moves
      <3>3. /\ Number(Worked, a) \in Nat /\ Number(Worked, a)' \in Nat
            /\ Number(Worked, a)' = Number(Worked, a) + IF a = call'[t] THEN w ELSE 0
        BY <3>1 DEF Moves
      <3>4. CASE a = call'[t]
        BY <1>1, <3>2, <3>3, <3>4
      <3>5. CASE a # call'[t]
        BY <3>2, <3>3, <3>5
      <3> QED BY <3>4, <3>5
    <2>3. CallClean(a)
      BY DEF CleanOK
    <2>4. /\ cleanup'[a] = cleanup[a] /\ cleanups'[a] = cleanups[a]
          /\ blockStatus'[a] = "none" => blockStatus[a] = "none"
      BY DEF Ordinary
    <2> QED BY <2>1, <2>2, <2>3, <2>4 DEF CallClean
  <1>3. \A a \in Calls : Load(a) = 0 => Load(a)' = 0
    BY <1>1 DEF Tally, LoadMoves
  <1>4. \A u \in Threads : DoneOK(u)'
    BY <1>3, DoneStill DEF Ordinary, CleanOK
  <1> QED BY <1>2, <1>4 DEF CleanOK

-----------------------------------------------------------------------------
(* When DoneOK holds of the thread after its step                          *)

Done == {"complete", "settle", "aborting", "worked", "beginning"}

\* The load of the call a thread works for is gone, or has not grown.
LEMMA DoneUnloaded ==
  ASSUME NEW t, Load(call[t])' = 0
  PROVE  DoneOK(t)'
  BY DEF DoneOK

LEMMA DoneNowhere ==
  ASSUME NEW t, Places(t)' \cap Done = {}
  PROVE  DoneOK(t)'
  <1>1. pc'[t] \in Places(t)'
    BY PlacesSplit DEF Places
  <1> QED BY <1>1 DEF DoneOK, Done

LEMMA GotoDone ==
  ASSUME ControlOK, NEW t \in Threads, FrameOK(t), DoneOK(t), call'[t] = call[t],
         NEW q \in Labels \ {"complete", "settle", "aborting"}, Goto(t, q), pc[t] # "idle",
         q \in {"worked", "beginning"} => arg'[t] = "pending",
         Load(call[t]) = 0 => Load(call[t])' = 0,
         \/ arg'[t] = arg[t] /\ pc[t] \notin {"schedule", "claim"}
         \/ arg'[t] = "pending"
         \/ q \in {"schedule", "claim"}
         \/ pc[t] \in Bodies
  PROVE  DoneOK(t)'
  <1>1. /\ pc'[t] = q /\ Below(t)' = Below(t)
    BY Placed
  <1>2. Places(t) = {pc[t]} \cup Below(t) /\ Places(t)' = {q} \cup Below(t)
    BY <1>1, PlacesSplit DEF Places, Below, Items
  <1>4. ASSUME pc[t] \in Bodies
        PROVE  Below(t) \cap {"worked", "beginning"} = {}
    <2>1. Mine(Bodies, call[t], t) <= 1 /\ Hit(pc[t], Bodies) = 1
      BY <1>4 DEF FrameOK, Hit
    <2>2. Weight(Bodies, stack[t]) = 0 /\ stack[t] \in Seq(Labels)
      BY <2>1, MineSplit
    <2>3. Items(stack[t]) \cap Bodies = {}
      BY <2>2, WeightNone
    <2> QED BY <2>3 DEF Below, Bodies, Core
  <1>5. ASSUME "settle" \in Places(t)'
        PROVE  Load(call[t])' = 0 \/ "revert" \in Below(t)'
    BY <1>1, <1>2, <1>5 DEF DoneOK
  <1>6. ASSUME "aborting" \in Places(t)'
        PROVE  Load(call[t])' = 0
    BY <1>2, <1>6 DEF DoneOK
  <1>7. ASSUME Places(t)' \cap {"worked", "beginning"} # {}, arg'[t] # "pending",
               q \notin {"schedule", "claim"}
        PROVE  Load(call[t])' = 0
    <2>1. Below(t) \cap {"worked", "beginning"} # {}
      BY <1>2, <1>7
    <2>2. arg'[t] = arg[t] /\ pc[t] \notin {"schedule", "claim"}
      BY <1>4, <1>7, <2>1
    <2> QED BY <1>2, <1>7, <2>1, <2>2 DEF DoneOK
  <1> QED BY <1>1, <1>5, <1>6, <1>7 DEF DoneOK

LEMMA CallDone ==
  ASSUME ControlOK, NEW t \in Threads, FrameOK(t), DoneOK(t), call'[t] = call[t],
         NEW q \in Labels \ Done, NEW b \in Labels \ {"settle", "aborting"}, Call(t, q, b),
         pc[t] # "idle", Load(call[t]) = 0 => Load(call[t])' = 0,
         \/ arg'[t] = arg[t] /\ pc[t] \notin {"schedule", "claim"} /\ b \notin Done
         \/ q \in {"schedule", "claim"}
  PROVE  DoneOK(t)'
  <1>1. /\ pc'[t] = q /\ Below(t)' = Below(t) \cup {b}
    BY Placed
  <1>2. Places(t) = {pc[t]} \cup Below(t) /\ Places(t)' = {q, b} \cup Below(t)
    BY <1>1, PlacesSplit DEF Places, Below, Items
  <1>3. ASSUME "settle" \in Places(t)'
        PROVE  Load(call[t])' = 0 \/ "revert" \in Below(t)'
    BY <1>1, <1>2, <1>3 DEF DoneOK, Done
  <1>4. ASSUME "aborting" \in Places(t)'
        PROVE  Load(call[t])' = 0
    BY <1>2, <1>4 DEF DoneOK, Done
  <1>5. ASSUME Places(t)' \cap {"worked", "beginning"} # {}, q \notin {"schedule", "claim"}
        PROVE  arg'[t] = "pending" \/ Load(call[t])' = 0
    <2>1. arg'[t] = arg[t] /\ pc[t] \notin {"schedule", "claim"} /\ b \notin Done
      BY <1>5
    <2>2. Below(t) \cap {"worked", "beginning"} # {}
      BY <1>2, <1>5, <2>1 DEF Done
    <2> QED BY <1>2, <2>1, <2>2 DEF DoneOK
  <1>6. q # "complete"
    BY DEF Done
  <1> QED BY <1>1, <1>3, <1>4, <1>5, <1>6 DEF DoneOK

LEMMA ReturnDone ==
  ASSUME ControlOK, NEW t \in Threads, FrameOK(t), DoneOK(t), call'[t] = call[t],
         Return(t), pc[t] \notin Bottom \cup {"schedule", "claim"}, arg'[t] = arg[t],
         Load(call[t]) = 0 => Load(call[t])' = 0
  PROVE  DoneOK(t)'
  <1>1. /\ pc'[t] \in Pushed /\ Below(t) = Below(t)' \cup {pc'[t]} /\ Below(t)' = Under(t)
    BY Placed
  <1>2. Places(t)' = Below(t) /\ Below(t) \subseteq Places(t)
    BY <1>1, PlacesSplit DEF Places, Below, Items
  <1>3. ASSUME "settle" \in Places(t)'
        PROVE  Load(call[t])' = 0 \/ "revert" \in Below(t)'
    <2>1. "settle" \notin Below(t)'
      BY <1>1 DEF FrameOK
    <2>2. pc'[t] = "settle"
      BY <1>1, <1>2, <1>3, <2>1
    <2>3. "revert" \in Below(t) => "revert" \in Below(t)'
      BY <1>1, <2>2
    <2> QED BY <1>2, <1>3, <2>3 DEF DoneOK, Bottom
  <1>4. ASSUME "aborting" \in Places(t)'
        PROVE  Load(call[t])' = 0
    BY <1>2, <1>4 DEF DoneOK, Bottom
  <1>5. ASSUME Places(t)' \cap {"worked", "beginning"} # {}, arg'[t] # "pending"
        PROVE  Load(call[t])' = 0
    BY <1>2, <1>5 DEF DoneOK, Bottom
  <1>6. pc'[t] # "complete"
    BY <1>1 DEF Pushed
  <1> QED BY <1>3, <1>4, <1>5, <1>6 DEF DoneOK

-----------------------------------------------------------------------------
(* Steps that keep CleanOK by their shape                                   *)

LEMMA LoadType ==
  ASSUME TypeInv, NEW a \in Calls
  PROVE  /\ Load(a) \in Nat /\ Queued(a, "Work") \in Nat /\ Number(Driving, a) \in Nat
         /\ Queued(a, "Work") <= Load(a) /\ Number(Driving, a) <= Load(a)
         /\ owed[a] => Load(a) >= 1
  <1>1. Queued(a, "Work") \in Nat
    BY QueuedType DEF TypeInv, Ports
  <1>2. Number(Driving, a) \in Nat
    BY NumberType DEF TypeInv
  <1>3. Owing(a) \in {0, 1} /\ (owed[a] => Owing(a) = 1)
    BY DEF Owing
  <1> QED BY <1>1, <1>2, <1>3 DEF Load

LEMMA DrivingLoaded ==
  ASSUME TypeInv, NEW t \in Threads, pc[t] \in Driving
  PROVE  call[t] \in Calls /\ Load(call[t]) \in Nat /\ Load(call[t]) >= 1
  <1>1. call[t] \in Calls
    BY DEF TypeInv, ControlOK, Driving
  <1>2. Number(Driving, call[t]) > 0
    BY PlacesSplit, PlaceCounts DEF TypeInv
  <1> QED BY <1>1, <1>2, LoadType

\* What the shapes have in common
Shape(t) ==
    /\ Alone(t) /\ call'[t] = call[t] /\ UNCHANGED <<cleanup, cleanups>>
    /\ \A a \in Calls : blockStatus'[a] = "none" => blockStatus[a] = "none"

\* Within a function
LEMMA GotoOrdinary ==
  ASSUME TypeInv, TypeInv', CleanOK, NEW t \in Threads, Shape(t), pc[t] # "idle",
         NEW q \in Labels, Goto(t, q), NEW k \in Int, Waits(t, k),
         Hit(q, Driving) - Hit(pc[t], Driving) + k \in {-1, 0},
         Hit(q, Canceling) = Hit(pc[t], Canceling),
         q = "worked" => pc[t] \in Driving
  PROVE  /\ Ordinary(t) /\ call[t] \in Calls
         /\ Load(call[t]) \in {0, 1} /\ Load(call[t])' \in {0, 1}
         /\ Load(call[t])' = Load(call[t]) + Hit(q, Driving) - Hit(pc[t], Driving) + k
  <1> USE DEF TypeInv
  <1> DEFINE n == Hit(q, Driving) - Hit(pc[t], Driving) + k
             w == Hit(q, Worked) - Hit(pc[t], Worked)
  <1>1. call[t] \in Calls
    BY DEF ControlOK
  <1>2. Tally(t, n, Hit(q, Canceling) - Hit(pc[t], Canceling), w)
    BY GotoTally DEF Shape
  <1>3. Hit(q, Canceling) - Hit(pc[t], Canceling) = 0 /\ w \in {-1, 0, 1} /\ n \in {-1, 0}
    BY HitType
  <1>4. w = 1 => q = "worked"
    BY HitType DEF Hit, Worked
  <1>5. Load(call[t]) = 0 \/ Load(call[t]) = 1
    <2>1. Load(call[t]) <= 1
      BY <1>1 DEF CleanOK, CallClean
    <2> QED BY <1>1, <2>1, LoadType
  <1>6. LoadMoves(t, n)
    BY <1>2 DEF Tally
  <1>7. Load(call[t])' \in Nat /\ Load(call[t])' = Load(call[t]) + n
    BY <1>1, <1>6 DEF LoadMoves, Shape
  <1>8. w = 1 => Load(call'[t]) # 0
    BY <1>4, <1>5, DrivingLoaded DEF Shape
  <1>9. Tally(t, n, 0, w)
    BY <1>2, <1>3
  <1> HIDE DEF w
  <1>10. Ordinary(t)
    BY <1>3, <1>8, <1>9 DEF Ordinary, Shape
  <1>11. n = Hit(q, Driving) - Hit(pc[t], Driving) + k
    OBVIOUS
  <1> HIDE DEF n
  <1>12. Load(call[t])' \in {0, 1}
    BY <1>3, <1>5, <1>7
  <1>13. Load(call[t])' = Load(call[t]) + Hit(q, Driving) - Hit(pc[t], Driving) + k
    BY <1>5, <1>7, <1>11, HitType
  <1> QED BY <1>1, <1>5, <1>10, <1>12, <1>13

LEMMA GotoClean ==
  ASSUME TypeInv, TypeInv', FramesOK, CleanOK, NEW t \in Threads, Shape(t), pc[t] # "idle",
         NEW q \in Labels \ {"complete", "settle", "aborting"}, Goto(t, q),
         q \in {"worked", "beginning"} => arg'[t] = "pending" /\ pc[t] \in Driving,
         NEW k \in Int, Waits(t, k),
         Hit(q, Driving) - Hit(pc[t], Driving) + k \in {-1, 0},
         Hit(q, Canceling) = Hit(pc[t], Canceling),
         \/ arg'[t] = arg[t] /\ pc[t] \notin {"schedule", "claim"}
         \/ arg'[t] = "pending"
         \/ q \in {"schedule", "claim"}
         \/ pc[t] \in Bodies
  PROVE  CleanOK'
  <1>1. /\ Ordinary(t) /\ call[t] \in Calls
        /\ Load(call[t]) \in {0, 1} /\ Load(call[t])' \in {0, 1}
        /\ Load(call[t])' = Load(call[t]) + Hit(q, Driving) - Hit(pc[t], Driving) + k
    BY GotoOrdinary
  <1>2. Load(call[t]) = 0 => Load(call[t])' = 0
    BY <1>1, HitType
  <1>3. DoneOK(t)'
    BY <1>2, GotoDone DEF TypeInv, FramesOK, CleanOK, Shape
  <1> QED BY <1>1, <1>3, OrdinaryKeeps DEF TypeInv

\* With what drove the call gone
LEMMA GotoUnloaded ==
  ASSUME TypeInv, TypeInv', CleanOK, NEW t \in Threads, Shape(t), pc[t] # "idle",
         NEW q \in Labels, Goto(t, q), Waits(t, 0),
         pc[t] \in Driving, q \notin Driving \cup Canceling
  PROVE  CleanOK'
  <1>1. /\ Hit(q, Driving) = 0 /\ Hit(pc[t], Driving) = 1
        /\ Hit(q, Canceling) = Hit(pc[t], Canceling)
    BY DEF Hit, Driving, Canceling
  <1>2. /\ Ordinary(t) /\ call[t] \in Calls
        /\ Load(call[t]) \in {0, 1} /\ Load(call[t])' \in {0, 1}
        /\ Load(call[t])' = Load(call[t]) + Hit(q, Driving) - Hit(pc[t], Driving) + 0
    BY <1>1, GotoOrdinary
  <1>3. Load(call[t])' = 0
    BY <1>1, <1>2
  <1> QED BY <1>2, <1>3, DoneUnloaded, OrdinaryKeeps DEF TypeInv

\* Into a function
LEMMA CallOrdinary ==
  ASSUME TypeInv, TypeInv', CleanOK, NEW t \in Threads, Shape(t), pc[t] # "idle",
         NEW q \in Labels, NEW b \in Labels, Call(t, q, b), NEW k \in Int, Waits(t, k),
         Hit(q, Driving) + Hit(b, Driving) - Hit(pc[t], Driving) + k \in {-1, 0},
         Hit(q, Canceling) + Hit(b, Canceling) = Hit(pc[t], Canceling),
         q # "worked", b = "worked" => pc[t] \in Driving
  PROVE  /\ Ordinary(t) /\ call[t] \in Calls
         /\ Load(call[t]) \in {0, 1} /\ Load(call[t])' \in {0, 1}
         /\ Load(call[t])' =
                Load(call[t]) + Hit(q, Driving) + Hit(b, Driving) - Hit(pc[t], Driving) + k
  <1> USE DEF TypeInv
  <1> DEFINE n == Hit(q, Driving) + Hit(b, Driving) - Hit(pc[t], Driving) + k
             w == Hit(q, Worked) + Hit(b, Worked) - Hit(pc[t], Worked)
             c == Hit(q, Canceling) + Hit(b, Canceling) - Hit(pc[t], Canceling)
  <1>1. call[t] \in Calls
    BY DEF ControlOK
  <1>2. Tally(t, n, c, w)
    BY CallTally DEF Shape
  <1>3. c = 0 /\ n \in {-1, 0}
    BY HitType
  <1>4. w \in {-1, 0, 1} /\ (w = 1 => b = "worked")
    <2>1. Hit(q, Worked) = 0
      BY DEF Hit, Worked
    <2>2. Hit(b, Worked) = 1 => b = "worked"
      BY DEF Hit, Worked
    <2> QED BY <2>1, <2>2, HitType
  <1>5. Load(call[t]) = 0 \/ Load(call[t]) = 1
    <2>1. Load(call[t]) <= 1
      BY <1>1 DEF CleanOK, CallClean
    <2> QED BY <1>1, <2>1, LoadType
  <1>6. LoadMoves(t, n)
    BY <1>2 DEF Tally
  <1>7. Load(call[t])' \in Nat /\ Load(call[t])' = Load(call[t]) + n
    BY <1>1, <1>6 DEF LoadMoves, Shape
  <1>8. w = 1 => Load(call'[t]) # 0
    BY <1>4, <1>5, DrivingLoaded DEF Shape
  <1>9. Tally(t, n, 0, w)
    BY <1>2, <1>3
  <1> HIDE DEF w, c
  <1>10. Ordinary(t)
    BY <1>3, <1>4, <1>8, <1>9 DEF Ordinary, Shape
  <1>11. n = Hit(q, Driving) + Hit(b, Driving) - Hit(pc[t], Driving) + k
    OBVIOUS
  <1> HIDE DEF n
  <1>12. Load(call[t])' \in {0, 1}
    BY <1>3, <1>5, <1>7
  <1>13. Load(call[t])' =
             Load(call[t]) + Hit(q, Driving) + Hit(b, Driving) - Hit(pc[t], Driving) + k
    BY <1>5, <1>7, <1>11, HitType
  <1> QED BY <1>1, <1>5, <1>10, <1>12, <1>13

LEMMA CallKeepsClean ==
  ASSUME TypeInv, TypeInv', FramesOK, CleanOK, NEW t \in Threads, Shape(t), pc[t] # "idle",
         NEW q \in Labels \ Done, NEW b \in Labels \ {"settle", "aborting"}, Call(t, q, b),
         b = "worked" => pc[t] \in Driving, Waits(t, 0),
         Hit(q, Driving) + Hit(b, Driving) - Hit(pc[t], Driving) \in {-1, 0},
         Hit(q, Canceling) + Hit(b, Canceling) = Hit(pc[t], Canceling),
         \/ arg'[t] = arg[t] /\ pc[t] \notin {"schedule", "claim"} /\ b \notin Done
         \/ q \in {"schedule", "claim"}
  PROVE  CleanOK'
  <1>1. Hit(q, Driving) + Hit(b, Driving) - Hit(pc[t], Driving) + 0 \in {-1, 0}
    BY HitType
  <1>2. q # "worked"
    BY DEF Done
  <1>3. /\ Ordinary(t) /\ call[t] \in Calls
        /\ Load(call[t]) \in {0, 1} /\ Load(call[t])' \in {0, 1}
        /\ Load(call[t])' =
               Load(call[t]) + Hit(q, Driving) + Hit(b, Driving) - Hit(pc[t], Driving) + 0
    BY <1>1, <1>2, CallOrdinary
  <1>4. Load(call[t]) = 0 => Load(call[t])' = 0
    BY <1>1, <1>3, HitType
  <1>5. DoneOK(t)'
    BY <1>4, CallDone DEF TypeInv, FramesOK, CleanOK, Shape
  <1> QED BY <1>3, <1>5, OrdinaryKeeps DEF TypeInv

\* With what drove the call gone, or nothing left that did
LEMMA CallUnloaded ==
  ASSUME TypeInv, TypeInv', CleanOK, NEW t \in Threads, Shape(t), pc[t] # "idle",
         NEW q \in Labels, NEW b \in Labels, Call(t, q, b), Waits(t, 0),
         pc[t] \in Driving \/ Load(call[t]) = 0,
         q \notin Driving \cup Canceling \cup Worked, b \notin Driving \cup Canceling,
         pc[t] \notin Canceling, b = "worked" => pc[t] \in Driving
  PROVE  CleanOK'
  <1>1. /\ Hit(q, Driving) = 0 /\ Hit(b, Driving) = 0
        /\ Hit(q, Canceling) + Hit(b, Canceling) = Hit(pc[t], Canceling)
        /\ Hit(pc[t], Driving) \in {0, 1} /\ (pc[t] \in Driving => Hit(pc[t], Driving) = 1)
        /\ q # "worked"
    BY DEF Hit, Worked
  <1>2. Hit(q, Driving) + Hit(b, Driving) - Hit(pc[t], Driving) + 0 \in {-1, 0}
    BY <1>1
  <1>3. /\ Ordinary(t) /\ call[t] \in Calls
        /\ Load(call[t]) \in {0, 1} /\ Load(call[t])' \in {0, 1}
        /\ Load(call[t])' =
               Load(call[t]) + Hit(q, Driving) + Hit(b, Driving) - Hit(pc[t], Driving) + 0
    BY <1>1, <1>2, CallOrdinary
  <1>4. Load(call[t])' = 0
    BY <1>1, <1>3
  <1> QED BY <1>3, <1>4, DoneUnloaded, OrdinaryKeeps DEF TypeInv

\* Out of a function
LEMMA ReturnOrdinary ==
  ASSUME TypeInv, TypeInv', CleanOK, NEW t \in Threads, Shape(t),
         pc[t] \notin Bottom \cup Canceling, Return(t), NEW k \in Int, Waits(t, k),
         k - Hit(pc[t], Driving) \in {-1, 0}
  PROVE  /\ Ordinary(t) /\ call[t] \in Calls
         /\ Load(call[t]) \in {0, 1} /\ Load(call[t])' \in {0, 1}
         /\ Load(call[t])' = Load(call[t]) + k - Hit(pc[t], Driving)
  <1> USE DEF TypeInv
  <1> DEFINE n == 0 - Hit(pc[t], Driving) + k
             w == 0 - Hit(pc[t], Worked)
  <1>1. call[t] \in Calls
    BY DEF ControlOK, Bottom
  <1>2. Tally(t, n, 0 - Hit(pc[t], Canceling), w)
    BY ReturnTally DEF Shape
  <1>3. 0 - Hit(pc[t], Canceling) = 0 /\ w \in {-1, 0} /\ n \in {-1, 0}
    <2>1. Hit(pc[t], Canceling) = 0
      BY DEF Hit
    <2> QED BY <2>1, HitType
  <1>4. Load(call[t]) = 0 \/ Load(call[t]) = 1
    <2>1. Load(call[t]) <= 1
      BY <1>1 DEF CleanOK, CallClean
    <2> QED BY <1>1, <2>1, LoadType
  <1>5. LoadMoves(t, n)
    BY <1>2 DEF Tally
  <1>6. Load(call[t])' \in Nat /\ Load(call[t])' = Load(call[t]) + n
    BY <1>1, <1>5 DEF LoadMoves, Shape
  <1>7. Tally(t, n, 0, w)
    BY <1>2, <1>3
  <1> HIDE DEF w
  <1>8. Ordinary(t)
    BY <1>3, <1>7 DEF Ordinary, Shape
  <1>9. n = 0 - Hit(pc[t], Driving) + k
    OBVIOUS
  <1> HIDE DEF n
  <1>10. Load(call[t])' \in {0, 1}
    BY <1>3, <1>4, <1>6
  <1>11. Load(call[t])' = Load(call[t]) + k - Hit(pc[t], Driving)
    BY <1>4, <1>6, <1>9, HitType
  <1> QED BY <1>1, <1>4, <1>8, <1>10, <1>11

LEMMA ReturnClean ==
  ASSUME TypeInv, TypeInv', FramesOK, CleanOK, NEW t \in Threads, Shape(t), Return(t),
         pc[t] \notin Bottom \cup Canceling \cup {"schedule", "claim"}, arg'[t] = arg[t],
         NEW k \in Int, Waits(t, k), k - Hit(pc[t], Driving) \in {-1, 0}
  PROVE  CleanOK'
  <1>1. /\ Ordinary(t) /\ call[t] \in Calls
        /\ Load(call[t]) \in {0, 1} /\ Load(call[t])' \in {0, 1}
        /\ Load(call[t])' = Load(call[t]) + k - Hit(pc[t], Driving)
    BY ReturnOrdinary
  <1>2. Load(call[t]) = 0 => Load(call[t])' = 0
    BY <1>1, HitType
  <1>3. DoneOK(t)'
    BY <1>2, ReturnDone DEF TypeInv, FramesOK, CleanOK, Shape
  <1> QED BY <1>1, <1>3, OrdinaryKeeps DEF TypeInv

\* XAsyncSchedule has refused.
LEMMA ReturnUnloaded ==
  ASSUME TypeInv, TypeInv', CleanOK, NEW t \in Threads, Shape(t), Return(t),
         pc[t] \in Driving, Waits(t, 0)
  PROVE  CleanOK'
  <1>1. Hit(pc[t], Driving) = 1 /\ pc[t] \notin Bottom \cup Canceling
    BY DEF Hit, Driving, Canceling, Bottom
  <1>2. 0 - Hit(pc[t], Driving) \in {-1, 0}
    BY <1>1
  <1>3. /\ Ordinary(t) /\ call[t] \in Calls
        /\ Load(call[t]) \in {0, 1} /\ Load(call[t])' \in {0, 1}
        /\ Load(call[t])' = Load(call[t]) + 0 - Hit(pc[t], Driving)
    BY <1>1, <1>2, ReturnOrdinary
  <1>4. Load(call[t])' = 0
    BY <1>1, <1>3
  <1> QED BY <1>3, <1>4, DoneUnloaded, OrdinaryKeeps DEF TypeInv

\* Into a function, from none
LEMMA EntryClean ==
  ASSUME TypeInv, TypeInv', CleanOK, NEW t \in Threads, Alone(t),
         UNCHANGED <<cleanup, cleanups>>, pc[t] \in Bottom, NEW q \in Labels,
         NEW s \in Seq(Labels), Enter(t, q, s),
         ({q} \cup Items(s)) \cap (Done \cup Canceling) = {}, Items(s) \cap Driving = {},
         NEW k \in Int, Waits(t, k), Hit(q, Driving) + k \in {-1, 0},
         \A a \in Calls : blockStatus'[a] = "none" => blockStatus[a] = "none"
  PROVE  CleanOK'
  <1> USE DEF TypeInv
  <1> DEFINE n == Hit(q, Driving) + k
  <1>1. Items(s) \cap (Driving \cup Canceling \cup Worked) = {}
    BY DEF Done, Worked
  <1>2. Tally(t, n, Hit(q, Canceling), Hit(q, Worked))
    BY <1>1, EntryTally
  <1>3. Hit(q, Canceling) = 0 /\ Hit(q, Worked) = 0 /\ n \in {-1, 0}
    BY DEF Hit, Worked, Done
  <1>4. Tally(t, n, 0, 0)
    BY <1>2, <1>3
  <1> HIDE DEF n
  <1>5. Ordinary(t)
    BY <1>3, <1>4 DEF Ordinary
  <1>6. pc'[t] = q /\ stack'[t] = s
    BY DEF Enter, ControlOK
  <1>7. Places(t)' = {q} \cup Items(s)
    BY <1>6 DEF Places, Items
  <1>8. DoneOK(t)'
    BY <1>7, DoneNowhere
  <1> QED BY <1>5, <1>8, OrdinaryKeeps

-----------------------------------------------------------------------------
(* XAsyncSchedule, the signal and the client's functions                    *)

LEMMA FollowsShape ==
  ASSUME NEW t, Follows(t), UNCHANGED <<blockStatus, cleanup, cleanups>>
  PROVE  Shape(t)
  BY DEF Shape, Follows

\* A step within a function that has nothing to do with what drives the call
LEMMA GotoLight ==
  ASSUME TypeInv, TypeInv', FramesOK, CleanOK, NEW t \in Threads, Shape(t), pc[t] # "idle",
         NEW q \in Labels \ Done, Goto(t, q), Waits(t, 0),
         q \in Driving <=> pc[t] \in Driving, {pc[t], q} \cap Canceling = {},
         \/ arg'[t] = arg[t] /\ pc[t] \notin {"schedule", "claim"}
         \/ arg'[t] = "pending"
         \/ q \in {"schedule", "claim"}
         \/ pc[t] \in Bodies
  PROVE  CleanOK'
  <1>1. /\ Hit(q, Driving) = Hit(pc[t], Driving) /\ Hit(q, Driving) \in {0, 1}
        /\ Hit(q, Canceling) = Hit(pc[t], Canceling)
    BY DEF Hit
  <1>2. Hit(q, Driving) - Hit(pc[t], Driving) + 0 \in {-1, 0}
    BY <1>1
  <1> QED BY <1>1, <1>2, GotoClean DEF Done

LEMMA ScheduleClean ==
  ASSUME TypeInv, TypeInv', FramesOK, CleanOK, NEW t \in Threads,
         ScheduleCall(t) \/ ClaimSchedule(t) \/ SubmitWork(t)
  PROVE  CleanOK'
  <1>1. /\ Follows(t) /\ call'[t] = call[t]
        /\ {"schedule", "claim", "submit", "release"} \subseteq Labels \ (Done \cup Canceling)
        /\ {"schedule", "claim", "submit"} \subseteq Driving /\ "release" \notin Driving
        /\ {"schedule", "claim", "submit"} \cap Bottom = {}
    BY WorkFollows DEF TypeInv, Follows, Labels, Done, Canceling, Driving, Bottom
  <1>2. Shape(t) /\ pc[t] \in {"schedule", "claim", "submit"}
    BY <1>1, FollowsShape DEF ScheduleCall, ClaimSchedule, SubmitWork
  <1>3. ASSUME UNCHANGED queue
        PROVE  Waits(t, 0)
    BY <1>3, WaitsSame DEF TypeInv, ScheduleCall, ClaimSchedule, SubmitWork
  <1>4. CASE ScheduleCall(t)
    <2>1. UNCHANGED queue /\ (Goto(t, "claim") \/ Return(t))
      BY <1>4 DEF ScheduleCall
    <2> QED BY <1>1, <1>2, <1>3, <2>1, GotoLight, ReturnUnloaded
  <1>5. CASE ClaimSchedule(t)
    <2>1. UNCHANGED queue
      BY <1>5 DEF ClaimSchedule
    <2>2. CASE workScheduled[call[t]]
      <3>1. Goto(t, "release")
        BY <1>5, <2>2 DEF ClaimSchedule
      <3> QED BY <1>1, <1>2, <1>3, <2>1, <3>1, GotoUnloaded
    <2>3. CASE ~workScheduled[call[t]]
      <3>1. Goto(t, "submit") /\ arg'[t] = "pending"
        BY <1>5, <2>3 DEF ClaimSchedule, TypeInv, ControlOK
      <3> QED BY <1>1, <1>2, <1>3, <2>1, <3>1, GotoLight
    <2> QED BY <2>2, <2>3
  <1>6. CASE SubmitWork(t)
    <2>1. CASE Refuses("Work")
      <3>1. UNCHANGED queue /\ Goto(t, "release")
        BY <1>6, <2>1 DEF SubmitWork
      <3> QED BY <1>1, <1>2, <1>3, <3>1, GotoUnloaded
    <2>2. CASE ~Refuses("Work")
      <3>1. /\ Submit("Work", call[t]) /\ Return(t) /\ UNCHANGED <<arg, owed>>
            /\ pc[t] = "submit"
        BY <1>6, <2>2 DEF SubmitWork
      <3>2. call[t] \in Calls
        BY <3>1 DEF TypeInv, ControlOK
      <3>3. \A a : Queued(a, "Work")' = Queued(a, "Work") + IF a = call[t] THEN 1 ELSE 0
        BY <3>1, <3>2, QueuedSubmit DEF Ports, TypeInv
      <3>4. \A a \in Calls : Queued(a, "Work") \in Nat /\ Owing(a)' = Owing(a)
                             /\ Owing(a) \in {0, 1}
        BY <3>1, QueuedType DEF Ports, TypeInv, Owing
      <3>5. Waits(t, 1)
        BY <1>1, <3>3, <3>4 DEF Waits
      <3>6. 1 - Hit(pc[t], Driving) \in {-1, 0}
        BY <1>1, <3>1 DEF Hit
      <3> QED BY <1>1, <1>2, <3>1, <3>5, <3>6, ReturnClean
    <2> QED BY <2>1, <2>2
  <1> QED BY <1>4, <1>5, <1>6

LEMMA SignalClean ==
  ASSUME TypeInv, TypeInv', FramesOK, CleanOK, NEW t \in Threads,
         \/ SignalCompletion(t) \/ SignalWait(t) \/ ResumeQueue(t) \/ CollectQueue(t)
         \/ GetResult(t) \/ ExtractResult(t) \/ Cancel(t)
         \/ TryCancel(t) /\ cleanup[call[t]] # "Destructor"
         \/ WaitReturns(t)
  PROVE  CleanOK'
  <1> DEFINE R == {"signal", "satisfy", "dead", "resume", "collect", "result", "fetch", "free",
                   "cancel", "try", "release", "waiting"}
  <1>1. /\ Follows(t) /\ call'[t] = call[t] /\ R \subseteq Labels \ Done
        /\ R \cap (Driving \cup Canceling \cup Bottom \cup {"schedule", "claim"}) = {}
    <2>1. Follows(t)
      BY SignalFollows, BodyFollows DEF TypeInv
    <2> QED BY <2>1 DEF Follows, Labels, Done, Canceling, Driving, Bottom
  <1>2. Shape(t) /\ pc[t] \in R /\ arg'[t] = arg[t]
    <2>1. UNCHANGED <<blockStatus, cleanup, cleanups, arg>> /\ pc[t] \in R
      BY DEF SignalCompletion, SignalWait, ResumeQueue, CollectQueue, GetResult, ExtractResult,
             Cancel, TryCancel, WaitReturns
    <2> QED BY <1>1, <2>1, FollowsShape
  <1>3. Waits(t, 0)
    <2>1. UNCHANGED owed
      BY DEF SignalCompletion, SignalWait, ResumeQueue, CollectQueue, GetResult, ExtractResult,
             Cancel, TryCancel, WaitReturns
    <2>2. queue'["Work"] = queue["Work"]
      BY DEF SignalCompletion, SignalWait, ResumeQueue, CollectQueue, GetResult, ExtractResult,
             Cancel, TryCancel, WaitReturns, Submit, TypeInv, QueueOK, Ports
    <2> QED BY <2>1, <2>2, WaitsSame DEF TypeInv
  <1>4. (\E q \in R : Goto(t, q)) \/ Return(t)
    BY DEF SignalCompletion, SignalWait, ResumeQueue, CollectQueue, GetResult, ExtractResult,
           Cancel, TryCancel, WaitReturns
  <1> HIDE DEF R
  <1>5. ASSUME NEW q \in R, Goto(t, q)
        PROVE  CleanOK'
    <2>1. /\ q \in Labels \ Done /\ (q \in Driving <=> pc[t] \in Driving)
          /\ {pc[t], q} \cap Canceling = {} /\ pc[t] # "idle"
      BY <1>1, <1>2 DEF Bottom
    <2> QED BY <1>1, <1>2, <1>3, <1>5, <2>1, GotoLight
  <1>6. CASE Return(t)
    <2>1. /\ pc[t] \notin Bottom \cup Canceling \cup {"schedule", "claim"}
          /\ Hit(pc[t], Driving) = 0
      BY <1>1, <1>2 DEF Hit
    <2>2. 0 - Hit(pc[t], Driving) \in {-1, 0}
      BY <2>1
    <2> QED BY <1>2, <1>3, <1>6, <2>1, <2>2, ReturnClean
  <1> QED BY <1>4, <1>5, <1>6

-----------------------------------------------------------------------------
(* The bodies of XAsyncBegin, of WorkerCallback and of CompletionCallback   *)

\* The provider's Begin or DoWork: what drives the call goes on to be something else,
\* or XAsyncComplete is called.
LEMMA ProviderClean ==
  ASSUME TypeInv, TypeInv', FramesOK, CleanOK, NEW t \in Threads, Follows(t),
         NEW back \in {"beginning", "worked"}, pc[t] \in {"begin", "working"},
         ProviderOp(t, back)
  PROVE  CleanOK'
  <1> DEFINE a == call[t]
  <1>1. /\ call'[t] = a /\ pc[t] \in Driving /\ pc[t] # "idle" /\ a \in Calls
        /\ back \in Labels \ (Driving \cup Canceling \cup {"complete", "settle", "aborting"})
        /\ "schedule" \in Labels \ (Done \cup Canceling) /\ "schedule" \in Driving
        /\ "complete" \in Labels \ (Driving \cup Canceling \cup Worked)
        /\ pc[t] \notin Canceling
    BY DEF TypeInv, ControlOK, Follows, Labels, Done, Canceling, Driving, Worked
  <1>2. /\ UNCHANGED <<blockStatus, cleanup, cleanups>> /\ queue'["Work"] = queue["Work"]
    BY DEF ProviderOp
  <1>3. Shape(t)
    BY <1>2, FollowsShape
  <1>4. UNCHANGED owed => Waits(t, 0)
    BY <1>2, WaitsSame DEF TypeInv
  <1>5. /\ Hit(pc[t], Driving) = 1 /\ Hit(back, Driving) = 0 /\ Hit("schedule", Driving) = 1
        /\ Hit(pc[t], Canceling) = 0 /\ Hit(back, Canceling) = 0
        /\ Hit("schedule", Canceling) = 0
    BY <1>1 DEF Hit
  <1>6. \/ Call(t, "complete", back) /\ UNCHANGED owed
        \/ Call(t, "schedule", back) /\ UNCHANGED owed
        \/ Goto(t, back) /\ owed' = [owed EXCEPT ![a] = TRUE] /\ arg'[t] = "pending"
        \/ Goto(t, back) /\ UNCHANGED owed
    BY DEF ProviderOp, TypeInv, ControlOK
  <1>7. CASE Call(t, "complete", back) /\ UNCHANGED owed
    BY <1>1, <1>3, <1>4, <1>7, CallUnloaded
  <1>8. CASE Call(t, "schedule", back) /\ UNCHANGED owed
    <2>1. /\ Hit("schedule", Driving) + Hit(back, Driving) - Hit(pc[t], Driving) \in {-1, 0}
          /\ Hit("schedule", Canceling) + Hit(back, Canceling) = Hit(pc[t], Canceling)
      BY <1>5
    <2> QED BY <1>1, <1>3, <1>4, <1>8, <2>1, CallKeepsClean
  <1>9. CASE Goto(t, back) /\ owed' = [owed EXCEPT ![a] = TRUE] /\ arg'[t] = "pending"
    <2>1. ~owed[a]
      <3>1. Load(a) <= 1
        BY <1>1 DEF CleanOK, CallClean
      <3>2. Number(Driving, a) > 0
        BY <1>1, PlacesSplit, PlaceCounts DEF TypeInv
      <3>3. Queued(a, "Work") \in Nat /\ Number(Driving, a) \in Nat
        BY <1>1, LoadType
      <3> QED BY <3>1, <3>2, <3>3 DEF Load, Owing
    <2>2. \A b \in Calls : Owing(b)' = Owing(b) + IF b = a THEN 1 ELSE 0
      BY <1>1, <1>9, <2>1 DEF Owing, TypeInv, CallsOK
    <2>3. \A b \in Calls : /\ Queued(b, "Work")' = Queued(b, "Work")
                           /\ Queued(b, "Work") \in Nat /\ Owing(b) \in {0, 1}
      BY <1>2, QueuedType DEF Queued, Ports, TypeInv, Owing
    <2>4. Waits(t, 1)
      BY <1>1, <2>2, <2>3 DEF Waits
    <2>5. /\ Hit(back, Driving) - Hit(pc[t], Driving) + 1 \in {-1, 0}
          /\ Hit(back, Canceling) = Hit(pc[t], Canceling)
      BY <1>5
    <2> QED BY <1>1, <1>3, <1>9, <2>4, <2>5, GotoClean
  <1>10. CASE Goto(t, back) /\ UNCHANGED owed
    BY <1>1, <1>3, <1>4, <1>10, GotoUnloaded
  <1> QED BY <1>6, <1>7, <1>8, <1>9, <1>10

LEMMA BodyClean ==
  ASSUME TypeInv, TypeInv', FramesOK, CleanOK, NEW t \in Threads,
         \/ EndBegin(t) \/ StartWork(t) \/ Abort(t) \/ EndWork(t) \/ ClientCallback(t)
         \/ CleanupAfterWork(t) /\ cleanup[call[t]] # "AfterDoWork"
  PROVE  CleanOK'
  <1> DEFINE R == {"beginning", "start", "start canceled", "aborting", "worked", "callback",
                   "after"}
  <1>1. Follows(t) /\ call'[t] = call[t] /\ pc[t] \in R
    <2>1. Follows(t)
      BY BodyFollows DEF TypeInv
    <2> QED BY <2>1 DEF Follows, EndBegin, StartWork, Abort, EndWork, ClientCallback,
               CleanupAfterWork
  <1>2. UNCHANGED <<blockStatus, cleanup, cleanups, owed>> /\ queue'["Work"] = queue["Work"]
    BY DEF EndBegin, StartWork, Abort, EndWork, ClientCallback, CleanupAfterWork
  <1>3. Shape(t) /\ Waits(t, 0)
    BY <1>1, <1>2, FollowsShape, WaitsSame DEF TypeInv
  <1>4. /\ pc[t] # "idle" /\ pc[t] \notin Canceling
        /\ pc[t] \in Driving <=> pc[t] \in {"start", "start canceled"}
        /\ pc[t] \in Places(t) /\ pc[t] \notin {"schedule", "claim"}
    BY <1>1, PlacesSplit DEF Canceling, Driving
  <1>5. /\ {"release", "after", "satisfy", "working", "cancel", "result"} \subseteq Labels \ Done
        /\ {"complete", "aborting"} \subseteq Labels
        /\ {"release", "after", "satisfy", "working", "cancel", "result", "complete", "aborting"}
              \cap (Canceling \cup Worked) = {}
        /\ {"release", "after", "satisfy", "cancel", "result", "complete", "aborting"}
              \cap Driving = {}
        /\ "working" \in Driving /\ {"after", "beginning", "aborting", "worked"} \subseteq Bodies
    BY DEF Labels, Done, Canceling, Worked, Driving, Bodies, Core
  <1>6. CASE EndBegin(t)
    <2>1. CASE arg[t] = "fail"
      <3>1. Call(t, "complete", "release") /\ pc[t] = "beginning"
        BY <1>6, <2>1 DEF EndBegin
      <3>2. Load(call[t]) = 0
        BY <1>4, <2>1, <3>1 DEF CleanOK, DoneOK
      <3> QED BY <1>3, <1>4, <1>5, <3>1, <3>2, CallUnloaded
    <2>2. CASE arg[t] # "fail"
      <3>1. Goto(t, "release") /\ pc[t] = "beginning"
        BY <1>6, <2>2 DEF EndBegin
      <3> QED BY <1>3, <1>4, <1>5, <3>1, GotoLight
    <2> QED BY <2>1, <2>2
  <1>7. CASE StartWork(t)
    <2>1. \/ Goto(t, "release") /\ pc[t] \in Driving
          \/ Call(t, "cancel", "aborting") /\ pc[t] \in Driving
          \/ Goto(t, "working") /\ pc[t] \in Driving /\ UNCHANGED arg
      BY <1>7 DEF StartWork, Driving
    <2>2. CASE Goto(t, "release") /\ pc[t] \in Driving
      BY <1>3, <1>4, <1>5, <2>2, GotoUnloaded
    <2>3. CASE Call(t, "cancel", "aborting") /\ pc[t] \in Driving
      BY <1>3, <1>4, <1>5, <2>3, CallUnloaded
    <2>4. CASE Goto(t, "working") /\ pc[t] \in Driving /\ UNCHANGED arg
      BY <1>3, <1>4, <1>5, <2>4, GotoLight
    <2> QED BY <2>1, <2>2, <2>3, <2>4
  <1>8. CASE Abort(t)
    <2>1. CASE blockStatus[call[t]] = "abort"
      <3>1. Goto(t, "after") /\ pc[t] = "aborting"
        BY <1>8, <2>1 DEF Abort
      <3> QED BY <1>3, <1>4, <1>5, <3>1, GotoLight
    <2>2. CASE blockStatus[call[t]] # "abort"
      <3>1. Call(t, "complete", "after") /\ pc[t] = "aborting"
        BY <1>8, <2>2 DEF Abort
      <3>2. Load(call[t]) = 0
        BY <1>4, <3>1 DEF CleanOK, DoneOK
      <3> QED BY <1>3, <1>4, <1>5, <3>1, <3>2, CallUnloaded
    <2> QED BY <2>1, <2>2
  <1>9. CASE EndWork(t)
    <2>1. CASE arg[t] = "pending"
      <3>1. Goto(t, "after") /\ pc[t] = "worked"
        BY <1>9, <2>1 DEF EndWork
      <3> QED BY <1>3, <1>4, <1>5, <3>1, GotoLight
    <2>2. CASE arg[t] # "pending"
      <3>1. Call(t, "complete", "after") /\ pc[t] = "worked"
        BY <1>9, <2>2 DEF EndWork
      <3>2. Load(call[t]) = 0
        BY <1>4, <2>2, <3>1 DEF CleanOK, DoneOK
      <3> QED BY <1>3, <1>4, <1>5, <3>1, <3>2, CallUnloaded
    <2> QED BY <2>1, <2>2
  <1>10. CASE ClientCallback(t)
    <2>1. /\ pc[t] = "callback" /\ UNCHANGED arg
          /\ Goto(t, "satisfy") \/ Call(t, "result", "satisfy")
      BY <1>10 DEF ClientCallback
    <2>2. pc[t] \notin Driving
      BY <1>4, <2>1
    <2>3. CASE Goto(t, "satisfy")
      BY <1>3, <1>4, <1>5, <2>1, <2>2, <2>3, GotoLight
    <2>4. CASE Call(t, "result", "satisfy")
      <3>1. /\ Hit("result", Driving) = 0 /\ Hit("satisfy", Driving) = 0
            /\ Hit(pc[t], Driving) = 0
            /\ Hit("result", Canceling) = 0 /\ Hit("satisfy", Canceling) = 0
            /\ Hit(pc[t], Canceling) = 0
        BY <1>4, <1>5, <2>2 DEF Hit
      <3>2. /\ Hit("result", Driving) + Hit("satisfy", Driving) - Hit(pc[t], Driving) \in {-1, 0}
            /\ Hit("result", Canceling) + Hit("satisfy", Canceling) = Hit(pc[t], Canceling)
        BY <3>1
      <3>3. "satisfy" \notin Done
        BY <1>5
      <3> QED BY <1>3, <1>4, <1>5, <2>1, <2>4, <3>2, <3>3, CallKeepsClean DEF Done
    <2> QED BY <2>1, <2>3, <2>4
  <1>11. CASE CleanupAfterWork(t) /\ cleanup[call[t]] # "AfterDoWork"
    <2>1. Goto(t, "release") /\ pc[t] = "after"
      BY <1>11 DEF CleanupAfterWork
    <2> QED BY <1>3, <1>4, <1>5, <2>1, GotoLight
  <1> QED BY <1>6, <1>7, <1>8, <1>9, <1>10, <1>11

\* The provider's Cancel may complete the call while something drives it, but no DoWork
\* of its thread is under way.
LEMMA ProviderCancelClean ==
  ASSUME TypeInv, TypeInv', FramesOK, CleanOK, NEW t \in Threads, ProviderCancel(t)
  PROVE  CleanOK'
  <1>1. /\ Follows(t) /\ call'[t] = call[t] /\ pc[t] = "canceling" /\ pc[t] # "idle"
    <2>1. Follows(t)
      BY SignalFollows DEF TypeInv
    <2> QED BY <2>1 DEF Follows, ProviderCancel
  <1>2. UNCHANGED <<blockStatus, cleanup, cleanups, owed>> /\ queue'["Work"] = queue["Work"]
    BY DEF ProviderCancel
  <1>3. Shape(t) /\ Waits(t, 0)
    BY <1>1, <1>2, FollowsShape, WaitsSame DEF TypeInv
  <1>4. /\ Hit("canceling", Canceling) = 1 /\ Hit("revert", Canceling) = 1
        /\ Hit("complete", Canceling) = 0 /\ Hit("complete", Driving) = 0
        /\ Hit("canceling", Driving) = 0 /\ Hit("revert", Driving) = 0
        /\ {"complete", "revert"} \subseteq Labels
        /\ "revert" \notin {"complete", "settle", "aborting", "worked", "beginning"}
    BY DEF Hit, Canceling, Driving, Labels
  <1>5. CASE Goto(t, "revert") /\ UNCHANGED arg
    <2>1. Hit("revert", Driving) - Hit(pc[t], Driving) + 0 \in {-1, 0}
      BY <1>1, <1>4
    <2> QED BY <1>1, <1>3, <1>4, <1>5, <2>1, GotoClean
  <1>6. CASE Call(t, "complete", "revert")
    <2>1. /\ Hit("complete", Driving) + Hit("revert", Driving) - Hit(pc[t], Driving) + 0
                \in {-1, 0}
          /\ Hit("complete", Canceling) + Hit("revert", Canceling) = Hit(pc[t], Canceling)
      BY <1>1, <1>4
    <2>2. /\ Ordinary(t) /\ call[t] \in Calls
          /\ Load(call[t]) \in {0, 1} /\ Load(call[t])' \in {0, 1}
          /\ Load(call[t])' = Load(call[t]) + Hit("complete", Driving) + Hit("revert", Driving)
                                 - Hit(pc[t], Driving) + 0
      BY <1>1, <1>3, <1>4, <1>6, <2>1, CallOrdinary
    <2>3. Load(call[t])' = Load(call[t])
      BY <1>1, <1>4, <2>2
    <2>4. /\ pc'[t] = "complete" /\ Below(t)' = Below(t) \cup {"revert"}
          /\ Places(t)' = {"complete", "revert"} \cup Below(t) /\ Below(t) \subseteq Places(t)
      <3>1. pc'[t] = "complete" /\ Below(t)' = Below(t) \cup {"revert"}
        BY <1>4, <1>6, Placed DEF TypeInv
      <3> QED BY <3>1, PlacesSplit DEF Places, Below, Items
    <2>5. Places(t) \cap Core = {}
      BY <1>1 DEF FramesOK, FrameOK, CancelAt
    <2>6. "aborting" \in Places(t) => Load(call[t]) = 0
      BY <1>1 DEF CleanOK, DoneOK
    <2>7. DoneOK(t)'
      BY <1>1, <2>3, <2>4, <2>5, <2>6 DEF DoneOK, Core
    <2> QED BY <2>2, <2>7, OrdinaryKeeps DEF TypeInv
  <1> QED BY <1>5, <1>6 DEF ProviderCancel

-----------------------------------------------------------------------------
(* XAsyncComplete is called with nothing left that drives the call, or from *)
(* the provider's Cancel.                                                   *)

LEMMA CompleteClean ==
  ASSUME TypeInv, TypeInv', FramesOK, CleanOK, NEW t \in Threads, Complete(t)
  PROVE  CleanOK'
  <1>1. /\ Follows(t) /\ call'[t] = call[t] /\ pc[t] = "complete" /\ call[t] \in Calls
        /\ arg[t] # "none"
    <2>1. Follows(t) /\ pc[t] = "complete"
      BY WorkFollows DEF TypeInv, Complete
    <2> QED BY <2>1 DEF Follows, TypeInv, ControlOK, Args
  <1>2. /\ UNCHANGED <<cleanup, cleanups, owed>> /\ queue'["Work"] = queue["Work"]
        /\ CompleteWith(t, call[t], arg[t], stack[t])
    BY DEF Complete
  <1>3. \/ Call(t, "signal", "release") \/ Call(t, "signal", "settle")
        \/ Goto(t, "release") \/ Return(t)
    BY <1>2 DEF CompleteWith, Call, Goto, Return
  <1>4. Shape(t) /\ Waits(t, 0)
    <2>1. \A a \in Calls : blockStatus'[a] = "none" => blockStatus[a] = "none"
      BY <1>1, <1>2 DEF CompleteWith, TrySetTerminalStatus, TypeInv, CallsOK
    <2> QED BY <1>1, <1>2, <2>1, WaitsSame DEF Shape, Follows, TypeInv
  <1>5. /\ {"complete", "signal", "release", "settle"} \subseteq Labels
        /\ {"complete", "signal", "release", "settle"} \cap (Driving \cup Canceling \cup Worked) = {}
        /\ "complete" \notin Bottom
    BY DEF Labels, Driving, Canceling, Worked, Bottom
  <1>6. \A p \in {"complete", "signal", "release", "settle"} :
            Hit(p, Driving) = 0 /\ Hit(p, Canceling) = 0
    BY <1>5 DEF Hit
  <1>7. /\ Ordinary(t) /\ Load(call[t])' = Load(call[t])
    <2>1. /\ Hit("signal", Driving) + Hit("release", Driving) - Hit(pc[t], Driving) + 0 \in {-1, 0}
          /\ Hit("signal", Driving) + Hit("settle", Driving) - Hit(pc[t], Driving) + 0 \in {-1, 0}
          /\ Hit("release", Driving) - Hit(pc[t], Driving) + 0 \in {-1, 0}
          /\ 0 - Hit(pc[t], Driving) \in {-1, 0}
          /\ Hit("signal", Canceling) + Hit("release", Canceling) = Hit(pc[t], Canceling)
          /\ Hit("signal", Canceling) + Hit("settle", Canceling) = Hit(pc[t], Canceling)
          /\ Hit("release", Canceling) = Hit(pc[t], Canceling)
      BY <1>1, <1>6
    <2>2. CASE Call(t, "signal", "release")
      <3>1. /\ Ordinary(t) /\ Load(call[t]) \in {0, 1}
            /\ Load(call[t])' = Load(call[t]) + Hit("signal", Driving) + Hit("release", Driving)
                                   - Hit(pc[t], Driving) + 0
        BY <1>1, <1>4, <1>5, <2>1, <2>2, CallOrdinary
      <3> QED BY <1>1, <1>6, <3>1
    <2>3. CASE Call(t, "signal", "settle")
      <3>1. /\ Ordinary(t) /\ Load(call[t]) \in {0, 1}
            /\ Load(call[t])' = Load(call[t]) + Hit("signal", Driving) + Hit("settle", Driving)
                                   - Hit(pc[t], Driving) + 0
        BY <1>1, <1>4, <1>5, <2>1, <2>3, CallOrdinary
      <3> QED BY <1>1, <1>6, <3>1
    <2>4. CASE Goto(t, "release")
      <3>1. /\ Ordinary(t) /\ Load(call[t]) \in {0, 1}
            /\ Load(call[t])' = Load(call[t]) + Hit("release", Driving) - Hit(pc[t], Driving) + 0
        BY <1>1, <1>4, <1>5, <2>1, <2>4, GotoOrdinary
      <3> QED BY <1>1, <1>6, <3>1
    <2>5. CASE Return(t)
      <3>1. /\ Ordinary(t) /\ Load(call[t]) \in {0, 1}
            /\ Load(call[t])' = Load(call[t]) + 0 - Hit(pc[t], Driving)
        BY <1>1, <1>4, <1>5, <2>1, <2>5, ReturnOrdinary
      <3> QED BY <1>1, <1>6, <3>1
    <2> QED BY <1>3, <2>2, <2>3, <2>4, <2>5
  <1>8. DoneOK(t)'
    <2>1. Load(call[t]) = 0 \/ "revert" \in Below(t)
      BY <1>1 DEF CleanOK, DoneOK
    <2>2. CASE Load(call[t]) = 0
      BY <1>7, <2>2, DoneUnloaded
    <2>3. CASE "revert" \in Below(t)
      <3>1. /\ Places(t) \cap Core = {} /\ "settle" \notin Below(t)
            /\ "aborting" \in Places(t) => Load(call[t]) = 0
        BY <1>1, <2>3 DEF FramesOK, FrameOK, CleanOK, DoneOK, InSignal
      <3>2. /\ Places(t)' \subseteq Places(t) \cup {"signal", "release", "settle"}
            /\ pc'[t] # "complete" /\ ("settle" \in Places(t)' => "revert" \in Below(t)')
        <4>1. Places(t) = {"complete"} \cup Below(t) /\ Places(t)' = {pc'[t]} \cup Below(t)'
          BY <1>1, PlacesSplit DEF Places, Below, Items
        <4>2. CASE Call(t, "signal", "release")
          <5>1. pc'[t] = "signal" /\ Below(t)' = Below(t) \cup {"release"}
            BY <1>5, <4>2, Placed DEF TypeInv
          <5> QED BY <2>3, <4>1, <5>1
        <4>3. CASE Call(t, "signal", "settle")
          <5>1. pc'[t] = "signal" /\ Below(t)' = Below(t) \cup {"settle"}
            BY <1>5, <4>3, Placed DEF TypeInv
          <5> QED BY <2>3, <4>1, <5>1
        <4>4. CASE Goto(t, "release")
          <5>1. pc'[t] = "release" /\ Below(t)' = Below(t)
            BY <4>4, Placed DEF TypeInv
          <5> QED BY <2>3, <4>1, <5>1
        <4>5. CASE Return(t)
          <5>1. pc'[t] \in Pushed /\ Below(t) = Below(t)' \cup {pc'[t]}
            BY <1>1, <1>5, <4>5, Placed DEF TypeInv
          <5> QED BY <3>1, <4>1, <5>1 DEF Pushed
        <4> QED BY <1>3, <4>2, <4>3, <4>4, <4>5
      <3> QED BY <1>1, <1>7, <3>1, <3>2 DEF DoneOK, Core
    <2> QED BY <2>1, <2>2, <2>3
  <1> QED BY <1>7, <1>8, OrdinaryKeeps DEF TypeInv

LEMMA EntryAlone ==
  ASSUME ControlOK, NEW t \in Threads,
         \/ Begin(t) \/ VerifySuspend(t) \/ GetStatus(t) \/ FetchResult(t)
         \/ RunCompletion(t) \/ (\E a \in Calls : StartCancel(t, a))
         \/ (\E a \in Calls : OutsiderCompletes(t, a)) \/ RunWork(t)
  PROVE  Alone(t)
  <1>1. \E q, s : Enter(t, q, s)
    BY DEF Begin, VerifySuspend, GetStatus, FetchResult, RunCompletion, RunWork, StartCancel,
           OutsiderCompletes, CompleteWith
  <1>2. UNCHANGED call \/ \E c : call' = [call EXCEPT ![t] = c]
    BY DEF Begin, VerifySuspend, GetStatus, FetchResult, RunCompletion, RunWork, StartCancel,
           OutsiderCompletes
  <1>3. UNCHANGED arg
    BY DEF Begin, VerifySuspend, GetStatus, FetchResult, RunCompletion, RunWork, StartCancel,
           OutsiderCompletes
  <1> QED BY <1>1, <1>2, <1>3, MovesAlone

\* What a provider has started completes the call, and nothing is left of it then.
LEMMA OutsiderClean ==
  ASSUME TypeInv, TypeInv', CleanOK, NEW t \in Threads, NEW a \in Calls,
         OutsiderCompletes(t, a)
  PROVE  CleanOK'
  <1>1. /\ pc[t] = "idle" /\ owed[a] /\ owed' = [owed EXCEPT ![a] = FALSE] /\ call'[t] = a
        /\ UNCHANGED <<cleanup, cleanups>> /\ queue'["Work"] = queue["Work"]
    BY DEF OutsiderCompletes, TypeInv, ControlOK
  <1>2. PICK r \in ProviderResults : CompleteWith(t, a, r, <<"idle">>)
    BY DEF OutsiderCompletes
  <1>3. Alone(t)
    BY EntryAlone DEF TypeInv
  <1>4. \A b \in Calls : blockStatus'[b] = "none" => blockStatus[b] = "none"
    <2>1. r \in {"ok", "data", "fail", "abort"}
      BY CallAssumption
    <2> QED BY <1>2, <2>1 DEF CompleteWith, TrySetTerminalStatus, TypeInv, CallsOK
  <1>5. Waits(t, -1)
    <2>1. \A b \in Calls : Owing(b)' = Owing(b) + IF b = a THEN -1 ELSE 0
      BY <1>1 DEF Owing, TypeInv, CallsOK
    <2>2. \A b \in Calls : /\ Queued(b, "Work")' = Queued(b, "Work")
                           /\ Queued(b, "Work") \in Nat /\ Owing(b) \in {0, 1}
      BY <1>1, QueuedType DEF Queued, Ports, TypeInv, Owing
    <2> QED BY <1>1, <2>1, <2>2 DEF Waits
  <1>6. PICK q \in {"signal", "release", "idle"}, s \in Seq(Labels) :
            /\ Enter(t, q, s)
            /\ Items(s) \cap (Driving \cup Canceling \cup Worked) = {}
    <2>1. \/ Enter(t, "signal", <<"release">> \o <<"idle">>)
          \/ Enter(t, "signal", <<"settle">> \o <<"idle">>)
          \/ Enter(t, "release", <<"idle">>)
          \/ Enter(t, Head(<<"idle">>), Tail(<<"idle">>))
      BY <1>2 DEF CompleteWith
    <2>2. Head(<<"idle">>) = "idle" /\ Tail(<<"idle">>) = <<>>
      OBVIOUS
    <2> DEFINE e == <<>>
               i == <<"idle">>
               l == <<"release">> \o <<"idle">>
               m == <<"settle">> \o <<"idle">>
    <2>3. e \in Seq(Labels) /\ i \in Seq(Labels) /\ l \in Seq(Labels) /\ m \in Seq(Labels)
      BY DEF Labels
    <2>4. Items(e) = {} /\ Items(i) = {"idle"}
      BY ShortStacks DEF Labels
    <2>5. Items(l) = {"release", "idle"} /\ Items(m) = {"settle", "idle"}
      <3>1. "release" \in Pushed /\ "settle" \in Pushed
        BY DEF Pushed
      <3> QED BY <3>1, ShortStacks
    <2>6. \/ Enter(t, "signal", l) \/ Enter(t, "signal", m)
          \/ Enter(t, "release", i) \/ Enter(t, "idle", e)
      BY <2>1, <2>2
    <2>7. {"idle", "release", "settle"} \cap (Driving \cup Canceling \cup Worked) = {}
      BY DEF Driving, Canceling, Worked
    <2> HIDE DEF e, i, l, m
    <2> QED BY <2>3, <2>4, <2>5, <2>6, <2>7
  <1>7. /\ Hit(q, Driving) = 0 /\ Hit(q, Canceling) = 0 /\ Hit(q, Worked) = 0
        /\ q \in Labels /\ pc[t] \in Bottom
    BY <1>1 DEF Hit, Driving, Canceling, Worked, Labels, Bottom
  <1>8. Tally(t, -1, 0, 0)
    <2>1. Tally(t, Hit(q, Driving) + -1, Hit(q, Canceling), Hit(q, Worked))
      BY <1>3, <1>5, <1>6, <1>7, EntryTally DEF TypeInv
    <2>2. Hit(q, Driving) + -1 = -1
      BY <1>7
    <2> QED BY <1>7, <2>1, <2>2
  <1>9. Ordinary(t)
    BY <1>1, <1>3, <1>4, <1>8 DEF Ordinary
  <1>10. Load(a)' = 0
    <2>1. Load(a) <= 1 /\ Load(a) \in Nat /\ Load(a) >= 1
      BY <1>1, LoadType DEF CleanOK, CallClean
    <2>2. Load(a)' = Load(a) + -1
      BY <1>1, <1>8 DEF Tally, LoadMoves
    <2> QED BY <2>1, <2>2
  <1>11. Load(call[t])' = 0
    BY <1>1, <1>10
  <1> QED BY <1>9, <1>11, DoneUnloaded, OrdinaryKeeps DEF TypeInv

\* The other functions that a thread enters from none
LEMMA EntriesClean ==
  ASSUME TypeInv, TypeInv', CleanOK, NEW t \in Threads,
         \/ Begin(t) \/ GetStatus(t) \/ FetchResult(t) \/ RunCompletion(t)
         \/ VerifySuspend(t) /\ Refuses("Work")
         \/ (\E a \in Calls : StartCancel(t, a))
  PROVE  CleanOK'
  <1> DEFINE R == {"verify", "waiting", "waited", "result", "done", "callback", "resume", "cancel"}
             B == {"idle", "begun", "waited", "done", "release"}
  <1>1. Alone(t)
    BY EntryAlone DEF TypeInv
  <1>2. UNCHANGED <<cleanup, cleanups, owed>> /\ pc[t] \in Bottom
    BY DEF Begin, GetStatus, FetchResult, RunCompletion, VerifySuspend, StartCancel, Bottom
  <1>3. queue'["Work"] = queue["Work"]
    BY DEF Begin, GetStatus, FetchResult, RunCompletion, VerifySuspend, StartCancel,
           TypeInv, QueueOK, Ports
  <1>4. \A a \in Calls : blockStatus'[a] = "none" => blockStatus[a] = "none"
    BY DEF Begin, GetStatus, FetchResult, RunCompletion, VerifySuspend, StartCancel,
           TypeInv, CallsOK
  <1>5. PICK q \in R, s \in Seq(Labels) : Enter(t, q, s) /\ Items(s) \subseteq B
    <2> DEFINE e == <<>>
               d == <<"done">>
               w == <<"waited">>
               i == <<"idle">>
               r == <<"release", "idle">>
    <2>1. /\ e \in Seq(Labels) /\ d \in Seq(Labels) /\ w \in Seq(Labels) /\ i \in Seq(Labels)
          /\ r \in Seq(Labels)
      BY DEF Labels
    <2>2. Items(e) = {} /\ Items(d) = {"done"} /\ Items(w) = {"waited"} /\ Items(i) = {"idle"}
      BY ShortStacks DEF Labels
    <2>3. Items(r) = {"release", "idle"}
      <3>1. "release" \in Pushed
        BY DEF Pushed
      <3> QED BY <3>1, ShortStacks
    <2>4. \/ Enter(t, "verify", e) \/ Enter(t, "waiting", w) \/ Enter(t, "waited", e)
          \/ Enter(t, "result", d) \/ Enter(t, "done", e) \/ Enter(t, "callback", r)
          \/ Enter(t, "resume", d) \/ Enter(t, "cancel", i)
      BY DEF Begin, GetStatus, FetchResult, RunCompletion, VerifySuspend, StartCancel
    <2> HIDE DEF e, d, w, i, r
    <2> QED BY <2>1, <2>2, <2>3, <2>4
  <1>6. /\ q \in Labels /\ ({q} \cup Items(s)) \cap (Done \cup Canceling) = {}
        /\ Items(s) \cap Driving = {} /\ Hit(q, Driving) = 0
    BY <1>5 DEF Labels, Done, Canceling, Driving, Hit
  <1>7. Waits(t, 0) /\ Hit(q, Driving) + 0 \in {-1, 0}
    BY <1>2, <1>3, <1>6, WaitsSame DEF TypeInv
  <1> QED BY <1>1, <1>2, <1>4, <1>5, <1>6, <1>7, EntryClean

\* A queued WorkerCallback is on its way to DoWork.
LEMMA RunWorkClean ==
  ASSUME TypeInv, TypeInv', CleanOK, NEW t \in Threads, RunWork(t)
  PROVE  CleanOK'
  <1> DEFINE c == Head(queue["Work"])
  <1>1. Alone(t)
    BY EntryAlone DEF TypeInv
  <1>2. /\ pc[t] = "idle" /\ pc[t] \in Bottom /\ queue["Work"] # <<>> /\ call'[t] = c
        /\ queue' = [queue EXCEPT !["Work"] = Tail(@)]
        /\ UNCHANGED <<blockStatus, cleanup, cleanups, owed>>
    BY DEF RunWork, TypeInv, ControlOK, Bottom
  <1>3. PICK q \in Entries : Enter(t, q, <<"idle">>)
    BY DEF RunWork, Entries
  <1>4. /\ c \in Calls
        /\ \A a \in Calls : Queued(a, "Work")' = Queued(a, "Work") - IF a = c THEN 1 ELSE 0
    BY <1>2, QueuedPop DEF TypeInv, Ports
  <1> HIDE DEF c
  <1>5. Waits(t, -1)
    <2>1. \A a \in Calls : Owing(a)' = Owing(a) /\ Owing(a) \in {0, 1}
      BY <1>2 DEF Owing
    <2>2. \A a \in Calls : Queued(a, "Work") \in Nat /\ Queued(a, "Work")' \in Nat
      BY QueuedType, TermTypesNext DEF TypeInv, Ports
    <2>3. ASSUME NEW a \in Calls
          PROVE  Queued(a, "Work")' + Owing(a)' =
                     Queued(a, "Work") + Owing(a) + IF a = call'[t] THEN -1 ELSE 0
      <3>1. Queued(a, "Work")' = Queued(a, "Work") - IF a = c THEN 1 ELSE 0
        BY <1>4
      <3>2. CASE a = c
        BY <1>2, <2>1, <2>2, <3>1, <3>2
      <3>3. CASE a # c
        BY <1>2, <2>1, <2>2, <3>1, <3>3
      <3> QED BY <3>2, <3>3
    <2> QED BY <2>2, <2>3 DEF Waits
  <1> DEFINE s == <<"idle">>
  <1>6. s \in Seq(Labels) /\ Items(s) = {"idle"}
    <2>1. s \in Seq(Labels)
      BY DEF Labels
    <2>2. "idle" \in Labels
      BY DEF Labels
    <2> QED BY <2>1, <2>2, ShortStacks
  <1>7. Enter(t, q, s)
    BY <1>3
  <1> HIDE DEF s
  <1>8. /\ q \in Labels /\ ({q} \cup Items(s)) \cap (Done \cup Canceling) = {}
        /\ Items(s) \cap Driving = {} /\ Hit(q, Driving) = 1
    BY <1>6 DEF Entries, Labels, Done, Canceling, Driving, Hit
  <1>9. Hit(q, Driving) + (-1) \in {-1, 0}
    <2>1. Hit(q, Driving) = 1
      BY <1>8
    <2> QED BY <2>1
  <1> QED BY <1>1, <1>2, <1>5, <1>6, <1>7, <1>8, <1>9, EntryClean

-----------------------------------------------------------------------------
(* The steps that change cleanup, or drive a call that nothing drove        *)

\* XAsyncBegin goes on to the provider's Begin; nobody has worked for the call before.
LEMMA AcceptedClean ==
  ASSUME TypeInv, TypeInv', CallInv, FramesOK, CleanOK, NEW c \in Calls, VerifySuspend(c),
         ~Refuses("Work")
  PROVE  CleanOK'
  <1>1. /\ pc[c] = "verify" /\ pc[c] \in Bottom /\ call[c] = c /\ call'[c] = c /\ c \in Threads
        /\ blockStatus' = [blockStatus EXCEPT ![c] = "pending"]
        /\ Enter(c, "begin", <<"begun">>)
        /\ UNCHANGED <<cleanup, cleanups, owed>> /\ queue'["Work"] = queue["Work"]
    BY DEF VerifySuspend, TypeInv, ControlOK, Bottom, Threads
  <1>2. Alone(c)
    BY <1>1, EntryAlone DEF TypeInv
  <1>3. blockStatus[c] = "none" /\ refs[c] = 0
    BY <1>1 DEF CallInv, SignsOK
  <1>4. Load(c) = 0 /\ cleanup[c] = "Destructor"
    BY <1>3 DEF CleanOK, CallClean
  <1> DEFINE s == <<"begun">>
  <1>5. s \in Seq(Labels) /\ Items(s) = {"begun"} /\ Enter(c, "begin", s)
    <2>1. s \in Seq(Labels)
      BY DEF Labels
    <2>2. "begun" \in Labels
      BY DEF Labels
    <2> QED BY <1>1, <2>1, <2>2, ShortStacks
  <1> HIDE DEF s
  <1>6. /\ "begin" \in Labels /\ Hit("begin", Driving) = 1 /\ Hit("begin", Canceling) = 0
        /\ Hit("begin", Worked) = 0 /\ {"begin", "begun"} \cap Done = {}
        /\ Items(s) \cap (Driving \cup Canceling \cup Worked) = {}
    BY <1>5 DEF Labels, Hit, Driving, Canceling, Worked, Done
  <1>7. Waits(c, 0)
    BY <1>1, WaitsSame DEF TypeInv
  <1>8. Tally(c, 1, 0, 0)
    <2>1. Tally(c, Hit("begin", Driving) + 0, Hit("begin", Canceling), Hit("begin", Worked))
      BY <1>1, <1>2, <1>5, <1>6, <1>7, EntryTally DEF TypeInv
    <2>2. Hit("begin", Driving) + 0 = 1
      BY <1>6
    <2> QED BY <1>6, <2>1, <2>2
  <1>9. \A a \in Calls : /\ Load(a) \in Nat /\ Load(a)' = Load(a) + IF a = c THEN 1 ELSE 0
                         /\ Number(Canceling, a)' = Number(Canceling, a)
                         /\ Number(Worked, a)' = Number(Worked, a)
    BY <1>1, <1>8 DEF Tally, LoadMoves, Moves
  <1>10. ASSUME NEW a \in Calls
         PROVE  CallClean(a)'
    <2>1. CallClean(a) /\ cleanup'[a] = cleanup[a] /\ cleanups'[a] = cleanups[a]
      BY <1>1 DEF CleanOK
    <2>2. CASE a = c
      <3>1. blockStatus'[a] = "pending" /\ Load(a)' = 1
        BY <1>1, <1>4, <1>9, <2>2 DEF TypeInv, CallsOK
      <3> QED BY <1>4, <1>9, <2>1, <2>2, <3>1 DEF CallClean
    <2>3. CASE a # c
      <3>1. blockStatus'[a] = blockStatus[a] /\ Load(a)' = Load(a)
        BY <1>1, <1>9, <2>3 DEF TypeInv, CallsOK
      <3> QED BY <1>9, <2>1, <3>1 DEF CallClean
    <2> QED BY <2>2, <2>3
  <1>11. DoneOK(c)'
    <2>1. pc'[c] = "begin" /\ stack'[c] = s
      BY <1>1, <1>5 DEF Enter, TypeInv, ControlOK
    <2>2. Places(c)' = {"begin", "begun"}
      BY <1>5, <2>1 DEF Places, Items
    <2> QED BY <1>6, <2>2, DoneNowhere
  <1>12. ASSUME NEW u \in Threads, u # c
         PROVE  DoneOK(u)'
    <2>1. pc'[u] = pc[u] /\ stack'[u] = stack[u] /\ call'[u] = call[u] /\ arg'[u] = arg[u]
      BY <1>2, <1>12 DEF Alone
    <2>2. Places(u)' = Places(u) /\ Below(u)' = Below(u)
      BY <2>1 DEF Places, Below
    <2>3. CASE call[u] = c
      <3>1. Places(u) \cap Holding = {}
        <4>1. Number(Holding, c) \in Nat /\ Number(Holding, c) <= 0
          BY <1>3, CountsFollow
        <4>2. \A p \in Holding : p \in Places(u) => Number(Holding, c) > 0
          BY <2>3, PlaceCounts DEF TypeInv
        <4> QED BY <4>1, <4>2
      <3>2. Below(u) \cap Holding = {}
        BY <3>1, PlacesSplit
      <3>3. pc[u] # "complete"
        BY <3>2 DEF FramesOK, FrameOK
      <3>4. {"settle", "aborting", "worked", "beginning"} \subseteq Holding
        BY DEF Holding, Twice
      <3> QED BY <2>1, <2>2, <3>1, <3>3, <3>4 DEF DoneOK
    <2>4. CASE call[u] # c
      <3>1. pc[u] # "idle" => Load(call[u])' = Load(call[u])
        <4>1. pc[u] # "idle" => call[u] \in Calls
          BY DEF TypeInv, ControlOK
        <4> QED BY <1>9, <2>1, <2>4, <4>1
      <3>2. DoneOK(u)
        BY DEF CleanOK
      <3> QED BY <2>1, <2>2, <3>1, <3>2 DEF DoneOK
    <2> QED BY <2>3, <2>4
  <1> QED BY <1>10, <1>11, <1>12 DEF CleanOK

-----------------------------------------------------------------------------
(* What holds of the next state because it holds of every state             *)

\* Nothing of a call is in S if no thread that works for it is.
NoneIn(S) ==
    ControlOK => \A a \in Calls :
        (\A t \in Threads : call[t] = a => Places(t) \cap S = {}) => Number(S, a) = 0

LEMMA NumberNone ==
  ASSUME NEW S
  PROVE  NoneIn(S)
  <1> SUFFICES ASSUME ControlOK, NEW a \in Calls,
                      \A t \in Threads : call[t] = a => Places(t) \cap S = {}
               PROVE  Number(S, a) = 0
    BY DEF NoneIn
  <1>1. ASSUME NEW t \in Threads
        PROVE  Block(S, a, t) = {}
    <2>1. IsFiniteSet(Block(S, a, t)) /\ Cardinality(Block(S, a, t)) = Mine(S, a, t)
      BY BlockCount
    <2>2. CASE call[t] = a
      <3>1. stack[t] \in Seq(Labels) /\ Items(stack[t]) \cap S = {} /\ pc[t] \notin S
        BY <2>2, MineSplit, PlacesSplit DEF Below
      <3>2. Weight(S, stack[t]) = 0 /\ Hit(pc[t], S) = 0
        BY <3>1, WeightZero DEF Hit
      <3>3. Mine(S, a, t) = 0
        BY <2>2, <3>2 DEF Mine
      <3> QED BY <2>1, <3>3, FS_EmptySet
    <2>3. CASE call[t] # a
      BY <2>3 DEF Block
    <2> QED BY <2>2, <2>3
  <1>2. Frames(S, a) = {}
    BY <1>1 DEF Frames
  <1> QED BY <1>2, FS_EmptySet DEF Number

LEMMA NumberNoneNext == NoneIn(Driving)' /\ NoneIn(Canceling)' /\ NoneIn(Worked)'
  <1>1. NoneIn(Driving) /\ NoneIn(Canceling) /\ NoneIn(Worked)
    BY NumberNone
  <1> QED BY <1>1, PTL

\* A call whose last reference is gone has nothing before it.
Unheld ==
    TypeInv /\ CallInv /\ FramesOK => \A a \in Calls :
        refs[a] = 0 => /\ Queued(a, "Work") = 0 /\ Number(Driving, a) = 0
                       /\ Number(Canceling, a) = 0 /\ Number(Worked, a) = 0

LEMMA NobodyHolds == Unheld
  <1> SUFFICES ASSUME TypeInv, CallInv, FramesOK, NEW a \in Calls, refs[a] = 0
               PROVE  /\ Queued(a, "Work") = 0 /\ Number(Driving, a) = 0
                      /\ Number(Canceling, a) = 0 /\ Number(Worked, a) = 0
    BY DEF Unheld
  <1>1. Claims(a) = 0 /\ Number(Holding, a) = 0
    BY CountsFollow
  <1>2. Queued(a, "Work") = 0
    BY <1>1, TermTypes DEF TypeInv
  <1>3. ASSUME NEW t \in Threads, call[t] = a
        PROVE  Places(t) \cap (Driving \cup Canceling \cup Worked) = {}
    <2>1. \A p \in Holding : p \notin Places(t)
      BY <1>1, <1>3, PlaceCounts DEF TypeInv
    <2>2. Places(t) = {pc[t]} \cup Below(t) /\ Below(t) \subseteq Pushed
      <3>1. Below(t) \subseteq Pushed
        BY DEF TypeInv, ControlOK, WellNested, Below, Items
      <3> QED BY <3>1, PlacesSplit
    <2>3. pc[t] # "schedule"
      BY <2>1, <2>2 DEF FramesOK, FrameOK
    <2>4. "schedule" \notin Places(t)
      BY <2>2, <2>3 DEF Pushed
    <2>5. (Driving \cup Canceling \cup Worked) \ {"schedule"} \subseteq Holding
      BY DEF Driving, Canceling, Worked, Holding
    <2> QED BY <2>1, <2>4, <2>5
  <1>4. Number(Driving, a) = 0 /\ Number(Canceling, a) = 0 /\ Number(Worked, a) = 0
    BY <1>3, NumberNone DEF NoneIn, TypeInv
  <1> QED BY <1>2, <1>4

LEMMA NobodyHoldsNext == Unheld'
  BY NobodyHolds, PTL

\* A thread that holds a reference works for a call that was accepted.
LEMMA HolderAccepted ==
  ASSUME TypeInv, CallInv, NEW t \in Threads, pc[t] \in Holding
  PROVE  /\ call[t] \in Calls /\ refs[call[t]] > 0 /\ blockStatus[call[t]] # "none"
  <1>1. call[t] \in Calls
    BY DEF TypeInv, ControlOK, Holding, Twice
  <1>2. Number(Holding, call[t]) > 0
    BY PlacesSplit, PlaceCounts DEF TypeInv
  <1>3. refs[call[t]] > 0
    BY <1>1, <1>2, CountsFollow
  <1> QED BY <1>1, <1>3 DEF CallInv, SignsOK

-----------------------------------------------------------------------------
(* What changes the cleanup of the call of its thread                       *)

LEMMA MarkKeeps ==
  ASSUME TypeInv, CleanOK, NEW t \in Threads, Alone(t), NEW a \in Calls, call'[t] = a,
         blockStatus[a] # "none", UNCHANGED blockStatus,
         NEW n \in Int, NEW c \in Int, NEW w \in Int, Tally(t, n, c, w),
         \A b \in Calls \ {a} : cleanup'[b] = cleanup[b] /\ cleanups'[b] = cleanups[b],
         Load(a) = 0 => Load(a)' = 0, Load(a)' <= 1,
         cleanups'[a] = IF cleanup'[a] = "CleanedUp" THEN 1 ELSE 0,
         Number(Canceling, a)' = IF cleanup'[a] = "InCancel" THEN 1 ELSE 0,
         cleanup'[a] \in {"AfterDoWork", "CleanedUp"} => Load(a)' = 0,
         cleanup'[a] = "CleanedUp" => Number(Worked, a)' = 0,
         DoneOK(t)'
  PROVE  CleanOK'
  <1>1. \A b \in Calls \ {a} : /\ Load(b) \in Nat /\ Load(b)' = Load(b)
                               /\ Number(Canceling, b)' = Number(Canceling, b)
                               /\ Number(Worked, b)' = Number(Worked, b)
    BY DEF Tally, LoadMoves, Moves
  <1>2. ASSUME NEW b \in Calls
        PROVE  CallClean(b)'
    <2>1. CASE b = a
      BY <2>1 DEF CallClean
    <2>2. CASE b # a
      BY <1>1, <2>2 DEF CallClean, CleanOK
    <2> QED BY <2>1, <2>2
  <1>3. \A b \in Calls : Load(b) = 0 => Load(b)' = 0
    BY <1>1
  <1>4. \A u \in Threads : DoneOK(u)'
    BY <1>3, DoneStill DEF TypeInv, CleanOK
  <1> QED BY <1>2, <1>4 DEF CleanOK

\* The provider is told to clean up.
LEMMA CleanKeeps ==
  ASSUME TypeInv, CleanOK, NEW t \in Threads, Alone(t), NEW a \in Calls, call'[t] = a,
         blockStatus[a] # "none", UNCHANGED blockStatus,
         NEW n \in Int, NEW c \in Int, NEW w \in Int, Tally(t, n, c, w),
         Clean(a), cleanup[a] # "CleanedUp",
         Load(a)' = 0, Number(Canceling, a)' = 0, Number(Worked, a)' = 0
  PROVE  CleanOK'
  <1>1. /\ cleanup'[a] = "CleanedUp" /\ cleanups'[a] = cleanups[a] + 1
        /\ \A b \in Calls \ {a} : cleanup'[b] = cleanup[b] /\ cleanups'[b] = cleanups[b]
    BY DEF Clean, TypeInv, CallsOK
  <1>2. cleanups[a] = 0
    BY DEF CleanOK, CallClean
  <1>3. DoneOK(t)'
    <2>1. Load(call[t])' = 0
      OBVIOUS
    <2> QED BY <2>1, DoneUnloaded
  <1> QED BY <1>1, <1>2, <1>3, MarkKeeps

\* Release, and CleanupState with the reference that was the block's.  The destructor
\* cleans up when nobody holds a reference any more.
LEMMA DropClean ==
  ASSUME TypeInv, TypeInv', CallInv, CallInv', FramesOK, FramesOK', CleanOK,
         NEW t \in Threads, Release(t) \/ CleanupState(t)
  PROVE  CleanOK'
  <1>0. pc[t] \in {"release", "free"} /\ pc[t] \in Holding /\ UNCHANGED arg
    BY DEF Release, CleanupState, Holding, Twice
  <1> PICK a \in Calls : a = call[t]
    BY <1>0, HolderAccepted
  <1>1. Follows(t) /\ call'[t] = call[t] /\ call'[t] = a
    BY WorkFollows DEF TypeInv, Follows
  <1>2. Alone(t) /\ refs[a] > 0 /\ blockStatus[a] # "none"
    BY <1>0, <1>1, HolderAccepted DEF Follows
  <1>3. UNCHANGED blockStatus /\ queue'["Work"] = queue["Work"] /\ Drop(a)
    <2>1. UNCHANGED <<queue, blockStatus>> /\ Drop(call[t])
      BY DEF Release, CleanupState
    <2> QED BY <2>1
  <1>4. \/ Goto(t, "release") /\ pc[t] = "free"
        \/ Return(t) /\ pc[t] = "release"
    BY DEF Release, CleanupState
  <1>5. /\ "release" \in Labels \ Done /\ pc[t] # "idle"
        /\ pc[t] \notin Bottom \cup Canceling \cup Driving \cup {"schedule", "claim"}
        /\ {pc[t], "release"} \cap (Driving \cup Canceling \cup Worked) = {}
    BY <1>0 DEF Labels, Done, Bottom, Canceling, Driving, Worked
  <1>6. CASE refs[a] = 1 /\ cleanup[a] # "CleanedUp"
    <2>1. Clean(a) /\ refs'[a] = 0
      BY <1>2, <1>3, <1>6 DEF Drop, TypeInv, CallsOK
    <2>2. owed' = [owed EXCEPT ![a] = FALSE]
      BY <2>1 DEF Clean
    <2>3. Waits(t, 0 - Owing(a))
      <3>1. \A b \in Calls : Owing(b)' = IF b = a THEN 0 ELSE Owing(b)
        BY <1>2, <2>2 DEF Owing, TypeInv, CallsOK
      <3>2. \A b \in Calls : /\ Queued(b, "Work")' = Queued(b, "Work")
                             /\ Queued(b, "Work") \in Nat /\ Owing(b) \in {0, 1}
        BY <1>3, QueuedType DEF Queued, Ports, TypeInv, Owing
      <3> QED BY <1>1, <3>1, <3>2 DEF Waits
    <2>4. 0 - Owing(a) \in Int
      BY DEF Owing
    <2>5. \E n, c, w \in Int : Tally(t, n, c, w)
      <3> DEFINE d == Hit("release", Driving) - Hit(pc[t], Driving) + (0 - Owing(a))
                 e == Hit("release", Canceling) - Hit(pc[t], Canceling)
                 f == Hit("release", Worked) - Hit(pc[t], Worked)
                 g == 0 - Hit(pc[t], Driving) + (0 - Owing(a))
                 h == 0 - Hit(pc[t], Canceling)
                 i == 0 - Hit(pc[t], Worked)
      <3>1. d \in Int /\ e \in Int /\ f \in Int /\ g \in Int /\ h \in Int /\ i \in Int
        BY <2>4, HitType
      <3>2. CASE Goto(t, "release") /\ pc[t] = "free"
        <4>1. Tally(t, d, e, f)
          BY <1>1, <1>2, <1>5, <2>3, <2>4, <3>2, GotoTally DEF TypeInv
        <4> HIDE DEF d, e, f
        <4> QED BY <3>1, <4>1
      <3>3. CASE Return(t) /\ pc[t] = "release"
        <4>1. Tally(t, g, h, i)
          BY <1>1, <1>2, <1>5, <2>3, <2>4, <3>3, ReturnTally DEF TypeInv
        <4> HIDE DEF g, h, i
        <4> QED BY <3>1, <4>1
      <3> QED BY <1>4, <3>2, <3>3
    <2>6. Load(a)' = 0 /\ Number(Canceling, a)' = 0 /\ Number(Worked, a)' = 0
      <3>1. /\ Queued(a, "Work")' = 0 /\ Number(Driving, a)' = 0
            /\ Number(Canceling, a)' = 0 /\ Number(Worked, a)' = 0
        BY <1>2, <2>1, NobodyHoldsNext DEF Unheld
      <3>2. Owing(a)' = 0
        BY <1>2, <2>2 DEF Owing, TypeInv, CallsOK
      <3> QED BY <3>1, <3>2 DEF Load
    <2> QED BY <1>1, <1>2, <1>3, <1>6, <2>1, <2>5, <2>6, CleanKeeps
  <1>7. CASE ~(refs[a] = 1 /\ cleanup[a] # "CleanedUp")
    <2>1. UNCHANGED <<cleanup, cleanups, owed>>
      BY <1>3, <1>7 DEF Drop
    <2>2. Shape(t) /\ Waits(t, 0)
      BY <1>1, <1>3, <2>1, FollowsShape, WaitsSame DEF TypeInv
    <2>3. CASE Goto(t, "release") /\ pc[t] = "free"
      BY <1>0, <1>1, <1>5, <2>2, <2>3, GotoLight
    <2>4. CASE Return(t) /\ pc[t] = "release"
      <3>1. Hit(pc[t], Driving) = 0
        BY <1>5 DEF Hit
      <3>2. 0 - Hit(pc[t], Driving) \in {-1, 0}
        BY <3>1
      <3> QED BY <1>0, <1>1, <1>5, <2>2, <2>4, <3>2, ReturnClean
    <2> QED BY <1>4, <2>3, <2>4
  <1> QED BY <1>6, <1>7

\* XAsyncComplete leaves the cleanup to the end of DoWork, when nothing drives the call.
LEMMA SettleClean ==
  ASSUME TypeInv, TypeInv', CallInv, FramesOK, CleanOK, NEW t \in Threads, Settle(t)
  PROVE  CleanOK'
  <1>0. /\ pc[t] = "settle" /\ pc[t] \in Holding /\ Goto(t, "free")
        /\ UNCHANGED <<arg, blockStatus, cleanups, owed>> /\ queue'["Work"] = queue["Work"]
        /\ cleanup' = [cleanup EXCEPT ![call[t]] = IF @ = "Destructor" THEN "AfterDoWork" ELSE @]
    BY DEF Settle, Holding, Twice
  <1> PICK a \in Calls : a = call[t]
    BY <1>0, HolderAccepted
  <1>1. Follows(t) /\ call'[t] = call[t] /\ call'[t] = a /\ Alone(t) /\ blockStatus[a] # "none"
    BY <1>0, HolderAccepted, WorkFollows DEF TypeInv, Follows
  <1>2. Tally(t, 0, 0, 0)
    <2>1. Waits(t, 0)
      BY <1>0, WaitsSame DEF TypeInv
    <2>2. /\ Hit("free", Driving) = 0 /\ Hit(pc[t], Driving) = 0 /\ Hit("free", Canceling) = 0
          /\ Hit(pc[t], Canceling) = 0 /\ Hit("free", Worked) = 0 /\ Hit(pc[t], Worked) = 0
          /\ "free" \in Labels
      BY <1>0 DEF Hit, Driving, Canceling, Worked, Labels
    <2>3. Tally(t, Hit("free", Driving) - Hit(pc[t], Driving) + 0,
                   Hit("free", Canceling) - Hit(pc[t], Canceling),
                   Hit("free", Worked) - Hit(pc[t], Worked))
      BY <1>0, <1>1, <2>1, <2>2, GotoTally DEF TypeInv
    <2> QED BY <2>2, <2>3
  <1>3. /\ Load(a) \in Nat /\ Load(a)' = Load(a) /\ Number(Canceling, a)' = Number(Canceling, a)
        /\ Number(Worked, a)' = Number(Worked, a)
    BY <1>1, <1>2 DEF Tally, LoadMoves, Moves
  <1>4. cleanup[a] = "Destructor" => Load(a) = 0
    <2> SUFFICES ASSUME cleanup[a] = "Destructor"
                 PROVE  Load(a) = 0
      OBVIOUS
    <2>1. Number(Canceling, a) = 0
      BY DEF CleanOK, CallClean
    <2>2. "revert" \notin Places(t)
      BY <2>1, PlaceCounts DEF TypeInv, Canceling
    <2>3. pc[t] # "idle" /\ "settle" \in Places(t) /\ Below(t) \subseteq Places(t)
      BY <1>0, PlacesSplit
    <2> QED BY <2>2, <2>3 DEF CleanOK, DoneOK
  <1>5. /\ cleanup'[a] = IF cleanup[a] = "Destructor" THEN "AfterDoWork" ELSE cleanup[a]
        /\ \A b \in Calls \ {a} : cleanup'[b] = cleanup[b] /\ cleanups'[b] = cleanups[b]
        /\ cleanups'[a] = cleanups[a]
    BY <1>0 DEF TypeInv, CallsOK
  <1>6. DoneOK(t)'
    <2>1. "free" \in Labels \ Done /\ pc[t] # "idle" /\ pc[t] \notin {"schedule", "claim"}
      BY <1>0 DEF Labels, Done
    <2>2. Load(call[t]) = 0 => Load(call[t])' = 0
      BY <1>1, <1>3
    <2> QED BY <1>0, <1>1, <2>1, <2>2, GotoDone DEF TypeInv, FramesOK, CleanOK, Done
  <1>7. CallClean(a)
    BY DEF CleanOK
  <1>8. /\ Load(a) = 0 => Load(a)' = 0
        /\ Load(a)' <= 1
        /\ cleanups'[a] = IF cleanup'[a] = "CleanedUp" THEN 1 ELSE 0
        /\ Number(Canceling, a)' = IF cleanup'[a] = "InCancel" THEN 1 ELSE 0
        /\ cleanup'[a] \in {"AfterDoWork", "CleanedUp"} => Load(a)' = 0
        /\ cleanup'[a] = "CleanedUp" => Number(Worked, a)' = 0
    BY <1>3, <1>4, <1>5, <1>7 DEF CallClean
  <1> QED BY <1>0, <1>1, <1>2, <1>5, <1>6, <1>8, MarkKeeps

\* XAsyncCancel keeps others from cleaning up while it is in the provider's Cancel.
LEMMA TryCancelClean ==
  ASSUME TypeInv, TypeInv', CallInv, FramesOK, CleanOK, NEW t \in Threads, TryCancel(t),
         cleanup[call[t]] = "Destructor"
  PROVE  CleanOK'
  <1>0. /\ pc[t] = "try" /\ pc[t] \in Holding /\ Goto(t, "canceling")
        /\ UNCHANGED <<arg, blockStatus, cleanups, owed>> /\ queue'["Work"] = queue["Work"]
        /\ cleanup' = [cleanup EXCEPT ![call[t]] = "InCancel"]
    BY DEF TryCancel, Holding
  <1> PICK a \in Calls : a = call[t]
    BY <1>0, HolderAccepted
  <1>1. Follows(t) /\ call'[t] = call[t] /\ call'[t] = a /\ Alone(t) /\ blockStatus[a] # "none"
    BY <1>0, HolderAccepted, SignalFollows DEF TypeInv, Follows
  <1>2. Tally(t, 0, 1, 0)
    <2>1. Waits(t, 0)
      BY <1>0, WaitsSame DEF TypeInv
    <2>2. /\ Hit("canceling", Driving) = 0 /\ Hit(pc[t], Driving) = 0
          /\ Hit("canceling", Canceling) = 1 /\ Hit(pc[t], Canceling) = 0
          /\ Hit("canceling", Worked) = 0 /\ Hit(pc[t], Worked) = 0 /\ "canceling" \in Labels
      BY <1>0 DEF Hit, Driving, Canceling, Worked, Labels
    <2>3. Tally(t, Hit("canceling", Driving) - Hit(pc[t], Driving) + 0,
                   Hit("canceling", Canceling) - Hit(pc[t], Canceling),
                   Hit("canceling", Worked) - Hit(pc[t], Worked))
      BY <1>0, <1>1, <2>1, <2>2, GotoTally DEF TypeInv
    <2> QED BY <2>2, <2>3
  <1>3. /\ Load(a) \in Nat /\ Load(a)' = Load(a)
        /\ Number(Canceling, a)' = Number(Canceling, a) + 1
    BY <1>1, <1>2 DEF Tally, LoadMoves, Moves
  <1>4. /\ cleanup'[a] = "InCancel" /\ cleanups'[a] = cleanups[a]
        /\ \A b \in Calls \ {a} : cleanup'[b] = cleanup[b] /\ cleanups'[b] = cleanups[b]
    BY <1>0 DEF TypeInv, CallsOK
  <1>5. DoneOK(t)'
    <2>1. "canceling" \in Labels \ Done /\ pc[t] # "idle" /\ pc[t] \notin {"schedule", "claim"}
      BY <1>0 DEF Labels, Done
    <2>2. Load(call[t]) = 0 => Load(call[t])' = 0
      BY <1>1, <1>3
    <2> QED BY <1>0, <1>1, <2>1, <2>2, GotoDone DEF TypeInv, FramesOK, CleanOK, Done
  <1>6. CallClean(a) /\ cleanup[a] = "Destructor"
    BY DEF CleanOK
  <1>7. /\ Load(a) = 0 => Load(a)' = 0
        /\ Load(a)' <= 1
        /\ cleanups'[a] = IF cleanup'[a] = "CleanedUp" THEN 1 ELSE 0
        /\ Number(Canceling, a)' = IF cleanup'[a] = "InCancel" THEN 1 ELSE 0
        /\ cleanup'[a] \in {"AfterDoWork", "CleanedUp"} => Load(a)' = 0
        /\ cleanup'[a] = "CleanedUp" => Number(Worked, a)' = 0
    BY <1>3, <1>4, <1>6 DEF CallClean
  <1> QED BY <1>0, <1>1, <1>2, <1>4, <1>5, <1>7, MarkKeeps

\* Back from the provider's Cancel: only one thread is there at a time.
LEMMA RevertClean ==
  ASSUME TypeInv, TypeInv', CallInv, FramesOK, CleanOK, NEW t \in Threads, RevertCancel(t)
  PROVE  CleanOK'
  <1>0. /\ pc[t] = "revert" /\ pc[t] \in Holding /\ Goto(t, "release")
        /\ UNCHANGED <<arg, blockStatus, cleanups, owed>> /\ queue'["Work"] = queue["Work"]
        /\ cleanup' = [cleanup EXCEPT ![call[t]] = IF @ = "InCancel" THEN "Destructor" ELSE @]
    BY DEF RevertCancel, Holding
  <1> PICK a \in Calls : a = call[t]
    BY <1>0, HolderAccepted
  <1>1. Follows(t) /\ call'[t] = call[t] /\ call'[t] = a /\ Alone(t) /\ blockStatus[a] # "none"
    BY <1>0, HolderAccepted, SignalFollows DEF TypeInv, Follows
  <1>2. Tally(t, 0, -1, 0)
    <2>1. Waits(t, 0)
      BY <1>0, WaitsSame DEF TypeInv
    <2>2. /\ Hit("release", Driving) = 0 /\ Hit(pc[t], Driving) = 0
          /\ Hit("release", Canceling) = 0 /\ Hit(pc[t], Canceling) = 1
          /\ Hit("release", Worked) = 0 /\ Hit(pc[t], Worked) = 0 /\ "release" \in Labels
      BY <1>0 DEF Hit, Driving, Canceling, Worked, Labels
    <2>3. Tally(t, Hit("release", Driving) - Hit(pc[t], Driving) + 0,
                   Hit("release", Canceling) - Hit(pc[t], Canceling),
                   Hit("release", Worked) - Hit(pc[t], Worked))
      BY <1>0, <1>1, <2>1, <2>2, GotoTally DEF TypeInv
    <2>4. 0 - 1 = -1
      OBVIOUS
    <2> QED BY <2>2, <2>3, <2>4
  <1>3. /\ Load(a) \in Nat /\ Load(a)' = Load(a) /\ Number(Canceling, a) \in Nat
        /\ Number(Canceling, a)' = Number(Canceling, a) - 1
    BY <1>1, <1>2 DEF Tally, LoadMoves, Moves
  <1>4. CallClean(a) /\ cleanup[a] = "InCancel" /\ Number(Canceling, a) = 1
    <2>1. Number(Canceling, a) > 0
      BY <1>0, PlacesSplit, PlaceCounts DEF TypeInv, Canceling
    <2> QED BY <1>3, <2>1 DEF CleanOK, CallClean
  <1>5. /\ cleanup'[a] = "Destructor" /\ cleanups'[a] = cleanups[a]
        /\ \A b \in Calls \ {a} : cleanup'[b] = cleanup[b] /\ cleanups'[b] = cleanups[b]
    BY <1>0, <1>4 DEF TypeInv, CallsOK
  <1>6. DoneOK(t)'
    <2>1. "release" \in Labels \ Done /\ pc[t] # "idle" /\ pc[t] \notin {"schedule", "claim"}
      BY <1>0 DEF Labels, Done
    <2>2. Load(call[t]) = 0 => Load(call[t])' = 0
      BY <1>1, <1>3
    <2> QED BY <1>0, <1>1, <2>1, <2>2, GotoDone DEF TypeInv, FramesOK, CleanOK, Done
  <1>7. /\ Load(a) = 0 => Load(a)' = 0
        /\ Load(a)' <= 1
        /\ cleanups'[a] = IF cleanup'[a] = "CleanedUp" THEN 1 ELSE 0
        /\ Number(Canceling, a)' = IF cleanup'[a] = "InCancel" THEN 1 ELSE 0
        /\ cleanup'[a] \in {"AfterDoWork", "CleanedUp"} => Load(a)' = 0
        /\ cleanup'[a] = "CleanedUp" => Number(Worked, a)' = 0
    BY <1>3, <1>4, <1>5 DEF CallClean
  <1> QED BY <1>0, <1>1, <1>2, <1>5, <1>6, <1>7, MarkKeeps

\* No two workers run callbacks of one call at once.
OneCallbackAtATime ==
    \A v, w \in Workers :
        pc[v] # "idle" /\ pc[w] # "idle" /\ call[v] = call[w] => v = w

\* The end of WorkerCallback cleans up what XAsyncComplete left to it.
LEMMA AfterWorkClean ==
  ASSUME TypeInv, TypeInv', CallInv, FramesOK, CleanOK, OneCallbackAtATime,
         NEW t \in Threads, CleanupAfterWork(t), cleanup[call[t]] = "AfterDoWork"
  PROVE  CleanOK'
  <1>0. /\ pc[t] = "after" /\ pc[t] \in Holding /\ Goto(t, "release") /\ Clean(call[t])
        /\ UNCHANGED <<blockStatus, queue>>
    BY DEF CleanupAfterWork, Holding
  <1> PICK a \in Calls : a = call[t]
    BY <1>0, HolderAccepted
  <1>1. Follows(t) /\ call'[t] = call[t] /\ call'[t] = a /\ Alone(t) /\ blockStatus[a] # "none"
    BY <1>0, HolderAccepted, BodyFollows DEF TypeInv, Follows
  <1>2. Load(a) = 0 /\ Number(Canceling, a) = 0 /\ ~owed[a]
    <2>1. CallClean(a) /\ cleanup[a] = "AfterDoWork"
      BY DEF CleanOK
    <2> QED BY <2>1, LoadType DEF CallClean
  <1>3. UNCHANGED owed
    BY <1>0, <1>2 DEF Clean, TypeInv, CallsOK
  <1>4. Tally(t, 0, 0, 0)
    <2>1. Waits(t, 0)
      BY <1>0, <1>3, WaitsSame DEF TypeInv
    <2>2. /\ Hit("release", Driving) = 0 /\ Hit(pc[t], Driving) = 0
          /\ Hit("release", Canceling) = 0 /\ Hit(pc[t], Canceling) = 0
          /\ Hit("release", Worked) = 0 /\ Hit(pc[t], Worked) = 0 /\ "release" \in Labels
      BY <1>0 DEF Hit, Driving, Canceling, Worked, Labels
    <2>3. Tally(t, Hit("release", Driving) - Hit(pc[t], Driving) + 0,
                   Hit("release", Canceling) - Hit(pc[t], Canceling),
                   Hit("release", Worked) - Hit(pc[t], Worked))
      BY <1>0, <1>1, <2>1, <2>2, GotoTally DEF TypeInv
    <2> QED BY <2>2, <2>3
  <1>5. Load(a)' = 0 /\ Number(Canceling, a)' = 0
    BY <1>1, <1>2, <1>4 DEF Tally, LoadMoves, Moves
  <1>6. ASSUME NEW u \in Threads, call'[u] = a
        PROVE  Places(u)' \cap Worked = {}
    <2>1. t \in Workers
      BY <1>0, PlacesSplit DEF FramesOK, FrameOK, WorkerAt, Bodies, Core
    <2>2. CASE u = t
      <3>1. Below(t) \cap Worked = {}
        <4>1. Mine(Bodies, call[t], t) <= 1 /\ Hit(pc[t], Bodies) = 1
          BY <1>0 DEF FramesOK, FrameOK, Hit, Bodies
        <4>2. Weight(Bodies, stack[t]) = 0 /\ stack[t] \in Seq(Labels)
          BY <4>1, MineSplit DEF TypeInv
        <4>3. Items(stack[t]) \cap Bodies = {}
          BY <4>2, WeightNone
        <4> QED BY <4>3 DEF Below, Worked, Bodies, Core
      <3>2. pc'[t] = "release" /\ Below(t)' = Below(t)
        BY <1>0, Placed DEF TypeInv
      <3>3. Places(t)' = {"release"} \cup Below(t)
        BY <3>2 DEF Places, Below, Items
      <3> QED BY <2>2, <3>1, <3>3 DEF Worked
    <2>3. CASE u # t
      <3>1. pc'[u] = pc[u] /\ stack'[u] = stack[u] /\ call'[u] = call[u]
        BY <1>1, <2>3 DEF Alone
      <3>2. Places(u)' = Places(u)
        BY <3>1 DEF Places
      <3>3. ASSUME "worked" \in Places(u)
            PROVE  FALSE
        <4>1. u \in Workers
          <5>1. "worked" \in WorkerAt
            BY DEF WorkerAt, Bodies, Core
          <5>2. Places(u) \cap WorkerAt # {}
            BY <3>3, <5>1
          <5> QED BY <5>2 DEF FramesOK, FrameOK
        <4>2. pc[u] # "idle"
          <5> SUFFICES ASSUME pc[u] = "idle"
                       PROVE  FALSE
            OBVIOUS
          <5>1. stack[u] = <<>>
            BY DEF TypeInv, ControlOK, WellNested, Bottom
          <5>2. Places(u) = {"idle"}
            BY <5>1 DEF Places
          <5> QED BY <3>3, <5>2
        <4>3. pc[t] # "idle" /\ call[u] = call[t]
          BY <1>0, <1>6, <3>1
        <4> QED BY <2>1, <2>3, <4>1, <4>2, <4>3 DEF OneCallbackAtATime
      <3> QED BY <3>2, <3>3 DEF Worked
    <2> QED BY <2>2, <2>3
  <1>7. Number(Worked, a)' = 0
    BY <1>6, NumberNoneNext DEF NoneIn, TypeInv
  <1>8. Clean(a) /\ cleanup[a] # "CleanedUp"
    BY <1>0
  <1> QED BY <1>0, <1>1, <1>4, <1>5, <1>7, <1>8, CleanKeeps

-----------------------------------------------------------------------------
(* Every step keeps CleanOK.                                                *)

LEMMA StillClean ==
  ASSUME CleanOK, UNCHANGED <<blockStatus, queue, cleanup, cleanups, owed, pc, stack, call, arg>>
  PROVE  CleanOK'
  <1>1. \A a \in Calls : /\ Load(a)' = Load(a) /\ Number(Canceling, a)' = Number(Canceling, a)
                         /\ Number(Worked, a)' = Number(Worked, a)
    BY DEF Load, Queued, Owing, Number, Frames, Block, FramesOf
  <1>2. \A t \in Threads : Places(t)' = Places(t) /\ Below(t)' = Below(t)
    BY DEF Places, Below
  <1>3. ASSUME NEW a \in Calls
        PROVE  CallClean(a)'
    BY <1>1 DEF CleanOK, CallClean
  <1>4. ASSUME NEW t \in Threads
        PROVE  DoneOK(t)'
    <2>1. Load(call[t])' = Load(call[t])
      BY DEF Load, Queued, Owing, Number, Frames, Block, FramesOf
    <2> QED BY <1>2, <2>1 DEF CleanOK, DoneOK
  <1> QED BY <1>3, <1>4 DEF CleanOK

LEMMA CleanStep ==
  ASSUME TypeInv, CallInv, FramesOK, CleanOK, OneCallbackAtATime,
         TypeInv', CallInv', FramesOK', [Next]_vars
  PROVE  CleanOK'
  <1>1. CASE UNCHANGED vars
    BY <1>1, StillClean DEF vars
  <1>2. ASSUME NEW t \in Threads, Proceed(t)
        PROVE  CleanOK'
    <2>1. CASE Release(t) \/ CleanupState(t)
      BY <2>1, DropClean
    <2>2. CASE ScheduleCall(t) \/ ClaimSchedule(t) \/ SubmitWork(t)
      BY <2>2, ScheduleClean
    <2>3. CASE \/ SignalCompletion(t) \/ SignalWait(t) \/ ResumeQueue(t) \/ CollectQueue(t)
               \/ GetResult(t) \/ ExtractResult(t) \/ Cancel(t)
      BY <2>3, SignalClean
    <2>4. CASE TryCancel(t)
      BY <2>4, SignalClean, TryCancelClean
    <2> QED BY <1>2, <2>1, <2>2, <2>3, <2>4, CompleteClean, SettleClean, ProviderCancelClean,
               RevertClean DEF Proceed
  <1>3. ASSUME NEW a \in Calls, Begin(a) \/ ClientStep(a)
        PROVE  CleanOK'
    <2>1. a \in Threads /\ call[a] = a
      BY DEF Threads, TypeInv, ControlOK
    <2>2. CASE Begin(a) \/ GetStatus(a) \/ FetchResult(a)
      BY <2>1, <2>2, EntriesClean
    <2>3. CASE VerifySuspend(a)
      BY <2>1, <2>3, EntriesClean, AcceptedClean
    <2>4. CASE ProviderBegin(a)
      <3>1. Follows(a)
        BY <2>1, <2>4, BodyFollows DEF TypeInv
      <3> QED BY <2>1, <2>4, <3>1, ProviderClean DEF ProviderBegin
    <2>5. CASE EndBegin(a)
      BY <2>1, <2>5, BodyClean
    <2>6. CASE WaitReturns(a)
      BY <2>1, <2>6, SignalClean
    <2> QED BY <1>3, <2>2, <2>3, <2>4, <2>5, <2>6 DEF ClientStep
  <1>4. ASSUME NEW w \in Workers, WorkerStep(w)
        PROVE  CleanOK'
    <2>1. w \in Threads
      BY DEF Threads
    <2>2. CASE RunWork(w)
      BY <2>1, <2>2, RunWorkClean
    <2>3. CASE StartWork(w) \/ Abort(w) \/ EndWork(w)
      BY <2>1, <2>3, BodyClean
    <2>4. CASE ProviderDoWork(w)
      <3>1. Follows(w)
        BY <2>1, <2>4, BodyFollows DEF TypeInv
      <3> QED BY <2>1, <2>4, <3>1, ProviderClean DEF ProviderDoWork
    <2>5. CASE CleanupAfterWork(w)
      BY <2>1, <2>5, BodyClean, AfterWorkClean
    <2> QED BY <1>4, <2>2, <2>3, <2>4, <2>5 DEF WorkerStep
  <1>5. ASSUME NEW d \in Notifiers, NotifierStep(d)
        PROVE  CleanOK'
    <2>1. d \in Threads
      BY DEF Threads
    <2> QED BY <1>5, <2>1, EntriesClean, BodyClean DEF NotifierStep
  <1>6. ASSUME NEW x \in Cancelers, NEW a \in Calls, StartCancel(x, a)
        PROVE  CleanOK'
    <2>1. x \in Threads
      BY DEF Threads
    <2> QED BY <1>6, <2>1, EntriesClean
  <1>7. ASSUME NEW o \in Outsiders, NEW a \in Calls, OutsiderCompletes(o, a)
        PROVE  CleanOK'
    <2>1. o \in Threads
      BY DEF Threads
    <2> QED BY <1>7, <2>1, OutsiderClean
  <1>8. ASSUME NEW k \in Terminations, StartTerminate(k) \/ QueueStep(k)
        PROVE  CleanOK'
    <2>1. UNCHANGED queue
      BY <1>8, StagedStep DEF StartTerminate, QueueStep, TypeInv
    <2>2. UNCHANGED <<blockStatus, cleanup, cleanups, owed, pc, stack, call, arg>>
      BY <1>8 DEF StartTerminate, QueueStep
    <2> QED BY <2>1, <2>2, StillClean
  <1> QED BY <1>1, <1>2, <1>3, <1>4, <1>5, <1>6, <1>7, <1>8 DEF Next

LEMMA CleanInit ==
  ASSUME Init
  PROVE  CleanOK
  <1>1. \A S, a : "idle" \notin S => Number(S, a) = 0
    BY InitCounts
  <1>2. ASSUME NEW a \in Calls
        PROVE  CallClean(a)
    <2>1. Number(Driving, a) = 0 /\ Number(Canceling, a) = 0 /\ Number(Worked, a) = 0
      BY <1>1 DEF Driving, Canceling, Worked
    <2>2. Queued(a, "Work") = 0
      <3>1. Spots(a, queue["Work"]) = {}
        BY DEF Init, QueueInit, Ports, Spots
      <3> QED BY <3>1, FS_EmptySet DEF Queued
    <2>3. Owing(a) = 0
      BY DEF Owing, Init
    <2>4. blockStatus[a] = "none" /\ cleanup[a] = "Destructor" /\ cleanups[a] = 0
      BY DEF Init
    <2>5. Load(a) = 0
      BY <2>1, <2>2, <2>3 DEF Load
    <2> QED BY <2>1, <2>4, <2>5 DEF CallClean
  <1>3. \A t \in Threads : DoneOK(t)
    BY DEF Init, DoneOK
  <1> QED BY <1>2, <1>3 DEF CleanOK

\* A thread in the provider's DoWork or Cancel is counted, and then cleanup is not marked
\* CleanedUp.
LEMMA CleanImplies ==
  ASSUME TypeInv, CleanOK
  PROVE  CleanupWaitsForWork
  <1> SUFFICES ASSUME NEW a \in Calls, cleanups[a] > 0
               PROVE  cleanups[a] = 1 /\ InProvider(a) = {}
    BY DEF CleanupWaitsForWork
  <1>1. CallClean(a) /\ cleanup[a] = "CleanedUp" /\ cleanups[a] = 1
    BY DEF CleanOK, CallClean
  <1>2. Load(a) = 0 /\ Number(Canceling, a) = 0 /\ Number(Worked, a) = 0
    BY <1>1 DEF CallClean
  <1>3. Number(Driving, a) = 0
    BY <1>2, LoadType
  <1>4. ASSUME NEW t \in Threads, call[t] = a
        PROVE  Places(t) \cap {"working", "worked", "canceling"} = {}
    <2>1. "working" \notin Places(t)
      <3>1. "working" \in Driving
        BY DEF Driving
      <3>2. SUFFICES ASSUME "working" \in Places(t)
                     PROVE  FALSE
        OBVIOUS
      <3>3. Number(Driving, a) > 0
        BY <1>4, <3>1, <3>2, PlaceCounts DEF TypeInv
      <3> QED BY <1>3, <3>3
    <2>2. "worked" \notin Places(t)
      BY <1>2, <1>4, PlaceCounts DEF TypeInv, Worked
    <2>3. "canceling" \notin Places(t)
      BY <1>2, <1>4, PlaceCounts DEF TypeInv, Canceling
    <2> QED BY <2>1, <2>2, <2>3
  <1> QED BY <1>1, <1>4 DEF InProvider

\* A provider is told to clean up at most once, and not while its DoWork or its Cancel
\* runs or before they start (XAsync.cpp, ProviderCleanupLocation), for any number of
\* calls and threads, as long as no two workers run callbacks of one call at once.
THEOREM CleanupWaits == Spec /\ []OneCallbackAtATime => []CleanupWaitsForWork
  <1>1. Init => CleanOK
    BY CleanInit
  <1>2. /\ TypeInv /\ CallInv /\ FramesOK /\ CleanOK /\ OneCallbackAtATime
        /\ TypeInv' /\ CallInv' /\ FramesOK' /\ [Next]_vars
        => CleanOK'
    BY CleanStep
  <1>3. TypeInv /\ CleanOK => CleanupWaitsForWork
    BY CleanImplies
  <1> QED BY <1>1, <1>2, <1>3, CallsInvariant, FramesInvariant, PTL DEF Spec

\* With one thread for the work port (a serialized queue, or one that its owner
\* dispatches), the condition holds by itself.
THEOREM CleanupWaitsForOneWorker ==
  ASSUME \A v, w \in Workers : v = w
  PROVE  Spec => []CleanupWaitsForWork
  <1>1. OneCallbackAtATime
    BY DEF OneCallbackAtATime
  <1> QED BY <1>1, CleanupWaits, PTL

=============================================================================
