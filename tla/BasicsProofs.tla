---------------------------- MODULE BasicsProofs ----------------------------
(***************************************************************************)
(* What the queues and the routes that everything else is built on         *)
(* guarantee.                                                              *)
(*                                                                         *)
(* DelayQueue, for every number of servers: the backlog counter and the    *)
(* order of service are right whatever the callback does; the two          *)
(* assertions of the code hold when a callback pushes at most one item or  *)
(* there is one server.                                                    *)
(*                                                                         *)
(* Routes: for every set of connections and all costs, the order and the   *)
(* number of times entries are added do not matter, each connection keeps  *)
(* its least cost, and Equals is equality although it looks for the        *)
(* entries of one side only.                                               *)
(***************************************************************************)
EXTENDS DelayQueue, Routes, SequenceTheorems, FiniteSetTheorems, TLAPS

-----------------------------------------------------------------------------
(* The delay queue *)

\* Serving one more or one less item changes the number of busy servers by one.
LEMMA BusyFinite ==
  ASSUME TypeOK
  PROVE  /\ IsFiniteSet(Server) /\ Cardinality(Server) = Servers
         /\ IsFiniteSet(Busy)   /\ Cardinality(Busy) \in Nat
         /\ IsFiniteSet(Free)   /\ Cardinality(Free) = Servers - Cardinality(Busy)
<1>1. IsFiniteSet(Server) /\ Cardinality(Server) = Servers
  BY FS_Interval, ServersAssumption DEF Server
<1>2. Busy \subseteq Server
  BY DEF Busy
<1>3. IsFiniteSet(Busy) /\ Cardinality(Busy) \in Nat
  BY <1>1, <1>2, FS_Subset, FS_CardinalityType
<1>4. Cardinality(Server \ Busy) = Cardinality(Server) - Cardinality(Server \cap Busy)
  BY <1>1, FS_Difference
<1>5. Server \cap Busy = Busy
  BY <1>2
<1>6. QED
  BY <1>1, <1>3, <1>4, <1>5, FS_Subset DEF Free

LEMMA StartService ==
  ASSUME TypeOK, NEW s \in Server, NEW item,
         item # NoItem, serving[s] = NoItem,
         serving' = [serving EXCEPT ![s] = item]
  PROVE  Busy' = Busy \cup {s} /\ Cardinality(Busy') = Cardinality(Busy) + 1
<1>1. Busy' = Busy \cup {s}
  BY DEF Busy, TypeOK
<1>2. s \notin Busy
  BY DEF Busy
<1>3. QED
  BY <1>1, <1>2, BusyFinite, FS_AddElement

LEMMA EndService ==
  ASSUME TypeOK, NEW s \in Server, serving[s] # NoItem,
         serving' = [serving EXCEPT ![s] = NoItem]
  PROVE  Busy' = Busy \ {s} /\ Cardinality(Busy') = Cardinality(Busy) - 1
<1>1. Busy' = Busy \ {s}
  BY DEF Busy, TypeOK
<1>2. s \in Busy
  BY DEF Busy
<1>3. QED
  BY <1>1, <1>2, BusyFinite, FS_RemoveElement

-----------------------------------------------------------------------------
\* Loading server s from queue q keeps the types, and keeps the number of items
\* queued or in service unless it overlaps a running timer.
LEMMA BeginServiceEffect ==
  ASSUME TypeOK, NEW s \in Server, NEW n \in Nat, NEW q \in Seq(1..n),
         pushed <= n, BeginService(s, q), aborted = FALSE
  PROVE  /\ inputQueue' \in Seq(1..n)
         /\ serving' \in [Server -> 0..n]
         /\ aborted' \in BOOLEAN
         /\ ~aborted' =>
              Len(inputQueue') + Cardinality(Busy') = Len(q) + Cardinality(Busy)
<1>1. CASE q = <<>>
  BY <1>1, BusyFinite DEF BeginService, TypeOK, Server, Busy
<1>2. CASE q # <<>>
  <2>1. Head(q) \in 1..n /\ Tail(q) \in Seq(1..n) /\ Len(Tail(q)) = Len(q) - 1
    BY <1>2
  <2>2. inputQueue' = Tail(q) /\ serving' = [serving EXCEPT ![s] = Head(q)]
        /\ aborted' = (serving[s] # NoItem)
    BY <1>2 DEF BeginService
  <2>3. serving' \in [Server -> 0..n]
    BY <2>1, <2>2 DEF TypeOK
  <2>4. ASSUME ~aborted'
        PROVE  Cardinality(Busy') = Cardinality(Busy) + 1
    <3>1. Head(q) # NoItem
      BY <2>1 DEF NoItem
    <3>2. serving[s] = NoItem
      BY <2>2, <2>4, Zenon
    <3>3. QED
      BY <2>2, <3>1, <3>2, StartService
  <2>5. Len(q) \in Nat
    OBVIOUS
  <2>6. QED
    BY <2>1, <2>2, <2>3, <2>4, <2>5, BusyFinite
<1>3. QED
  BY <1>1, <1>2
-----------------------------------------------------------------------------
\* The two invariants that hold whatever the callback does.
Counted == TypeOK /\ BacklogExact

LEMMA InitCounted == Init => Counted
<1> SUFFICES ASSUME Init PROVE Counted
  OBVIOUS
<1>1. TypeOK
  <2> USE ServersAssumption DEF Init, TypeOK, NoItem, NoServer
  <2>1. inputQueue \in Seq(1..pushed)
    OBVIOUS
  <2>2. serving \in [Server -> 0..pushed]
    OBVIOUS
  <2>3. backlogCount \in Nat /\ expired \in 0..Servers /\ reentered \in Nat /\ pushed \in Nat
    OBVIOUS
  <2>4. delivered \in SUBSET (1..pushed)
    OBVIOUS
  <2>5. aborted \in BOOLEAN
    OBVIOUS
  <2>6. QED
    BY <2>1, <2>2, <2>3, <2>4, <2>5
<1>2. Busy = {}
  BY DEF Init, Busy, Server
<1>3. Cardinality(Busy) = 0
  BY <1>2, FS_EmptySet
<1>4. QED
  BY <1>1, <1>3 DEF Init, Counted, BacklogExact, NoServer

LEMMA PushBackCounted ==
  ASSUME Counted, PushBack
  PROVE  Counted'
<1> DEFINE q == Append(inputQueue, pushed + 1)
<1>1. /\ aborted = FALSE /\ pushed' = pushed + 1
      /\ backlogCount' = backlogCount + 1
      /\ reentered' \in Nat
      /\ expired' = expired /\ delivered' = delivered
  BY DEF PushBack, Counted, TypeOK
<1>2. TypeOK /\ pushed \in Nat /\ pushed + 1 \in Nat /\ Len(inputQueue) \in Nat
  BY DEF Counted, TypeOK
<1>3. q \in Seq(1..(pushed + 1)) /\ Len(q) = Len(inputQueue) + 1
  <2>1. inputQueue \in Seq(1..(pushed + 1))
    BY <1>2 DEF TypeOK
  <2>2. QED
    BY <1>2, <2>1
<1>4. \/ inputQueue' = q /\ serving' = serving /\ aborted' \in BOOLEAN
      \/ \E s \in Free : BeginService(s, q)
  BY <1>1 DEF PushBack
<1>5. /\ inputQueue' \in Seq(1..(pushed + 1))
      /\ serving' \in [Server -> 0..(pushed + 1)]
      /\ aborted' \in BOOLEAN
      /\ ~aborted' =>
           Len(inputQueue') + Cardinality(Busy') = Len(q) + Cardinality(Busy)
  <2>1. CASE inputQueue' = q /\ serving' = serving /\ aborted' \in BOOLEAN
    BY <1>2, <1>3, <2>1 DEF TypeOK, Busy
  <2>2. CASE \E s \in Free : BeginService(s, q)
    <3>1. PICK s \in Server : BeginService(s, q)
      BY <2>2 DEF Free
    <3> HIDE DEF q
    <3>2. PICK r, n : r = q /\ n = pushed + 1
      OBVIOUS
    <3>3. BeginService(s, r)
      BY <3>1, <3>2 DEF BeginService
    <3>4. n \in Nat /\ r \in Seq(1..n) /\ pushed <= n
      BY <1>2, <1>3, <3>2
    <3>5. QED
      BY <1>1, <1>2, <3>2, <3>3, <3>4, BeginServiceEffect
  <2>3. QED
    BY <1>4, <2>1, <2>2
<1>6. TypeOK'
  <2>1. delivered \subseteq 1..(pushed + 1)
    BY <1>2 DEF TypeOK
  <2>2. inputQueue' \in Seq(1..pushed') /\ serving' \in [Server -> 0..pushed']
    BY <1>1, <1>5
  <2>3. backlogCount' \in Nat /\ expired' \in 0..Servers /\ reentered' \in Nat
        /\ pushed' \in Nat
    BY <1>1, <1>2 DEF TypeOK
  <2>4. delivered' \in SUBSET (1..pushed')
    BY <1>1, <2>1
  <2>5. aborted' \in BOOLEAN
    BY <1>5, Zenon
  <2>6. QED
    BY <2>2, <2>3, <2>4, <2>5 DEF TypeOK
<1>7. BacklogExact'
  <2> HIDE DEF q
  <2>1. backlogCount = Len(inputQueue) + Cardinality(Busy)
                         + (IF expired = NoServer THEN 0 ELSE 1)
    BY <1>1 DEF Counted, BacklogExact
  <2>2. QED
    BY <1>1, <1>2, <1>3, <1>5, <2>1, BusyFinite DEF BacklogExact
<1>8. QED
  BY <1>6, <1>7 DEF Counted

LEMMA TimerExpiredCounted ==
  ASSUME Counted, NEW s \in Server, TimerExpired(s)
  PROVE  Counted'
<1>1. TypeOK /\ serving[s] # NoItem /\ s # NoServer
  BY ServersAssumption DEF Counted, TimerExpired, Server, NoServer
<1>2. TypeOK'
  <2>1. serving[s] \in 1..pushed /\ pushed \in Nat
    BY <1>1 DEF TypeOK, NoItem
  <2>2. delivered' \in SUBSET (1..pushed')
    BY <1>1, <2>1 DEF TimerExpired, TypeOK
  <2>7. serving' \in [Server -> 0..pushed']
    BY <1>1, <2>1 DEF TimerExpired, TypeOK, NoItem
  <2>3. inputQueue' \in Seq(1..pushed') /\ backlogCount' \in Nat /\ pushed' \in Nat
    BY <1>1 DEF TimerExpired, TypeOK
  <2>4. expired' \in 0..Servers /\ reentered' \in Nat
    BY ServersAssumption DEF TimerExpired, Server
  <2>5. aborted' \in BOOLEAN
    BY <1>1, Zenon DEF TimerExpired, TypeOK
  <2>6. QED
    BY <2>2, <2>3, <2>4, <2>5, <2>7 DEF TypeOK
<1>3. Cardinality(Busy') = Cardinality(Busy) - 1
  BY <1>1, EndService DEF TimerExpired
<1>4. backlogCount = Len(inputQueue) + Cardinality(Busy)
  BY <1>1, BusyFinite DEF Counted, BacklogExact, TimerExpired, TypeOK
<1>5. backlogCount' = Len(inputQueue') + Cardinality(Busy') + 1
  BY <1>1, <1>3, <1>4, BusyFinite DEF TimerExpired, TypeOK
<1>6. expired' # NoServer
  BY <1>1 DEF TimerExpired
<1>7. QED
  BY <1>2, <1>5, <1>6 DEF Counted, BacklogExact

LEMMA CallbackReturnsCounted ==
  ASSUME Counted, CallbackReturns
  PROVE  Counted'
<1>1. /\ TypeOK /\ aborted = FALSE /\ expired \in Server /\ pushed \in Nat
      /\ inputQueue \in Seq(1..pushed) /\ BeginService(expired, inputQueue)
      /\ pushed' = pushed /\ delivered' = delivered
      /\ expired' = NoServer /\ backlogCount' = backlogCount - 1 /\ reentered' = 0
  BY DEF Counted, TypeOK, CallbackReturns, Server, NoServer
<1>2. /\ inputQueue' \in Seq(1..pushed)
      /\ serving' \in [Server -> 0..pushed]
      /\ aborted' \in BOOLEAN
      /\ ~aborted' =>
           Len(inputQueue') + Cardinality(Busy') = Len(inputQueue) + Cardinality(Busy)
  <2>1. PICK s, q, n : s \in Server /\ s = expired /\ q = inputQueue /\ n = pushed
    BY <1>1
  <2>2. BeginService(s, q)
    BY <1>1, <2>1 DEF BeginService
  <2>3. n \in Nat /\ q \in Seq(1..n) /\ pushed <= n
    BY <1>1, <2>1
  <2>4. QED
    BY <1>1, <2>1, <2>2, <2>3, BeginServiceEffect
<1>3. backlogCount = Len(inputQueue) + Cardinality(Busy) + 1
  BY DEF Counted, BacklogExact, CallbackReturns
<1>4. TypeOK'
  BY <1>1, <1>2, <1>3, BusyFinite, ServersAssumption DEF TypeOK, NoServer
<1>5. BacklogExact'
  BY <1>1, <1>2, <1>3, BusyFinite DEF BacklogExact
<1>6. QED
  BY <1>4, <1>5 DEF Counted

LEMMA NextCounted == Counted /\ [Next]_vars => Counted'
<1> SUFFICES ASSUME Counted, [Next]_vars PROVE Counted'
  OBVIOUS
<1>1. CASE PushBack
  BY <1>1, PushBackCounted
<1>2. CASE \E s \in Server : TimerExpired(s)
  BY <1>2, TimerExpiredCounted
<1>3. CASE CallbackReturns
  BY <1>3, CallbackReturnsCounted
<1>4. CASE UNCHANGED vars
  BY <1>4 DEF vars, Counted, TypeOK, BacklogExact, Busy
<1>5. QED
  BY <1>1, <1>2, <1>3, <1>4 DEF Next

\* Every variable keeps its type: in particular m_backlogCount never underflows.
THEOREM TypeCorrect == Spec => []TypeOK
<1>1. Counted => TypeOK
  BY DEF Counted
<1>2. QED
  BY <1>1, InitCounted, NextCounted, PTL DEF Spec

\* size () is exact in every state, for every number of servers and whatever
\* the dequeue callback pushes.
THEOREM BacklogCorrect == Spec => []BacklogExact
<1>1. Counted => BacklogExact
  BY DEF Counted
<1>2. QED
  BY <1>1, InitCounted, NextCounted, PTL DEF Spec
-----------------------------------------------------------------------------
(* The assertions.  While a callback that pushed nothing yet runs, its own *)
(* server is free; after one push it may be busy, but then nothing waits.  *)
ReloadSafe ==
  /\ aborted = FALSE
  /\ expired # NoServer /\ (inputQueue # <<>> \/ reentered = 0 \/ Servers = 1)
       => serving[expired] = NoItem

Conserving == inputQueue # <<>> => Free \subseteq {expired}

Safe == Counted /\ Conserving /\ ReloadSafe

\* The callback pushes at most one item, or there is a single server.
FewReentrant == MaxReentrant <= 1 \/ Servers = 1

LEMMA InitSafe == Init => Safe
<1> SUFFICES ASSUME Init PROVE Safe
  OBVIOUS
<1>1. Counted
  BY InitCounted
<1>2. inputQueue = <<>> /\ expired = NoServer /\ aborted = FALSE
  BY DEF Init
<1>3. QED
  BY <1>1, <1>2 DEF Safe, Conserving, ReloadSafe

\* No free server, and at most the expired one free, in terms of the count.
LEMMA FreeCount ==
  ASSUME TypeOK
  PROVE  /\ Free = {} <=> Cardinality(Busy) = Servers
         /\ \A e : Free \subseteq {e} => Cardinality(Busy) >= Servers - 1
         /\ \A e \in Free : Cardinality(Busy) >= Servers - 1 => Free = {e}
<1>1. IsFiniteSet(Free) /\ Cardinality(Free) = Servers - Cardinality(Busy)
      /\ Cardinality(Busy) \in Nat /\ Servers \in Nat
  BY BusyFinite, ServersAssumption
<1>2. Free = {} <=> Cardinality(Free) = 0
  BY <1>1, FS_EmptySet
<1>3. ASSUME NEW e, Free \subseteq {e}
      PROVE  Cardinality(Free) <= 1
  <2>1. Free = {} \/ Free = {e}
    BY <1>3
  <2>2. Cardinality({}) = 0 /\ Cardinality({e}) = 1
    BY FS_EmptySet, FS_Singleton
  <2>3. QED
    BY <2>1, <2>2
<1>4. ASSUME NEW e \in Free, Cardinality(Free) <= 1
      PROVE  Free = {e}
  <2>1. Cardinality(Free \ {e}) = Cardinality(Free) - 1 /\ IsFiniteSet(Free \ {e})
    BY <1>1, FS_RemoveElement
  <2>2. Cardinality(Free \ {e}) \in Nat
    BY <2>1, FS_CardinalityType
  <2>3. Free \ {e} = {}
    BY <1>1, <1>4, <2>1, <2>2, FS_EmptySet
  <2>4. QED
    BY <2>3
<1>5. QED
  BY <1>1, <1>2, <1>3, <1>4

LEMMA PushBackSafe ==
  ASSUME FewReentrant, Safe, PushBack
  PROVE  Safe'
<1> DEFINE q == Append(inputQueue, pushed + 1)
<1>1. Counted'
  BY PushBackCounted DEF Safe
<1>2. /\ TypeOK /\ aborted = FALSE /\ expired \in 0..Servers /\ expired' = expired
      /\ inputQueue \in Seq(1..pushed) /\ Len(inputQueue) \in Nat
      /\ pushed \in Nat /\ Servers \in Nat /\ Servers > 0
      /\ Cardinality(Busy) \in Nat
  <2>1. TypeOK /\ aborted = FALSE /\ expired' = expired
    BY DEF Safe, Counted, ReloadSafe, PushBack
  <2>2. QED
    BY <2>1, BusyFinite, ServersAssumption DEF TypeOK
<1>3. backlogCount = Len(inputQueue) + Cardinality(Busy)
                       + (IF expired = NoServer THEN 0 ELSE 1)
  BY <1>2 DEF Safe, Counted, BacklogExact
<1>4. Free \subseteq Server /\ Busy = Server \ Free /\ NoServer \notin Server
  BY DEF Free, Busy, Server, NoServer
<1>5. CASE HasFreeServer
  \* Fewer than Servers items: nothing waits and a server is free.
  <2>1. Len(inputQueue) + Cardinality(Busy)
          + (IF expired = NoServer THEN 0 ELSE 1) + 1 <= Servers
    BY <1>3, <1>5 DEF HasFreeServer
  <2>2. inputQueue = <<>>
    <3> SUFFICES ASSUME inputQueue # <<>> PROVE FALSE
      OBVIOUS
    <3>1. Free \subseteq {expired} /\ Len(inputQueue) > 0
      BY <1>2 DEF Safe, Conserving
    <3>2. CASE expired = NoServer
      <4>1. Free = {}
        BY <3>1, <3>2, <1>4
      <4>2. Cardinality(Busy) = Servers
        BY <4>1, <1>2, FreeCount
      <4>3. QED
        BY <4>2, <2>1, <3>1, <3>2, <1>2
    <3>3. CASE expired # NoServer
      <4>1. Cardinality(Busy) >= Servers - 1
        BY <3>1, <1>2, FreeCount
      <4>2. Len(inputQueue) + Cardinality(Busy) + 1 + 1 <= Servers
        BY <2>1, <3>3
      <4>3. QED
        BY <4>1, <4>2, <3>1, <1>2
    <3>4. QED
      BY <3>2, <3>3
  <2>3. Free # {}
    BY <2>1, <1>2, FreeCount
  <2>4. PICK s \in Free : BeginService(s, q)
    BY <2>3, <1>5 DEF PushBack
  <2>5. q = <<pushed + 1>> /\ q # <<>> /\ Tail(q) = <<>>
    BY <2>2
  <2>6. inputQueue' = <<>> /\ aborted' = (serving[s] # NoItem)
    BY <2>4, <2>5 DEF BeginService
  <2>7. serving[s] = NoItem
    BY <2>4 DEF Free, Busy
  <2>8. aborted' = FALSE
    BY <2>6, <2>7, Zenon
  <2>9. ASSUME expired' # NoServer PROVE reentered' # 0 /\ Servers # 1
    BY <2>1, <2>9, <1>2 DEF PushBack, Safe, Counted, TypeOK
  <2>10. QED
    BY <1>1, <2>6, <2>8, <2>9 DEF Safe, Conserving, ReloadSafe
<1>6. CASE ~HasFreeServer
  <2>1. inputQueue' = q /\ serving' = serving /\ aborted' = aborted
    BY <1>6 DEF PushBack
  <2>2. Len(inputQueue) + Cardinality(Busy)
          + (IF expired = NoServer THEN 0 ELSE 1) + 1 > Servers
    BY <1>2, <1>3, <1>6 DEF HasFreeServer
  <2>3. expired # NoServer => reentered = 0 \/ Servers = 1
    BY BoundsAssumption DEF FewReentrant, PushBack, Safe, Counted, TypeOK
  <2>4. expired # NoServer => serving[expired] = NoItem /\ expired \in Free
    BY <2>3, <1>2 DEF Safe, ReloadSafe, Free, Busy, Server, NoServer
  <2>5. Free \subseteq {expired}
    <3>1. CASE inputQueue # <<>>
      BY <3>1 DEF Safe, Conserving
    <3>2. CASE inputQueue = <<>> /\ expired = NoServer
      <4>1. Cardinality(Busy) >= Servers
        BY <2>2, <3>2, <1>2
      <4>2. Cardinality(Busy) <= Servers
        BY <1>2, BusyFinite, FS_CardinalityType
      <4>3. QED
        BY <4>1, <4>2, <1>2, FreeCount
    <3>3. CASE inputQueue = <<>> /\ expired # NoServer
      BY <2>2, <2>4, <3>3, <1>2, FreeCount
    <3>4. QED
      BY <3>1, <3>2, <3>3
  <2>6. Free' = Free
    BY <2>1 DEF Free, Busy
  <2>7. QED
    BY <1>1, <1>2, <2>1, <2>4, <2>5, <2>6 DEF Safe, Conserving, ReloadSafe
<1>7. QED
  BY <1>5, <1>6

LEMMA TimerExpiredSafe ==
  ASSUME Safe, NEW s \in Server, TimerExpired(s)
  PROVE  Safe'
<1>1. Counted'
  BY TimerExpiredCounted DEF Safe
<1>2. /\ TypeOK /\ aborted = FALSE /\ expired = NoServer /\ expired' = s
      /\ inputQueue' = inputQueue /\ aborted' = aborted
      /\ serving' = [serving EXCEPT ![s] = NoItem]
  BY DEF Safe, Counted, ReloadSafe, TimerExpired
<1>3. serving'[s] = NoItem
  BY <1>2 DEF TypeOK
<1>4. Free' = Free \cup {s}
  BY <1>2 DEF TypeOK, Free, Busy
<1>5. inputQueue # <<>> => Free = {}
  BY <1>2 DEF Safe, Conserving, Free, Server, NoServer
<1>6. QED
  BY <1>1, <1>2, <1>3, <1>4, <1>5 DEF Safe, Conserving, ReloadSafe

LEMMA CallbackReturnsSafe ==
  ASSUME Safe, CallbackReturns
  PROVE  Safe'
<1>1. Counted'
  BY CallbackReturnsCounted DEF Safe
<1>2. /\ TypeOK /\ aborted = FALSE /\ expired \in Server /\ expired' = NoServer
      /\ pushed \in Nat /\ inputQueue \in Seq(1..pushed)
      /\ BeginService(expired, inputQueue)
  BY DEF Safe, Counted, TypeOK, ReloadSafe, CallbackReturns, Server, NoServer
<1>3. CASE inputQueue = <<>>
  BY <1>1, <1>2, <1>3 DEF BeginService, Safe, Conserving, ReloadSafe
<1>4. CASE inputQueue # <<>>
  <2>1. serving[expired] = NoItem /\ Free \subseteq {expired}
    BY <1>2, <1>4 DEF Safe, ReloadSafe, Conserving, CallbackReturns
  <2>2. /\ aborted' = (serving[expired] # NoItem)
        /\ serving' = [serving EXCEPT ![expired] = Head(inputQueue)]
    BY <1>2, <1>4 DEF BeginService
  <2>3. aborted' = FALSE
    BY <2>1, <2>2
  <2>4. Head(inputQueue) # NoItem
    BY <1>2, <1>4 DEF NoItem
  <2>5. Free' = {}
    BY <1>2, <2>1, <2>2, <2>4 DEF Free, Busy, TypeOK
  <2>6. QED
    BY <1>1, <1>2, <2>3, <2>5 DEF Safe, Conserving, ReloadSafe
<1>5. QED
  BY <1>3, <1>4

LEMMA NextSafe ==
  ASSUME FewReentrant
  PROVE  Safe /\ [Next]_vars => Safe'
<1> SUFFICES ASSUME Safe, [Next]_vars PROVE Safe'
  OBVIOUS
<1>1. CASE PushBack
  BY <1>1, PushBackSafe
<1>2. CASE \E s \in Server : TimerExpired(s)
  BY <1>2, TimerExpiredSafe
<1>3. CASE CallbackReturns
  BY <1>3, CallbackReturnsSafe
<1>4. CASE UNCHANGED vars
  BY <1>4 DEF vars, Safe, Conserving, ReloadSafe, Counted, TypeOK, BacklogExact,
              Free, Busy
<1>5. QED
  BY <1>1, <1>2, <1>3, <1>4 DEF Next

\* With at most one re-entrant push per callback, or with one server, push_back
\* always finds the free server it asserts and no running timer is rescheduled.
THEOREM ServiceNeverOverlaps ==
  ASSUME FewReentrant
  PROVE  Spec => []NoOverlappingService
<1>1. Safe => NoOverlappingService
  BY DEF Safe, ReloadSafe, NoOverlappingService
<1>2. QED
  BY <1>1, InitSafe, NextSafe, PTL DEF Spec

\* Under the same condition no server idles while an item waits.
THEOREM ServersNeverIdle ==
  ASSUME FewReentrant
  PROVE  Spec => []WorkConserving
<1>1. Safe => WorkConserving
  BY DEF Safe, Conserving, WorkConserving
<1>2. QED
  BY <1>1, InitSafe, NextSafe, PTL DEF Spec
-----------------------------------------------------------------------------
(* The order of service *)

\* Loading a server from a queue that is in order leaves one that is.
LEMMA BeginServiceOrder ==
  ASSUME NEW s \in Server, NEW n \in Nat, NEW q \in Seq(1..n), BeginService(s, q),
         serving \in [Server -> Nat], NEW started \in SUBSET Nat, delivered' = started,
         \A i \in DOMAIN q : \A t \in Server : serving[t] < q[i],
         \A i \in DOMAIN q : \A d \in started : d < q[i],
         \A i, j \in DOMAIN q : i < j => q[i] < q[j]
  PROVE  ServiceStartsInOrder'
<1>1. CASE q = <<>>
  BY <1>1 DEF BeginService, ServiceStartsInOrder
<1>2. CASE q # <<>>
  <2>1. inputQueue' = Tail(q) /\ serving' = [serving EXCEPT ![s] = Head(q)]
    BY <1>2 DEF BeginService
  <2>2. /\ Head(q) = q[1] /\ 1 \in DOMAIN q /\ Head(q) \in Nat /\ DOMAIN q \subseteq Nat \ {0}
        /\ \A i \in DOMAIN Tail(q) : i + 1 \in DOMAIN q /\ Tail(q)[i] = q[i + 1] /\ i \in Nat \ {0}
    BY <1>2
  <2>3. \A t \in Server : serving'[t] = serving[t] \/ serving'[t] = q[1]
    BY <2>1, <2>2
  <2>4. ASSUME NEW i \in DOMAIN Tail(q)
        PROVE  /\ \A t \in Server : serving'[t] < Tail(q)[i]
               /\ \A d \in started : d < Tail(q)[i]
               /\ \A j \in DOMAIN Tail(q) : i < j => Tail(q)[i] < Tail(q)[j]
    <3>1. i + 1 \in DOMAIN q /\ Tail(q)[i] = q[i + 1] /\ 1 < i + 1
      BY <2>2
    <3>2. \A j \in DOMAIN q : 1 < j => q[1] < q[j]
      BY <2>2
    <3>3. q[1] < q[i + 1]
      BY <3>1, <3>2
    <3>4. \A t \in Server : serving'[t] < Tail(q)[i]
      BY <2>3, <3>1, <3>3
    <3>5. \A d \in started : d < Tail(q)[i]
      BY <3>1
    <3>6. ASSUME NEW j \in DOMAIN Tail(q), i < j
          PROVE  Tail(q)[i] < Tail(q)[j]
      <4>1. j + 1 \in DOMAIN q /\ Tail(q)[j] = q[j + 1] /\ i + 1 < j + 1
        BY <2>2, <3>6
      <4>2. \A k \in DOMAIN q : i + 1 < k => q[i + 1] < q[k]
        BY <3>1
      <4> QED
        BY <3>1, <4>1, <4>2
    <3> QED
      BY <3>4, <3>5, <3>6
  <2> QED
    BY <2>1, <2>4 DEF ServiceStartsInOrder
<1> QED
  BY <1>1, <1>2

LEMMA PushBackOrder ==
  ASSUME TypeOK, ServiceStartsInOrder, PushBack
  PROVE  ServiceStartsInOrder'
<1> DEFINE q == Append(inputQueue, pushed + 1)
<1>1. /\ q \in Seq(1..(pushed + 1)) /\ pushed + 1 \in Nat /\ Len(inputQueue) \in Nat
      /\ DOMAIN q = 1..(Len(inputQueue) + 1) /\ q[Len(inputQueue) + 1] = pushed + 1
      /\ \A i \in DOMAIN inputQueue : q[i] = inputQueue[i] /\ inputQueue[i] \in 1..pushed
      /\ DOMAIN inputQueue = 1..Len(inputQueue) /\ pushed \in Nat
  BY DEF TypeOK
<1> HIDE DEF q
<1>2. \A i \in DOMAIN q : i \in DOMAIN inputQueue \/ i = Len(inputQueue) + 1
  BY <1>1
<1>3. \A t \in Server : serving[t] \in 0..pushed
  BY DEF TypeOK
<1>4. delivered \subseteq 1..pushed
  BY DEF TypeOK
<1>5. ASSUME NEW i \in DOMAIN q
      PROVE  /\ \A t \in Server : serving[t] < q[i]
             /\ \A d \in delivered : d < q[i]
             /\ \A j \in DOMAIN q : i < j => q[i] < q[j]
  <2>1. CASE i \in DOMAIN inputQueue
    <3>1. q[i] = inputQueue[i] /\ inputQueue[i] \in 1..pushed
      BY <2>1, <1>1
    <3>2. /\ \A t \in Server : serving[t] < inputQueue[i]
          /\ \A d \in delivered : d < inputQueue[i]
          /\ \A j \in DOMAIN inputQueue : i < j => inputQueue[i] < inputQueue[j]
      BY <2>1 DEF ServiceStartsInOrder
    <3>3. ASSUME NEW j \in DOMAIN q, i < j
          PROVE  q[i] < q[j]
      <4>1. CASE j \in DOMAIN inputQueue
        BY <4>1, <3>1, <3>2, <3>3, <1>1
      <4>2. CASE j = Len(inputQueue) + 1
        BY <4>2, <3>1, <1>1
      <4> QED
        BY <4>1, <4>2, <1>2
    <3> QED
      BY <3>1, <3>2, <3>3
  <2>2. CASE i = Len(inputQueue) + 1
    BY <2>2, <1>1, <1>3, <1>4
  <2> QED
    BY <2>1, <2>2, <1>2
<1>6. CASE inputQueue' = q /\ serving' = serving
  BY <1>5, <1>6 DEF PushBack, ServiceStartsInOrder
<1>7. ASSUME NEW s \in Server, BeginService(s, q)
      PROVE  ServiceStartsInOrder'
  <2>1. delivered' = delivered
    BY DEF PushBack
  <2>2. serving \in [Server -> Nat] /\ delivered \in SUBSET Nat
    BY <1>4 DEF TypeOK
  <2> QED
    BY <1>1, <1>5, <1>7, <2>1, <2>2, BeginServiceOrder
<1> QED
  BY <1>6, <1>7 DEF PushBack, Free, q

LEMMA NextOrder ==
  ASSUME TypeOK, ServiceStartsInOrder, [Next]_vars
  PROVE  ServiceStartsInOrder'
<1>1. CASE PushBack
  BY <1>1, PushBackOrder
<1>2. ASSUME NEW s \in Server, TimerExpired(s)
      PROVE  ServiceStartsInOrder'
  <2>1. \A i \in DOMAIN inputQueue : inputQueue[i] \in 1..pushed
    BY DEF TypeOK
  <2>2. \A t \in Server : serving'[t] = serving[t] \/ serving'[t] = 0
    BY <1>2 DEF TimerExpired, TypeOK, NoItem
  <2>3. inputQueue' = inputQueue /\ delivered' = delivered \cup {serving[s]}
    BY <1>2 DEF TimerExpired
  <2>4. ASSUME NEW i \in DOMAIN inputQueue
        PROVE  /\ \A t \in Server : serving'[t] < inputQueue[i]
               /\ \A d \in delivered' : d < inputQueue[i]
               /\ \A j \in DOMAIN inputQueue : i < j => inputQueue[i] < inputQueue[j]
    <3>1. /\ \A t \in Server : serving[t] < inputQueue[i]
          /\ \A d \in delivered : d < inputQueue[i]
          /\ \A j \in DOMAIN inputQueue : i < j => inputQueue[i] < inputQueue[j]
      BY DEF ServiceStartsInOrder
    <3>2. 0 < inputQueue[i]
      BY <2>1 DEF TypeOK
    <3>3. \A t \in Server : serving'[t] < inputQueue[i]
      BY <2>2, <3>1, <3>2
    <3>4. \A d \in delivered' : d < inputQueue[i]
      BY <2>3, <3>1
    <3> QED
      BY <3>1, <3>3, <3>4
  <2> QED
    BY <2>3, <2>4 DEF ServiceStartsInOrder
<1>3. CASE CallbackReturns
  <2>1. expired \in Server /\ BeginService(expired, inputQueue) /\ delivered' = delivered
    BY <1>3 DEF CallbackReturns, TypeOK, Server, NoServer
  <2>2. /\ inputQueue \in Seq(1..pushed) /\ pushed \in Nat /\ serving \in [Server -> Nat]
        /\ delivered \in SUBSET Nat
    BY DEF TypeOK
  <2> QED
    BY <2>1, <2>2, BeginServiceOrder DEF ServiceStartsInOrder
<1>4. CASE UNCHANGED vars
  BY <1>4 DEF vars, ServiceStartsInOrder
<1> QED
  BY <1>1, <1>2, <1>3, <1>4 DEF Next

\* Whatever the dequeue callback pushes, and even if a running timer is scheduled again:
\* service starts in the order of push_back.
THEOREM ServiceStartsInPushOrder == Spec => []ServiceStartsInOrder
<1>1. Init => ServiceStartsInOrder
  BY DEF Init, ServiceStartsInOrder
<1>2. Counted /\ ServiceStartsInOrder /\ [Next]_vars => Counted' /\ ServiceStartsInOrder'
  BY NextCounted, NextOrder DEF Counted
<1> QED
  BY <1>1, <1>2, InitCounted, PTL DEF Spec

-----------------------------------------------------------------------------
(* Routes *)

\* A route over some connections is a function of some of them to costs.
LEMMA RouteIsFunction ==
  ASSUME NEW Connections, NEW route \in Route(Connections)
  PROVE  /\ DOMAIN route \subseteq Connections
         /\ route = [c \in DOMAIN route |-> route[c]]
         /\ \A c \in DOMAIN route : route[c] \in Nat
BY DEF Route

\* And every such function is one.
LEMMA FunctionIsRoute ==
  ASSUME NEW Connections, NEW S \in SUBSET Connections, NEW f \in [S -> Nat]
  PROVE  f \in Route(Connections)
BY DEF Route

\* The operations of CCNxRoute make routes of routes.
THEOREM RoutesClosed ==
  ASSUME NEW Connections, NEW route \in Route(Connections),
         NEW other \in Route(Connections), NEW entry \in RouteEntry(Connections)
  PROVE  /\ AddNexthop(route, entry) \in Route(Connections)
         /\ AddRoute(route, other) \in Route(Connections)
         /\ RemoveNexthop(route, entry.connection) \in Route(Connections)
<1>1. /\ entry.connection \in Connections /\ entry.cost \in Nat
      /\ DOMAIN route \subseteq Connections /\ DOMAIN other \subseteq Connections
      /\ \A c \in DOMAIN route : route[c] \in Nat
      /\ \A c \in DOMAIN other : other[c] \in Nat
  BY RouteIsFunction DEF RouteEntry
<1>2. AddNexthop(route, entry) \in Route(Connections)
  <2>1. AddNexthop(route, entry) \in [DOMAIN route \cup {entry.connection} -> Nat]
    BY <1>1 DEF AddNexthop
  <2>2. QED
    BY <1>1, <2>1, FunctionIsRoute
<1>3. AddRoute(route, other) \in Route(Connections)
  <2>1. AddRoute(route, other) \in [DOMAIN route \cup DOMAIN other -> Nat]
    BY <1>1 DEF AddRoute
  <2>2. QED
    BY <1>1, <2>1, FunctionIsRoute
<1>4. RemoveNexthop(route, entry.connection) \in Route(Connections)
  <2>1. RemoveNexthop(route, entry.connection) \in [DOMAIN route \ {entry.connection} -> Nat]
    BY <1>1 DEF RemoveNexthop
  <2>2. QED
    BY <1>1, <2>1, FunctionIsRoute
<1>5. QED
  BY <1>2, <1>3, <1>4

\* AddRoute is AddNexthop of the entries of the other route one after the other: adding
\* a route that has one entry more is adding that entry last.
THEOREM AddRouteIsRepeatedAddNexthop ==
  ASSUME NEW Connections, NEW route \in Route(Connections),
         NEW other \in Route(Connections), NEW entry \in RouteEntry(Connections),
         entry.connection \notin Nexthops(other)
  PROVE  AddRoute(route, AddNexthop(other, entry)) = AddNexthop(AddRoute(route, other), entry)
<1> DEFINE more == AddNexthop(other, entry)
           e == entry.connection
           left == AddRoute(route, more)
           base == AddRoute(route, other)
           right == AddNexthop(base, entry)
<1>1. /\ DOMAIN more = DOMAIN other \cup {e} /\ more[e] = entry.cost
      /\ \A c \in DOMAIN other : more[c] = other[c]
  BY DEF AddNexthop, Nexthops
<1>2. /\ DOMAIN base = DOMAIN route \cup DOMAIN other
      /\ e \in DOMAIN base <=> e \in DOMAIN route
      /\ e \in DOMAIN route => base[e] = route[e]
  BY DEF AddRoute, Nexthops
<1>3. DOMAIN left = DOMAIN right
  BY <1>1, <1>2 DEF AddRoute, AddNexthop
<1>4. ASSUME NEW c \in DOMAIN left PROVE left[c] = right[c]
  <2>1. CASE c = e
    BY <2>1, <1>1, <1>2, <1>3 DEF AddRoute, AddNexthop
  <2>2. CASE c # e
    <3>1. c \in DOMAIN route \cup DOMAIN other
      BY <2>2, <1>1 DEF AddRoute
    <3>2. right[c] = base[c]
      BY <2>2, <3>1, <1>2 DEF AddNexthop
    <3>3. left[c] = base[c]
      BY <2>2, <3>1, <1>1 DEF AddRoute
    <3>4. QED
      BY <3>2, <3>3
  <2>3. QED
    BY <2>1, <2>2
<1>5. left = [c \in DOMAIN left |-> left[c]] /\ right = [c \in DOMAIN right |-> right[c]]
  BY DEF AddRoute, AddNexthop
<1>6. QED
  BY <1>3, <1>4, <1>5

\* The nexthops of a merged route are those of both, which is what NfpRouting says of
\* NfpPrefix::GetRoute, and each has the least of its costs.
THEOREM MergedRoute ==
  ASSUME NEW Connections, NEW route \in Route(Connections), NEW other \in Route(Connections)
  PROVE  /\ Nexthops(AddRoute(route, other)) = Nexthops(route) \cup Nexthops(other)
         /\ \A c \in Nexthops(route) : AddRoute(route, other)[c] <= route[c]
         /\ \A c \in Nexthops(other) : AddRoute(route, other)[c] <= other[c]
         /\ \A c \in Nexthops(AddRoute(route, other)) :
              \/ c \in Nexthops(route) /\ AddRoute(route, other)[c] = route[c]
              \/ c \in Nexthops(other) /\ AddRoute(route, other)[c] = other[c]
<1>1. /\ \A c \in DOMAIN route : route[c] \in Nat
      /\ \A c \in DOMAIN other : other[c] \in Nat
  BY RouteIsFunction
<1>2. QED
  BY <1>1 DEF AddRoute, Nexthops

\* The routes of several anchors may be merged in any order, and one of them twice.
THEOREM MergeOrderIrrelevant ==
  ASSUME NEW Connections, NEW r \in Route(Connections), NEW s \in Route(Connections),
         NEW t \in Route(Connections)
  PROVE  /\ AddRoute(r, s) = AddRoute(s, r)
         /\ AddRoute(AddRoute(r, s), t) = AddRoute(r, AddRoute(s, t))
         /\ AddRoute(AddRoute(r, s), s) = AddRoute(r, s)
<1>1. /\ \A c \in DOMAIN r : r[c] \in Nat
      /\ \A c \in DOMAIN s : s[c] \in Nat
      /\ \A c \in DOMAIN t : t[c] \in Nat
  BY RouteIsFunction
<1>2. AddRoute(r, s) = AddRoute(s, r)
  BY <1>1 DEF AddRoute
<1>3. AddRoute(AddRoute(r, s), t) = AddRoute(r, AddRoute(s, t))
  BY <1>1 DEF AddRoute
<1>4. AddRoute(AddRoute(r, s), s) = AddRoute(r, s)
  BY <1>1 DEF AddRoute
<1>5. QED
  BY <1>2, <1>3, <1>4

\* Equals compares sizes and looks the entries of one route up in the other; that is
\* enough for the routes to be the same.
THEOREM EqualsIsEquality ==
  ASSUME NEW Connections, IsFiniteSet(Connections),
         NEW route \in Route(Connections), NEW other \in Route(Connections)
  PROVE  Equals(route, other) <=> route = other
<1>1. /\ IsFiniteSet(DOMAIN other)
      /\ route = [c \in DOMAIN route |-> route[c]]
      /\ other = [c \in DOMAIN other |-> other[c]]
  BY RouteIsFunction, FS_Subset
<1>2. ASSUME Equals(route, other) PROVE route = other
  <2>1. DOMAIN route \subseteq DOMAIN other
    BY <1>2 DEF Equals
  <2>2. DOMAIN route = DOMAIN other
    BY <1>1, <1>2, <2>1, FS_Subset DEF Equals
  <2>3. QED
    BY <1>1, <1>2, <2>2 DEF Equals
<1>3. ASSUME route = other PROVE Equals(route, other)
  BY <1>3 DEF Equals
<1>4. QED
  BY <1>2, <1>3

\* If the connections of a prefix are those of NFP's last route and those of others, as
\* the portals that registered the prefix, a refresh leaves those of NFP's new route and
\* those of the others, as long as NFP's routes and the others have none in common.
THEOREM RefreshReplacesOnlyNfp ==
  ASSUME NEW model, NEW current, NEW others, NEW localHost, NEW connections,
         connections = others \cup (Nexthops(model) \ {localHost}),
         others \cap Nexthops(model) = {}
  PROVE  Refreshed(connections, model, current, localHost)
           = others \cup (Nexthops(current) \ {localHost})
BY DEF Refreshed
=============================================================================
