----------------------------- MODULE NfpTimeProofs -----------------------------
(***************************************************************************)
(* NFP in real time: what neighbors hear of each other (NfpHello, with     *)
(* NfpSeqnum), and how routes are kept alive (NfpTimers).                  *)
(*                                                                         *)
(* NfpHello, for all intervals, jitters, delays and links: sequence        *)
(* numbers that wrap are compared as if they did not, the clocks and       *)
(* tables have their types, a router is never silent for longer than the   *)
(* hello interval, each link's payloads are accepted in order, and who     *)
(* can be heard is not taken for dead.                                     *)
(*                                                                         *)
(* NfpTimers, for every number of routers and prefixes and for all         *)
(* timeouts, jitters and delays: one timer counts for every pair a router  *)
(* knows of, every pair is said again in time, and, if an announcement     *)
(* crosses the line before a route times out, routes are lapsed only for   *)
(* as long as the announcement that renews them is on its way.  The last   *)
(* one needs the history of the anchor, which is no variable: the          *)
(* invariant says that there is a function of the times of its             *)
(* announcements that explains every expiry and every deadline.            *)
(***************************************************************************)
EXTENDS NfpHello, NfpTimers, FiniteSetTheorems, TLAPS

-----------------------------------------------------------------------------
(* Sequence numbers.  The provers know quotients and remainders of numerals *)
(* only, so the two widths are two cases.                                   *)

\* Quotient and remainder of a number by the range of a sequence number.
LEMMA DivMod ==
  ASSUME NEW half \in Halves, NEW x \in Int
  PROVE  LET m == 2 * half IN
        /\ x \div m \in Int /\ x % m \in Int
        /\ 0 <= x % m /\ x % m < m
        /\ x = m * (x \div m) + (x % m)
<1>1. CASE half = Half16
  <2>1. 2 * half = 65536
    BY <1>1, SMT DEF Half16
  <2>2. x \div 65536 \in Int /\ x % 65536 \in Int
    BY SMT
  <2>3. 0 <= x % 65536 /\ x % 65536 < 65536
    BY SMT
  <2>4. x = 65536 * (x \div 65536) + (x % 65536)
    BY SMT
  <2> QED
    BY <2>1, <2>2, <2>3, <2>4
<1>2. CASE half = Half32
  <2>1. 2 * half = 4294967296
    BY <1>2, SMT DEF Half32, Half16
  <2>2. x \div 4294967296 \in Int /\ x % 4294967296 \in Int
    BY SMT
  <2>3. 0 <= x % 4294967296 /\ x % 4294967296 < 4294967296
    BY SMT
  <2>4. x = 4294967296 * (x \div 4294967296) + (x % 4294967296)
    BY SMT
  <2> QED
    BY <2>1, <2>2, <2>3, <2>4
<1> QED
  BY <1>1, <1>2 DEF Halves

\* The remainder is unique.
LEMMA Remainder ==
  ASSUME NEW half \in Halves, NEW x \in Int, NEW q \in Int, NEW r \in Int,
         0 <= r, r < 2 * half, x = 2 * half * q + r
  PROVE  x % (2 * half) = r
<1> DEFINE p == x \div (2 * half)
           s == x % (2 * half)
<1>1. p \in Int /\ s \in Int /\ 0 <= s /\ s < 2 * half /\ x = 2 * half * p + s
  BY DivMod
<1> HIDE DEF p, s
<1>2. s = r
  <2>1. CASE half = Half16
    BY <1>1, <2>1, SMT DEF Half16
  <2>2. CASE half = Half32
    BY <1>1, <2>2, SMT DEF Half16, Half32
  <2> QED
    BY <2>1, <2>2 DEF Halves
<1> QED
  BY <1>2 DEF s

\* The unsigned difference of two wrapped numbers, less than half the range apart.
LEMMA Difference ==
  ASSUME NEW half \in Halves, NEW a \in Int, NEW b \in Int, -half < a - b, a - b < half
  PROVE  LET m == 2 * half IN
         ((a % m) - (b % m)) % m = IF a - b >= 0 THEN a - b ELSE a - b + m
<1> DEFINE m == 2 * half
           p == a \div m
           q == b \div m
           s == a % m
           t == b % m
           d == IF a - b >= 0 THEN a - b ELSE a - b + m
<1>1. /\ p \in Int /\ s \in Int /\ a = m * p + s
      /\ q \in Int /\ t \in Int /\ b = m * q + t
  BY DivMod
<1>2. half \in Int /\ half > 0
  BY SMT DEF Halves, Half16, Half32
<1>3. d \in Int /\ 0 <= d /\ d < m
  BY <1>2, SMT
<1> HIDE DEF p, q, s, t
<1>4. \E k \in Int : s - t = m * k + d
  <2>1. CASE a - b >= 0
    <3>1. q - p \in Int /\ s - t = m * (q - p) + d
      BY <1>1, <1>2, <2>1, SMT
    <3> QED BY <3>1
  <2>2. CASE ~(a - b >= 0)
    <3>1. q - p - 1 \in Int /\ s - t = m * (q - p - 1) + d
      BY <1>1, <1>2, <2>2, SMT
    <3> QED BY <3>1
  <2> QED BY <2>1, <2>2
<1>5. s - t \in Int
  BY <1>1, SMT
<1> HIDE DEF d
<1>6. (s - t) % m = d
  BY <1>3, <1>4, <1>5, Remainder
<1> QED
  BY <1>6 DEF s, t, d

\* Of numbers less than half the range apart, NfpSeqnum::Compare orders what is left in 16
\* or 32 bits as it would order the numbers.
THEOREM CompareCorrect ==
  ASSUME NEW half \in Halves, NEW a \in Int, NEW b \in Int, -half < a - b, a - b < half
  PROVE  Compare(a % (2 * half), b % (2 * half), half) = Sign(a - b)
<1> DEFINE d == ((a % (2 * half)) - (b % (2 * half))) % (2 * half)
<1>1. d = IF a - b >= 0 THEN a - b ELSE a - b + 2 * half
  BY Difference
<1>2. half \in Int
  BY SMT DEF Halves, Half16, Half32
<1>3. Compare(a % (2 * half), b % (2 * half), half) = Sign(IF d < half THEN d ELSE d - 2 * half)
  BY DEF Compare, Delta
<1> HIDE DEF d
<1>4. (IF d < half THEN d ELSE d - 2 * half) = a - b
  BY <1>1, <1>2, SMT
<1> QED
  BY <1>3, <1>4

-----------------------------------------------------------------------------
(* Types *)

\* What is left of a sequence number fits 16 bits.
LEMMA Uint16Type ==
  ASSUME NEW n \in Nat
  PROVE  Uint16(n) \in Seqnum16
<1>1. Uint16(n) \in Int /\ 0 <= Uint16(n) /\ Uint16(n) < 2 * Half16
  BY DivMod DEF Uint16, Halves
<1> HIDE DEF Uint16
<1> QED
  BY <1>1 DEF Seqnum16

\* Extending, cleaning and adding a route keep the type of a PIT entry.
LEMMA EntryType ==
  ASSUME NEW entry \in P!Entry, NEW expiry \in Nat, NEW l \in Links
  PROVE  LET e == P!Cleaned(P!Extend(entry, expiry)) IN
         [e EXCEPT !.routes = @ \cup {l}] \in P!Entry
<1>1. P!Extend(entry, expiry) \in P!Entry
  BY DEF P!Extend, P!Entry, P!Later, P!Time, P!Never
<1>2. P!NewEntry \in P!Entry
  BY DEF P!NewEntry, P!Entry, P!Time, P!Never
<1>3. P!Cleaned(P!Extend(entry, expiry)) \in P!Entry
  BY <1>1, <1>2 DEF P!Cleaned
<1> QED
  BY <1>3 DEF P!Entry

\* The constructor, a hello and a timeout make entries whose timer is not in the past.
LEMMA NeighborType ==
  ASSUME NEW n \in Nat, NEW entry \in Entry, now \in Nat
  PROVE  /\ Created(Uint16(n)) \in Entry /\ Created(Uint16(n)).timer >= now
         /\ Refreshed(entry, Uint16(n)) \in Entry
         /\ Refreshed(entry, Uint16(n)).timer = entry.timer
         /\ TimedOut(entry) \in Neighbor
         /\ TimedOut(entry) # NoEntry => TimedOut(entry).timer >= now
<1> DEFINE u == Uint16(n)
<1>1. u \in Seqnum16
  BY Uint16Type
<1> HIDE DEF u
<1>2. now + NeighborTimeout \in Nat /\ now + NeighborTimeout >= now
  BY TimersAssumption
<1>3. Created(u) \in Entry /\ Created(u).timer >= now
  BY <1>1, <1>2 DEF Created, Entry
<1>4. Refreshed(entry, u) \in Entry /\ Refreshed(entry, u).timer = entry.timer
  BY <1>1, <1>2 DEF Refreshed, Entry
<1>5. TimedOut(entry) \in Neighbor /\ (TimedOut(entry) # NoEntry => TimedOut(entry).timer >= now)
  <2>1. CASE now < entry.expiry
    BY <2>1 DEF TimedOut, Neighbor, Entry
  <2>2. CASE ~(now < entry.expiry) /\ entry.state = "up"
    BY <1>2, <2>2 DEF TimedOut, Neighbor, Entry
  <2>3. CASE ~(now < entry.expiry) /\ entry.state # "up"
    BY <2>3 DEF TimedOut, Neighbor
  <2> QED
    BY <2>1, <2>2, <2>3
<1> QED
  BY <1>3, <1>4, <1>5 DEF u

\* The state functions TypeOK is about, hidden behind two names to keep the steps small.
ClocksOK ==
  /\ now \in Nat /\ lastBroadcast \in Time /\ lastBroadcast <= now
  /\ helloTimer \in Nat /\ helloTimer >= now
  /\ workTimer \in Time /\ (workTimer # Never => workTimer >= now)

NeighborsOK ==
  /\ neighbor \in [Links -> Neighbor] /\ newest \in [Links -> Nat]
  /\ \A l \in Links : neighbor[l] # NoEntry => neighbor[l].timer >= now

TablesOK ==
  /\ interfaces \subseteq Links /\ nextSeqnum \in Nat /\ network \subseteq Copy
  /\ pit \in P!Entry /\ worked \in Nat /\ faults \in Nat

\* The type invariant, in the parts the proofs need.
LEMMA TypeParts == TypeOK <=> ClocksOK /\ NeighborsOK /\ TablesOK
BY DEF TypeOK, ClocksOK, NeighborsOK, TablesOK

\* Initially nothing is sent and nobody known.
LEMMA InitType == Init => TypeOK
<1> SUFFICES ASSUME Init PROVE TypeOK
  OBVIOUS
<1>1. helloTimer \in Nat
  <2>1. Jitter \in Nat /\ Jitter \div 4 \in Int /\ Jitter \div 4 <= Jitter
    BY TimersAssumption, SMT
  <2> QED
    BY <2>1 DEF Init, Jittered
<1>2. P!NewEntry \in P!Entry
  BY DEF P!NewEntry, P!Entry, P!Time, P!Never
<1>3. NoEntry \in Neighbor
  BY DEF Neighbor
<1>4. ClocksOK
  BY <1>1 DEF Init, ClocksOK, Time, Never
<1>5. NeighborsOK
  BY <1>3 DEF Init, NeighborsOK
<1>6. TablesOK
  BY <1>2, SeqnumsAssumption DEF Init, TablesOK
<1> QED
  BY <1>4, <1>5, <1>6, TypeParts

\* A broadcast sends copies of the next payload.
LEMMA BroadcastType ==
  ASSUME TypeOK, Broadcast
  PROVE  nextSeqnum' \in Nat /\ network' \subseteq Copy /\ lastBroadcast' = now
BY DEF TypeOK, Broadcast, Copy

\* The timers that fire set their times ahead.
LEMMA SenderType ==
  ASSUME TypeOK, HelloTimerExpired \/ AddWorkQueueEntry \/ ProcessWorkQueue
  PROVE  TypeOK'
<1>1. ClocksOK /\ NeighborsOK /\ TablesOK
  BY TypeParts
<1>2. HelloInterval \in Nat /\ Jitter \in Nat /\ Jitter < HelloInterval /\ 0 < Jitter
  BY TimersAssumption
<1>3. ASSUME HelloTimerExpired
      PROVE  TypeOK'
  <2>1. ClocksOK'
    <3>1. CASE HelloIsDue
      <4>1. Broadcast /\ helloTimer' \in Jittered(now + HelloInterval, Jitter)
        BY <1>3, <3>1 DEF HelloTimerExpired
      <4>2. now' = now /\ workTimer' = workTimer
        BY <1>3 DEF HelloTimerExpired
      <4> QED
        BY <1>1, <1>2, <4>1, <4>2 DEF ClocksOK, Time, Broadcast, Jittered
    <3>2. CASE ~HelloIsDue
      <4>1. /\ lastBroadcast' = lastBroadcast
            /\ helloTimer' \in Jittered(lastBroadcast + HelloInterval, Jitter)
        BY <1>3, <3>2 DEF HelloTimerExpired, HelloRemaining
      <4>2. lastBroadcast \in Nat /\ lastBroadcast + HelloInterval - Jitter > now
        BY <1>1, <1>2, <3>2 DEF HelloIsDue, ClocksOK, Time, Never
      <4>3. now' = now /\ workTimer' = workTimer
        BY <1>3 DEF HelloTimerExpired
      <4> QED
        BY <1>1, <1>2, <4>1, <4>2, <4>3 DEF ClocksOK, Time, Jittered
    <3> QED
      BY <3>1, <3>2
  <2>2. NeighborsOK'
    BY <1>1, <1>3 DEF NeighborsOK, HelloTimerExpired, receiverVars
  <2>3. TablesOK'
    BY <1>1, <1>3, BroadcastType DEF TablesOK, HelloTimerExpired, receiverVars, counters
  <2> QED
    BY <2>1, <2>2, <2>3 DEF TypeOK, ClocksOK, NeighborsOK, TablesOK
<1>4. ASSUME AddWorkQueueEntry
      PROVE  TypeOK'
  <2>1. PICK d \in WorkDelays : workTimer' = now + d
    BY <1>4 DEF AddWorkQueueEntry
  <2>2. d \in Nat
    BY TimersAssumption
  <2>3. now' = now /\ lastBroadcast' = lastBroadcast /\ helloTimer' = helloTimer
    BY <1>4 DEF AddWorkQueueEntry
  <2>4. ClocksOK'
    BY <1>1, <2>1, <2>2, <2>3 DEF ClocksOK, Time, Never
  <2>5. NeighborsOK' /\ TablesOK'
    BY <1>1, <1>4 DEF NeighborsOK, TablesOK, AddWorkQueueEntry, receiverVars
  <2> QED
    BY <2>4, <2>5 DEF TypeOK, ClocksOK, NeighborsOK, TablesOK
<1>5. ASSUME ProcessWorkQueue
      PROVE  TypeOK'
  <2>1. now' = now /\ helloTimer' = helloTimer /\ workTimer' = Never /\ lastBroadcast' = now
    BY <1>5 DEF ProcessWorkQueue, Broadcast
  <2>2. ClocksOK'
    BY <1>1, <2>1 DEF ClocksOK, Time
  <2>3. NeighborsOK'
    BY <1>1, <1>5 DEF NeighborsOK, ProcessWorkQueue, receiverVars
  <2>4. TablesOK'
    BY <1>1, <1>5, BroadcastType DEF TablesOK, ProcessWorkQueue, receiverVars, counters
  <2> QED
    BY <2>2, <2>3, <2>4 DEF TypeOK, ClocksOK, NeighborsOK, TablesOK
<1> QED
  BY <1>3, <1>4, <1>5

\* A hello is recorded as it should.
LEMMA ReceiveHelloType ==
  ASSUME TypeOK, NEW l \in Links, NEW n \in Nat, ReceiveHello(l, n), now' = now
  PROVE  NeighborsOK'
<1>1. now \in Nat /\ neighbor[l] \in Neighbor /\ NeighborsOK
  BY TypeParts DEF ClocksOK, NeighborsOK
<1>2. CASE UNCHANGED <<neighbor, newest>>
  BY <1>1, <1>2 DEF NeighborsOK
<1>3. CASE neighbor' = [neighbor EXCEPT ![l] = Created(Uint16(n))] /\ newest' = [newest EXCEPT ![l] = n]
  <2>1. Created(Uint16(n)) \in Neighbor /\ Created(Uint16(n)).timer >= now
    <3>1. [state |-> "up", seqnum |-> 0, expiry |-> 0, timer |-> 0] \in Entry
      BY SMT DEF Entry, Seqnum16, Half16
    <3> QED
      BY <1>1, <3>1, NeighborType DEF Neighbor
  <2> QED
    BY <1>1, <1>3, <2>1 DEF NeighborsOK
<1>4. CASE /\ neighbor[l] # NoEntry
           /\ neighbor' = [neighbor EXCEPT ![l] = Refreshed(@, Uint16(n))] /\ newest' = [newest EXCEPT ![l] = n]
  <2>1. neighbor[l] \in Entry
    BY <1>1, <1>4 DEF Neighbor
  <2>2. /\ Refreshed(neighbor[l], Uint16(n)) \in Neighbor
        /\ Refreshed(neighbor[l], Uint16(n)).timer = neighbor[l].timer
    BY <1>1, <2>1, NeighborType DEF Neighbor
  <2> QED
    BY <1>1, <1>4, <2>2 DEF NeighborsOK
<1> QED
  BY <1>2, <1>3, <1>4 DEF ReceiveHello

\* A copy is taken from the network into the PIT and, perhaps, the neighbors.
LEMMA ReceiveType ==
  ASSUME TypeOK, NEW copy \in network, Receive(copy)
  PROVE  TypeOK'
<1>1. ClocksOK /\ NeighborsOK /\ TablesOK
  BY TypeParts
<1>2. copy.link \in Links /\ copy.seqnum \in Nat
  BY <1>1 DEF TablesOK, Copy
<1>3. ClocksOK'
  BY <1>1 DEF Receive, senderVars, ClocksOK
<1>4. NeighborsOK'
  <2>1. ReceiveHello(copy.link, copy.seqnum) \/ UNCHANGED <<neighbor, newest>>
    BY DEF Receive
  <2>2. now' = now
    BY DEF Receive
  <2> QED
    BY <1>1, <1>2, <2>1, <2>2, ReceiveHelloType DEF NeighborsOK
<1>5. TablesOK'
  <2>1. pit' \in P!Entry
    <3>1. now + Lifetime \in Nat
      BY <1>1, TimersAssumption DEF ClocksOK
    <3> QED
      BY <1>1, <1>2, <3>1, EntryType DEF Receive, TablesOK
  <2> QED
    BY <1>1, <2>1 DEF Receive, senderVars, counters, TablesOK
<1> QED
  BY <1>3, <1>4, <1>5 DEF TypeOK, ClocksOK, NeighborsOK, TablesOK

\* A timer that expires is set again, or its entry is erased.
LEMMA TimeoutType ==
  ASSUME TypeOK, NEW l \in Links, TimeoutExpired(l)
  PROVE  TypeOK'
<1>1. ClocksOK /\ NeighborsOK /\ TablesOK
  BY TypeParts
<1>2. ClocksOK' /\ TablesOK'
  BY <1>1 DEF TimeoutExpired, senderVars, counters, ClocksOK, TablesOK
<1>3. NeighborsOK'
  <2>1. now \in Nat /\ neighbor[l] # NoEntry /\ neighbor[l] \in Neighbor
    BY <1>1 DEF TimeoutExpired, NoEntry, ClocksOK, NeighborsOK, Never
  <2>2. /\ TimedOut(neighbor[l]) \in Neighbor
        /\ TimedOut(neighbor[l]) # NoEntry => TimedOut(neighbor[l]).timer >= now
    BY <2>1, NeighborType DEF Neighbor
  <2> QED
    BY <1>1, <2>2 DEF TimeoutExpired, NeighborsOK
<1> QED
  BY <1>2, <1>3 DEF TypeOK, ClocksOK, NeighborsOK, TablesOK

\* Time does not pass a timer.
LEMMA TickType ==
  ASSUME TypeOK, Tick
  PROVE  TypeOK'
<1>1. ClocksOK /\ NeighborsOK /\ TablesOK
  BY TypeParts
<1>2. ClocksOK'
  BY <1>1 DEF Tick, senderVars, ClocksOK, Time, Never
<1>3. NeighborsOK'
  <2>1. now' = now + 1 /\ now \in Nat /\ neighbor' = neighbor /\ newest' = newest
    BY <1>1 DEF Tick, receiverVars, ClocksOK
  <2>2. ASSUME NEW l \in Links, neighbor[l] # NoEntry
        PROVE  neighbor[l].timer >= now + 1
    <3>1. neighbor[l].timer \in Nat
      BY <1>1, <2>2 DEF NeighborsOK, Neighbor, Entry
    <3>2. neighbor[l].timer # now /\ neighbor[l].timer >= now
      BY <1>1, <2>2 DEF Tick, NeighborsOK
    <3> QED
      BY <2>1, <3>1, <3>2
  <2> QED
    BY <1>1, <2>1, <2>2 DEF NeighborsOK
<1>4. TablesOK'
  BY <1>1 DEF Tick, senderVars, receiverVars, counters, TablesOK
<1> QED
  BY <1>2, <1>3, <1>4 DEF TypeOK, ClocksOK, NeighborsOK, TablesOK

\* Every step keeps the types.
LEMMA NextType ==
  ASSUME TypeOK, [Next]_vars
  PROVE  TypeOK'
<1>1. ASSUME NEW l \in Links, NotifyInterfaceDown(l) \/ NotifyInterfaceUp(l)
      PROVE  TypeOK'
  BY <1>1 DEF TypeOK, NotifyInterfaceDown, NotifyInterfaceUp, receiverVars, counters
<1>2. ASSUME NEW copy \in network, Lose(copy)
      PROVE  TypeOK'
  BY <1>2 DEF TypeOK, Lose, senderVars, receiverVars
<1>3. CASE UNCHANGED vars
  BY <1>3 DEF TypeOK, vars, senderVars, receiverVars, counters
<1> QED
  BY <1>1, <1>2, <1>3, SenderType, ReceiveType, TimeoutType, TickType DEF Next

\* The clocks, timers and tables of both routers have their types, and no timer is set for
\* the past, for all intervals, delays and links.
THEOREM NfpHelloTypeCorrect == Spec => []TypeOK
<1>1. TypeOK /\ [Next]_vars => TypeOK'
  BY NextType
<1> QED
  BY InitType, <1>1, PTL DEF Spec

-----------------------------------------------------------------------------
(* A router is never silent *)

\* What keeps a router from being silent: its hello timer never reaches further than one
\* interval after its last broadcast, whichever timer caused that.
HelloInTime ==
  IF lastBroadcast = Never THEN helloTimer <= Jitter ELSE helloTimer <= lastBroadcast + HelloInterval

\* The timer that is due causes a broadcast, or is set to the end of the interval that began
\* with the last one; a broadcast of the work queue starts a new interval.
LEMMA HelloInTimeStep ==
  ASSUME TypeOK, HelloInTime, [Next]_vars
  PROVE  HelloInTime'
<1>1. HelloInterval \in Nat /\ Jitter \in Nat /\ Jitter < HelloInterval
  BY TimersAssumption
<1>2. now \in Nat /\ lastBroadcast \in Time /\ lastBroadcast <= now /\ helloTimer \in Nat
  BY DEF TypeOK
<1>3. CASE HelloTimerExpired
  <2>1. CASE HelloIsDue
    <3>1. Broadcast /\ helloTimer' \in Jittered(now + HelloInterval, Jitter)
      BY <1>3, <2>1 DEF HelloTimerExpired
    <3> QED
      BY <1>1, <1>2, <3>1 DEF HelloInTime, Broadcast, Jittered, Never
  <2>2. CASE ~HelloIsDue
    <3>1. /\ lastBroadcast' = lastBroadcast /\ lastBroadcast # Never
          /\ helloTimer' \in Jittered(lastBroadcast + HelloInterval, Jitter)
      BY <1>3, <2>2 DEF HelloTimerExpired, HelloRemaining, HelloIsDue
    <3> QED
      BY <1>1, <1>2, <3>1 DEF HelloInTime, Jittered, Time, Never
  <2> QED
    BY <2>1, <2>2
<1>4. CASE ProcessWorkQueue
  <2>1. lastBroadcast' = now /\ helloTimer' = helloTimer
    BY <1>4 DEF ProcessWorkQueue, Broadcast
  <2> QED
    BY <1>1, <1>2, <2>1 DEF HelloInTime, Time, Never
<1>5. CASE UNCHANGED <<lastBroadcast, helloTimer>>
  BY <1>5 DEF HelloInTime
<1>6. CASE AddWorkQueueEntry \/ Tick \/ UNCHANGED vars
  BY <1>5, <1>6 DEF AddWorkQueueEntry, Tick, vars, senderVars
<1>7. CASE \E l \in Links : NotifyInterfaceDown(l) \/ NotifyInterfaceUp(l) \/ TimeoutExpired(l)
  BY <1>5, <1>7 DEF NotifyInterfaceDown, NotifyInterfaceUp, TimeoutExpired, senderVars
<1>8. CASE \E copy \in network : Receive(copy) \/ Lose(copy)
  BY <1>5, <1>8 DEF Receive, Lose, senderVars
<1> QED
  BY <1>3, <1>4, <1>6, <1>7, <1>8 DEF Next

\* A router is never silent for longer than its hello interval, for all intervals and
\* jitters: HelloTimerExpired may put a hello off because of a broadcast of the work queue,
\* but only until the interval that began with that broadcast is over.
THEOREM NfpNeverSilent == Spec => []NeverSilent
<1>1. Init => HelloInTime
  <2> SUFFICES ASSUME Init PROVE HelloInTime
    OBVIOUS
  <2>1. Jitter \in Nat /\ Jitter \div 4 \in Int /\ Jitter \div 4 >= 0
    BY TimersAssumption, SMT
  <2> QED
    BY <2>1 DEF Init, HelloInTime, Jittered
<1>2. TypeOK /\ HelloInTime /\ [Next]_vars => HelloInTime'
  BY HelloInTimeStep
<1>3. TypeOK /\ HelloInTime => NeverSilent
  <2> SUFFICES ASSUME TypeOK, HelloInTime PROVE NeverSilent
    OBVIOUS
  <2>1. now \in Nat /\ helloTimer \in Nat /\ helloTimer >= now /\ lastBroadcast \in Time
    BY DEF TypeOK
  <2> QED
    BY <2>1, TimersAssumption DEF HelloInTime, NeverSilent, Time, Never
<1> QED
  BY <1>1, <1>2, <1>3, NfpHelloTypeCorrect, PTL DEF Spec

-----------------------------------------------------------------------------
(* Payloads are handled in order *)

\* The 16 bits an entry keeps are those of the newest payload it accepted.
SeqnumsAgree == \A l \in Links : neighbor[l] # NoEntry => neighbor[l].seqnum = Uint16(newest[l])

\* A step either leaves the entry of a link and its newest payload, creates it, refreshes it
\* with a payload in order, or is a timeout.
LEMMA EntrySteps ==
  ASSUME TypeOK, [Next]_vars, NEW l \in Links
  PROVE  \/ neighbor'[l] = neighbor[l] /\ newest'[l] = newest[l]
         \/ \E n \in Nat :
              /\ newest'[l] = n /\ neighbor'[l].seqnum = Uint16(n)
              /\ neighbor[l] # NoEntry => IsHelloInOrder(neighbor[l], Uint16(n))
         \/ neighbor[l] # NoEntry /\ neighbor'[l] = TimedOut(neighbor[l]) /\ newest'[l] = newest[l]
<1>1. neighbor \in [Links -> Neighbor] /\ newest \in [Links -> Nat] /\ network \subseteq Copy
  BY DEF TypeOK
<1>2. CASE UNCHANGED <<neighbor, newest>>
  BY <1>2
<1>3. ASSUME NEW copy \in network, Receive(copy), ~UNCHANGED <<neighbor, newest>>
      PROVE  \/ neighbor'[l] = neighbor[l] /\ newest'[l] = newest[l]
             \/ \E n \in Nat :
                  /\ newest'[l] = n /\ neighbor'[l].seqnum = Uint16(n)
                  /\ neighbor[l] # NoEntry => IsHelloInOrder(neighbor[l], Uint16(n))
  <2>1. copy.link \in Links /\ copy.seqnum \in Nat
    BY <1>1 DEF Copy
  <2>2. ReceiveHello(copy.link, copy.seqnum)
    BY <1>3 DEF Receive
  <2>3. CASE copy.link # l
    BY <1>1, <2>1, <2>2, <2>3, <1>3 DEF ReceiveHello
  <2>4. CASE copy.link = l /\ neighbor[l] = NoEntry
    BY <1>1, <2>1, <2>2, <2>4 DEF ReceiveHello, Created
  <2>5. CASE copy.link = l /\ neighbor[l] # NoEntry
    <3>1. /\ IsHelloInOrder(neighbor[l], Uint16(copy.seqnum))
          /\ neighbor' = [neighbor EXCEPT ![l] = Refreshed(@, Uint16(copy.seqnum))]
          /\ newest' = [newest EXCEPT ![l] = copy.seqnum]
      BY <1>3, <2>2, <2>5 DEF ReceiveHello
    <3>2. neighbor[l] \in Entry
      BY <1>1, <2>5 DEF Neighbor
    <3>3. Refreshed(neighbor[l], Uint16(copy.seqnum)).seqnum = Uint16(copy.seqnum)
      BY <3>2 DEF Refreshed, Entry
    <3> QED
      BY <1>1, <2>1, <3>1, <3>3
  <2> QED
    BY <2>3, <2>4, <2>5
<1>4. ASSUME NEW k \in Links, TimeoutExpired(k)
      PROVE  \/ neighbor'[l] = neighbor[l] /\ newest'[l] = newest[l]
             \/ neighbor[l] # NoEntry /\ neighbor'[l] = TimedOut(neighbor[l]) /\ newest'[l] = newest[l]
  <2>1. neighbor[k] # NoEntry
    BY <1>4 DEF TimeoutExpired, NoEntry, TypeOK, Never
  <2> QED
    BY <1>1, <1>4, <2>1 DEF TimeoutExpired
<1>5. CASE HelloTimerExpired \/ AddWorkQueueEntry \/ ProcessWorkQueue \/ Tick \/ UNCHANGED vars
  BY <1>2, <1>5 DEF HelloTimerExpired, AddWorkQueueEntry, ProcessWorkQueue, Tick, vars, receiverVars
<1>6. CASE \E k \in Links : NotifyInterfaceDown(k) \/ NotifyInterfaceUp(k)
  BY <1>2, <1>6 DEF NotifyInterfaceDown, NotifyInterfaceUp, receiverVars
<1>7. CASE \E copy \in network : Lose(copy)
  BY <1>2, <1>7 DEF Lose, receiverVars
<1> QED
  BY <1>2, <1>3, <1>4, <1>5, <1>6, <1>7 DEF Next

\* The bits agree with the number they were cut from after every step.
LEMMA SeqnumsAgreeStep ==
  ASSUME TypeOK, SeqnumsAgree, [Next]_vars
  PROVE  SeqnumsAgree'
<1> SUFFICES ASSUME NEW l \in Links, neighbor'[l] # NoEntry
             PROVE  neighbor'[l].seqnum = Uint16(newest'[l])
  BY DEF SeqnumsAgree, Uint16
<1>1. CASE neighbor'[l] = neighbor[l] /\ newest'[l] = newest[l]
  BY <1>1 DEF SeqnumsAgree
<1>2. CASE \E n \in Nat : newest'[l] = n /\ neighbor'[l].seqnum = Uint16(n)
  BY <1>2
<1>3. CASE neighbor[l] # NoEntry /\ neighbor'[l] = TimedOut(neighbor[l]) /\ newest'[l] = newest[l]
  <2>1. neighbor[l] \in Entry
    BY <1>3 DEF TypeOK, Neighbor
  <2>2. TimedOut(neighbor[l]).seqnum = neighbor[l].seqnum
    BY <1>3, <2>1 DEF TimedOut, Entry
  <2> QED
    BY <1>3, <2>2 DEF SeqnumsAgree
<1> QED
  BY <1>1, <1>2, <1>3, EntrySteps

\* Of the payloads that arrive over a link, NFP accepts only newer ones while its entry
\* lives, for all numbers of payloads: 16 bits of sequence number are enough as long as a
\* link does not skip half of them.
THEOREM NfpHandlesInOrder == Spec => HandledInOrder
<1>1. Init => SeqnumsAgree
  BY DEF Init, SeqnumsAgree
<1>2. TypeOK /\ SeqnumsAgree /\ [Next]_vars => SeqnumsAgree'
  BY SeqnumsAgreeStep
<1>3. TypeOK /\ SeqnumsAgree /\ [Next]_vars =>
        [\A l \in Links :
           /\ neighbor[l] # NoEntry /\ newest'[l] # newest[l]
           /\ -Half16 < newest'[l] - newest[l] /\ newest'[l] - newest[l] < Half16
           => newest'[l] > newest[l]]_vars
  <2> SUFFICES ASSUME TypeOK, SeqnumsAgree, [Next]_vars, NEW l \in Links,
                      neighbor[l] # NoEntry, newest'[l] # newest[l],
                      -Half16 < newest'[l] - newest[l], newest'[l] - newest[l] < Half16
               PROVE  newest'[l] > newest[l]
    OBVIOUS
  <2>1. newest[l] \in Nat
    BY DEF TypeOK
  <2>2. PICK n \in Nat : newest'[l] = n /\ IsHelloInOrder(neighbor[l], Uint16(n))
    BY EntrySteps
  <2>3. Compare(Uint16(newest[l]), Uint16(n), Half16) < 0
    BY <2>2 DEF SeqnumsAgree, IsHelloInOrder
  <2>4. -Half16 < newest[l] - n /\ newest[l] - n < Half16
    BY <2>1, <2>2, SMT DEF Half16
  <2>5. Compare(Uint16(newest[l]), Uint16(n), Half16) = Sign(newest[l] - n)
    BY <2>1, <2>4, CompareCorrect DEF Uint16, Halves
  <2>6. Sign(newest[l] - n) < 0
    BY <2>3, <2>5
  <2> QED
    BY <2>1, <2>2, <2>6 DEF Sign
<1> QED
  BY <1>1, <1>2, <1>3, NfpHelloTypeCorrect, PTL DEF Spec, HandledInOrder

-----------------------------------------------------------------------------
(* A router that can be heard is heard *)

\* Payloads are on their way for MaxDelay at most; one interface is always left.
InFlight ==
  /\ IsFiniteSet(network) /\ interfaces # {} /\ faults <= MaxFaults
  /\ interfaces # Links => faults >= 1
  /\ network # {} => lastBroadcast # Never
  /\ \A c \in network : c.seqnum < nextSeqnum /\ c.sent <= now /\ now <= c.sent + MaxDelay

Known == \E l \in Links : neighbor[l] # NoEntry

\* Copies in flight of payloads after the base, up to m, and the links over which only a
\* second one of them will get through the PIT.
Flying(base, m)  == {c \in network : base < c.seqnum /\ c.seqnum <= m}
LinksOf(base, m) == {c.link : c \in Flying(base, m)}
Unheard(base, m) == LinksOf(base, m) \ pit.routes

\* The next payload, or one before it, will be heard of.
Promised(base) == interfaces \cap (pit.routes \cup LinksOf(base, nextSeqnum - 1)) # {}

\* With the payloads up to base NFP has last heard of the neighbor, over link k at time u.
LastHeard(u, base, k) ==
  /\ neighbor[k].state = "up" /\ neighbor[k].expiry = u + NeighborTimeout
  /\ u <= now /\ base < nextSeqnum /\ lastBroadcast # Never
  /\ lastBroadcast <= u + (nextSeqnum - 1 - base) * HelloInterval
  /\ pit.routes # {}
  /\ \A l \in Links : neighbor[l] # NoEntry => newest[l] <= base
  /\ \A c \in network : c.seqnum > base => c.sent <= u + (c.seqnum - base) * HelloInterval

\* Each payload that was sent since is on its way to NFP or has cost a fault.  Of the copies
\* over a link that is new to the PIT one is aggregated, and the others go through.
MissesPaid(base) ==
  /\ \A m \in base .. nextSeqnum - 1 :
       m - base + Cardinality(Unheard(base, m)) <= faults + Cardinality(Flying(base, m))
  /\ Promised(base) \/ nextSeqnum - base + Cardinality(Unheard(base, nextSeqnum - 1))
                         <= faults + Cardinality(Flying(base, nextSeqnum - 1))

HeardAt(u, base, k) == LastHeard(u, base, k) /\ MissesPaid(base)

\* Once it has been heard of, an entry is up, and few payloads were missed since.
StillHeard == Known => \E u \in Nat, base \in Nat, k \in Links : HeardAt(u, base, k)

\* NfpSeqnum orders what arrives: no link skips half of the numbers.
NumbersComparable ==
  \A c \in network : neighbor[c.link] # NoEntry =>
    -Half16 < newest[c.link] - c.seqnum /\ newest[c.link] - c.seqnum < Half16

\* A product grows with its factor.
LEMMA Monotone ==
  ASSUME NEW a \in Nat, NEW b \in Nat, NEW h \in Nat, a <= b
  PROVE  a * h <= b * h /\ (a + 1) * h = a * h + h /\ a * h \in Nat
<1>1. PICK d \in Nat : b = a + d
  <2>1. b - a \in Nat /\ b = a + (b - a)
    OBVIOUS
  <2> QED
    BY <2>1
<1>2. b * h = a * h + d * h /\ d * h >= 0
  BY <1>1
<1> QED
  BY <1>2

\* The copies of one payload, one for each interface.
LEMMA CopiesCounted ==
  ASSUME NEW I, IsFiniteSet(I), NEW copies,
         \A c \in copies : c.link \in I,
         \A l \in I : \E c \in copies : c.link = l,
         \A c, d \in copies : c.link = d.link => c = d
  PROVE  IsFiniteSet(copies) /\ Cardinality(copies) = Cardinality(I)
<1> DEFINE f == [l \in I |-> CHOOSE c \in copies : c.link = l]
<1>1. \A l \in I : f[l] \in copies /\ f[l].link = l
  OBVIOUS
<1>2. f \in [I -> copies] /\ \A l, k \in I : f[l] = f[k] => l = k
  BY <1>1
<1> HIDE DEF f
<1>3. \A c \in copies : c.link \in I /\ f[c.link] = c
  BY <1>1
<1>4. f \in Bijection(I, copies)
  BY <1>2, <1>3 DEF Bijection, Injection, Surjection, IsInjective
<1>5. ExistsBijection(I, copies)
  BY <1>4 DEF ExistsBijection
<1> QED
  BY <1>5, FS_Bijection

\* More copies are sent than there are links which are new to the PIT; the difference
\* counts the links that are not.
LEMMA Gain ==
  ASSUME NEW A, NEW B, NEW R, NEW I, NEW new, IsFiniteSet(A), IsFiniteSet(B), IsFiniteSet(I),
         IsFiniteSet(new), Cardinality(new) = Cardinality(I), A \cap new = {}
  PROVE  /\ Cardinality(A \cup new) - Cardinality(B \cup (I \ R)) >= Cardinality(A) - Cardinality(B)
         /\ I \cap (R \cup B) # {} =>
              Cardinality(A \cup new) - Cardinality(B \cup (I \ R)) >= Cardinality(A) - Cardinality(B) + 1
<1> DEFINE N == (I \ R) \ B
<1>1. N \in SUBSET I
  OBVIOUS
<1>2. /\ IsFiniteSet(N) /\ Cardinality(N) <= Cardinality(I)
      /\ Cardinality(I) = Cardinality(N) => I = N
  BY <1>1, FS_Subset
<1>3. I \cap (R \cup B) # {} => I # N
  OBVIOUS
<1>4. Cardinality(A \cup new) = Cardinality(A) + Cardinality(new) - 0
  BY FS_Union, FS_EmptySet
<1>5. B \cup (I \ R) = B \cup N /\ B \cap N = {}
  OBVIOUS
<1>6. Cardinality(B \cup N) = Cardinality(B) + Cardinality(N) - 0
  BY <1>2, <1>5, FS_Union, FS_EmptySet
<1>7. /\ Cardinality(A) \in Nat /\ Cardinality(B) \in Nat /\ Cardinality(I) \in Nat
      /\ Cardinality(N) \in Nat
  BY <1>2, FS_CardinalityType
<1> HIDE DEF N
<1>8. Cardinality(B \cup (I \ R)) = Cardinality(B) + Cardinality(N)
  <2>1. Cardinality(B \cup N) = Cardinality(B) + Cardinality(N)
    BY <1>6, <1>7
  <2> QED
    BY <1>5, <2>1
<1>9. I \cap (R \cup B) # {} => Cardinality(N) + 1 <= Cardinality(I)
  <2> SUFFICES ASSUME I # N PROVE Cardinality(N) + 1 <= Cardinality(I)
    BY <1>3
  <2> QED
    BY <1>2, <1>7
<1>10. Cardinality(A \cup new) = Cardinality(A) + Cardinality(I)
  BY <1>4, <1>7
<1>11. Cardinality(A \cup new) - Cardinality(B \cup (I \ R)) >= Cardinality(A) - Cardinality(B)
  BY <1>2, <1>7, <1>8, <1>10
<1>12. ASSUME I \cap (R \cup B) # {}
       PROVE  Cardinality(A \cup new) - Cardinality(B \cup (I \ R)) >= Cardinality(A) - Cardinality(B) + 1
  <2>1. Cardinality(N) + 1 <= Cardinality(I)
    BY <1>9, <1>12
  <2> QED
    BY <1>7, <1>8, <1>10, <2>1
<1> QED
  BY <1>11, <1>12

\* What is counted is finite.
LEMMA Counts ==
  ASSUME TypeOK, InFlight, NEW base \in Nat, NEW m \in Int
  PROVE  /\ IsFiniteSet(Flying(base, m)) /\ IsFiniteSet(LinksOf(base, m))
         /\ IsFiniteSet(Unheard(base, m)) /\ IsFiniteSet(interfaces)
         /\ Cardinality(Flying(base, m)) \in Nat /\ Cardinality(Unheard(base, m)) \in Nat
<1>1. Flying(base, m) \in SUBSET network /\ IsFiniteSet(network)
  BY DEF Flying, InFlight
<1>2. LinksOf(base, m) \in SUBSET Links /\ Unheard(base, m) \in SUBSET Links
  BY DEF LinksOf, Unheard, Flying, TypeOK, Copy
<1>3. interfaces \in SUBSET Links
  BY DEF TypeOK
<1> QED
  BY <1>1, <1>2, <1>3, LinksAssumption, FS_Subset, FS_CardinalityType

\* The silence since a neighbor was heard of is short.
LEMMA SilenceIsShort ==
  ASSUME TypeOK, NeverSilent, InFlight, NEW u \in Nat, NEW base \in Nat, NEW k, HeardAt(u, base, k)
  PROVE  now <= u + (faults + 1) * HelloInterval + MaxDelay
<1>1. /\ now \in Nat /\ nextSeqnum \in Nat /\ faults \in Nat /\ HelloInterval \in Nat /\ MaxDelay \in Nat
      /\ base < nextSeqnum /\ lastBroadcast \in Nat
  BY TimersAssumption DEF TypeOK, HeardAt, LastHeard, Time
<1> DEFINE n == nextSeqnum - 1 - base
<1>2. n \in Nat /\ (n + 1) * HelloInterval = n * HelloInterval + HelloInterval
  BY <1>1, Monotone
<1>3. lastBroadcast <= u + n * HelloInterval /\ now <= lastBroadcast + HelloInterval
  BY DEF HeardAt, LastHeard, NeverSilent
<1>4. CASE n <= faults
  <2>1. (n + 1) * HelloInterval <= (faults + 1) * HelloInterval
    BY <1>1, <1>2, <1>4, Monotone
  <2> HIDE DEF n
  <2>2. (n + 1) * HelloInterval \in Int /\ (faults + 1) * HelloInterval \in Int /\ n * HelloInterval \in Int
    BY <1>1, <1>2
  <2> QED
    BY <1>1, <1>2, <1>3, <2>1, <2>2
<1>5. CASE n > faults
  <2> DEFINE m == base + faults + 1
  <2>1. m \in base .. nextSeqnum - 1 /\ m \in Int /\ m - base = faults + 1
    BY <1>1, <1>5
  <2>2. m - base + Cardinality(Unheard(base, m)) <= faults + Cardinality(Flying(base, m))
    BY <2>1 DEF HeardAt, MissesPaid
  <2>3. Cardinality(Unheard(base, m)) \in Nat /\ Cardinality(Flying(base, m)) \in Nat
    BY <2>1, Counts
  <2> HIDE DEF m
  <2>4. Cardinality(Flying(base, m)) # 0
    BY <1>1, <2>1, <2>2, <2>3
  <2>5. PICK c : c \in Flying(base, m)
    BY <2>4, FS_EmptySet
  <2>6. c \in network /\ c.seqnum > base /\ c.seqnum <= m /\ c.seqnum \in Nat /\ c.sent \in Nat
    BY <2>5, <2>1 DEF Flying, TypeOK, Copy
  <2>7. c.sent <= u + (c.seqnum - base) * HelloInterval /\ now <= c.sent + MaxDelay
    BY <2>6 DEF HeardAt, LastHeard, InFlight
  <2>8. /\ (c.seqnum - base) * HelloInterval <= (faults + 1) * HelloInterval
        /\ (c.seqnum - base) * HelloInterval \in Nat
    <3>1. c.seqnum - base \in Nat /\ faults + 1 \in Nat /\ c.seqnum - base <= faults + 1
      BY <1>1, <2>1, <2>6
    <3> QED
      BY <1>1, <3>1, Monotone
  <2>9. (faults + 1) * HelloInterval \in Int
    BY <1>1
  <2> QED
    BY <1>1, <2>6, <2>7, <2>8, <2>9
<1> QED
  BY <1>1, <1>2, <1>4, <1>5

\* Copies arrive in time, and interfaces that are down were faults, after every step.
LEMMA InFlightStep ==
  ASSUME TypeOK, InFlight, [Next]_vars
  PROVE  InFlight'
<1>1. /\ IsFiniteSet(network) /\ interfaces # {} /\ faults <= MaxFaults /\ faults \in Nat
      /\ interfaces # Links => faults >= 1
      /\ now \in Nat /\ MaxDelay \in Nat /\ MaxFaults \in Nat /\ nextSeqnum \in Nat
      /\ network \subseteq Copy /\ interfaces \subseteq Links
      /\ network # {} => lastBroadcast # Never
      /\ \A c \in network : c.seqnum < nextSeqnum /\ c.sent <= now /\ now <= c.sent + MaxDelay
  BY TimersAssumption, BoundsAssumption DEF InFlight, TypeOK
<1>2. ASSUME Broadcast, UNCHANGED <<now, interfaces, faults>> PROVE InFlight'
  <2> DEFINE new == {[link |-> l, seqnum |-> nextSeqnum, sent |-> now] : l \in interfaces}
  <2>1. network' = network \cup new /\ nextSeqnum' = nextSeqnum + 1 /\ lastBroadcast' = now
    BY <1>2 DEF Broadcast
  <2>2. IsFiniteSet(interfaces)
    BY <1>1, LinksAssumption, FS_Subset
  <2>3. IsFiniteSet(new)
    <3>1. \A c \in new : c.link \in interfaces
      OBVIOUS
    <3>2. \A c, d \in new : c.link = d.link => c = d
      OBVIOUS
    <3>3. \A l \in interfaces : \E c \in new : c.link = l
      <4> SUFFICES ASSUME NEW l \in interfaces PROVE \E c \in new : c.link = l
        OBVIOUS
      <4> DEFINE copy == [link |-> l, seqnum |-> nextSeqnum, sent |-> now]
      <4>1. copy \in new /\ copy.link = l
        OBVIOUS
      <4> HIDE DEF copy, new
      <4> QED
        BY <4>1
    <3> HIDE DEF new
    <3> QED
      BY <2>2, <3>1, <3>2, <3>3, CopiesCounted
  <2>4. \A c \in new : c.seqnum = nextSeqnum /\ c.sent = now
    OBVIOUS
  <2> HIDE DEF new
  <2>5. IsFiniteSet(network')
    BY <1>1, <2>1, <2>3, FS_Union
  <2>6. ASSUME NEW c \in network'
        PROVE  c.seqnum < nextSeqnum' /\ c.sent <= now' /\ now' <= c.sent + MaxDelay
    <3>1. CASE c \in network
      <4>1. c.seqnum \in Nat
        BY <1>1, <3>1 DEF Copy
      <4> QED
        BY <1>1, <1>2, <2>1, <3>1, <4>1
    <3>2. CASE c \in new
      BY <1>1, <1>2, <2>1, <2>4, <3>2
    <3> QED
      BY <2>1, <2>6, <3>1, <3>2
  <2>7. lastBroadcast' # Never
    BY <1>1, <2>1 DEF Never
  <2> QED
    BY <1>1, <1>2, <2>5, <2>6, <2>7 DEF InFlight
<1>3. ASSUME network' \subseteq network, interfaces' # {}, faults' \in Nat, faults <= faults', faults' <= MaxFaults,
             interfaces' # Links => faults' >= 1,
             UNCHANGED <<now, nextSeqnum, lastBroadcast>>
      PROVE  InFlight'
  <2>1. IsFiniteSet(network')
    BY <1>1, <1>3, FS_Subset
  <2> QED
    BY <1>1, <1>3, <2>1 DEF InFlight
<1>4. CASE HelloTimerExpired
  BY <1>1, <1>2, <1>3, <1>4 DEF HelloTimerExpired, counters
<1>5. CASE ProcessWorkQueue
  BY <1>2, <1>5 DEF ProcessWorkQueue, counters
<1>6. CASE AddWorkQueueEntry \/ UNCHANGED vars
  BY <1>1, <1>3, <1>6 DEF AddWorkQueueEntry, vars, senderVars, counters
<1>7. ASSUME NEW l \in Links, NotifyInterfaceDown(l) PROVE InFlight'
  <2>1. interfaces' # {} /\ faults' = faults + 1 /\ faults' <= MaxFaults
    BY <1>1, <1>7 DEF NotifyInterfaceDown
  <2> QED
    BY <1>1, <1>3, <1>7, <2>1 DEF NotifyInterfaceDown
<1>8. ASSUME NEW l \in Links, NotifyInterfaceUp(l) PROVE InFlight'
  BY <1>1, <1>3, <1>8 DEF NotifyInterfaceUp, counters
<1>9. ASSUME NEW l \in Links, TimeoutExpired(l) PROVE InFlight'
  BY <1>1, <1>3, <1>9 DEF TimeoutExpired, senderVars, counters
<1>10. ASSUME NEW copy \in network, Receive(copy) PROVE InFlight'
  BY <1>1, <1>3, <1>10 DEF Receive, senderVars, counters
<1>11. ASSUME NEW copy \in network, Lose(copy) PROVE InFlight'
  BY <1>1, <1>3, <1>11 DEF Lose, senderVars
<1>12. CASE Tick
  <2>1. \A c \in network : c.sent \in Nat /\ now < c.sent + MaxDelay
    BY <1>1, <1>12 DEF Tick, Copy
  <2> QED
    BY <1>1, <1>12, <2>1 DEF InFlight, Tick, senderVars, counters
<1> QED
  BY <1>4, <1>5, <1>6, <1>7, <1>8, <1>9, <1>10, <1>11, <1>12 DEF Next

\* A step that leaves what is counted keeps the account.
LEMMA MissesKept ==
  ASSUME TypeOK, InFlight, NEW base \in Nat, MissesPaid(base),
         interfaces \subseteq interfaces',
         UNCHANGED <<nextSeqnum, network, pit, faults>>
  PROVE  MissesPaid(base)'
<1>1. \A m \in Int : UNCHANGED <<Flying(base, m), LinksOf(base, m), Unheard(base, m)>>
  BY DEF Flying, LinksOf, Unheard
<1>2. Promised(base) => Promised(base)'
  <2>1. LinksOf(base, nextSeqnum - 1)' = LinksOf(base, nextSeqnum - 1)
    BY DEF LinksOf, Flying
  <2> QED
    BY <2>1 DEF Promised
<1>3. nextSeqnum \in Nat
  BY DEF TypeOK
<1>4. nextSeqnum - 1 \in Int /\ \A m \in base .. nextSeqnum - 1 : m \in Int
  BY <1>3
<1>5. /\ Flying(base, nextSeqnum - 1)' = Flying(base, nextSeqnum - 1)
      /\ Unheard(base, nextSeqnum - 1)' = Unheard(base, nextSeqnum - 1)
  BY DEF Flying, LinksOf, Unheard
<1> QED
  BY <1>1, <1>2, <1>4, <1>5 DEF MissesPaid

\* An interface that goes down may break the promise, and is a fault.
LEMMA MissesDown ==
  ASSUME TypeOK, InFlight, NEW base \in Nat, MissesPaid(base), base < nextSeqnum,
         faults' = faults + 1, UNCHANGED <<nextSeqnum, network, pit>>
  PROVE  MissesPaid(base)'
<1>1. nextSeqnum \in Nat /\ faults \in Nat /\ nextSeqnum - 1 \in Int /\ nextSeqnum - 1 \in base .. nextSeqnum - 1
  BY DEF TypeOK
<1>2. ASSUME NEW m \in base .. nextSeqnum - 1
      PROVE  m - base + Cardinality(Unheard(base, m)') <= faults' + Cardinality(Flying(base, m)')
  <2>1. Flying(base, m)' = Flying(base, m) /\ Unheard(base, m)' = Unheard(base, m)
    BY DEF Flying, LinksOf, Unheard
  <2>2. m \in Int /\ Cardinality(Flying(base, m)) \in Nat /\ Cardinality(Unheard(base, m)) \in Nat
    BY Counts
  <2>3. m - base + Cardinality(Unheard(base, m)) <= faults + Cardinality(Flying(base, m))
    BY DEF MissesPaid
  <2> QED
    BY <1>1, <2>1, <2>2, <2>3
<1>3. nextSeqnum - base + Cardinality(Unheard(base, nextSeqnum - 1)') <= faults' + Cardinality(Flying(base, nextSeqnum - 1)')
  <2>1. /\ Flying(base, nextSeqnum - 1)' = Flying(base, nextSeqnum - 1)
        /\ Unheard(base, nextSeqnum - 1)' = Unheard(base, nextSeqnum - 1)
    BY DEF Flying, LinksOf, Unheard
  <2>2. /\ Cardinality(Flying(base, nextSeqnum - 1)) \in Nat
        /\ Cardinality(Unheard(base, nextSeqnum - 1)) \in Nat
    BY <1>1, Counts
  <2>3. nextSeqnum - 1 - base + Cardinality(Unheard(base, nextSeqnum - 1)) <= faults + Cardinality(Flying(base, nextSeqnum - 1))
    BY <1>1 DEF MissesPaid
  <2> QED
    BY <1>1, <2>1, <2>2, <2>3
<1> QED
  BY <1>2, <1>3 DEF MissesPaid

\* A broadcast renews the promise; one that could not be kept before was paid for.
LEMMA MissesBroadcast ==
  ASSUME TypeOK, InFlight, NEW base \in Nat, MissesPaid(base), base < nextSeqnum,
         Broadcast, UNCHANGED <<interfaces, pit, faults>>
  PROVE  MissesPaid(base)'
<1>0. PICK n \in Nat : nextSeqnum = n
  BY DEF TypeOK
<1> DEFINE new == {[link |-> l, seqnum |-> n, sent |-> now] : l \in interfaces}
           A == Flying(base, n - 1)
           B == Unheard(base, n - 1)
<1>1. n - 1 \in Int /\ n - 1 \in base .. n - 1 /\ faults \in Nat /\ network \subseteq Copy
  BY <1>0 DEF TypeOK
<1>2. network' = network \cup new /\ nextSeqnum' = n + 1
  BY <1>0 DEF Broadcast
<1>3. \A c \in network : c.seqnum \in Nat /\ c.seqnum <= n - 1
  <2>1. \A c \in network : c.seqnum \in Nat /\ c.seqnum < n
    BY <1>0, <1>1 DEF InFlight, Copy
  <2> QED
    BY <1>1, <2>1
<1>4. \A c \in new : c.seqnum = n /\ c.link \in interfaces
  OBVIOUS
<1>5. \A l \in interfaces : \E c \in new : c.link = l
  <2> SUFFICES ASSUME NEW l \in interfaces PROVE \E c \in new : c.link = l
    OBVIOUS
  <2> DEFINE copy == [link |-> l, seqnum |-> n, sent |-> now]
  <2>1. copy \in new /\ copy.link = l
    OBVIOUS
  <2> HIDE DEF copy, new
  <2> QED
    BY <2>1
<1>6. IsFiniteSet(new) /\ Cardinality(new) = Cardinality(interfaces)
  <2>1. IsFiniteSet(interfaces)
    BY <1>1, Counts
  <2>2. \A c, d \in new : c.link = d.link => c = d
    OBVIOUS
  <2> HIDE DEF new
  <2> QED
    BY <1>4, <1>5, <2>1, <2>2, CopiesCounted
<1> HIDE DEF new
<1>7. ASSUME NEW m \in base .. n - 1
      PROVE  m - base + Cardinality(Unheard(base, m)') <= faults' + Cardinality(Flying(base, m)')
  <2>1. m \in Int /\ m < n
    BY <1>1
  <2>2. Flying(base, m)' = Flying(base, m)
    BY <1>1, <1>2, <1>4, <2>1 DEF Flying
  <2>3. Unheard(base, m)' = Unheard(base, m)
    BY <2>2 DEF LinksOf, Unheard
  <2> QED
    BY <1>0, <2>2, <2>3 DEF MissesPaid
<1>8. Flying(base, n)' = A \cup new
  BY <1>1, <1>2, <1>3, <1>4 DEF Flying
<1>9. Unheard(base, n)' = B \cup (interfaces \ pit.routes)
  <2>1. LinksOf(base, n)' = LinksOf(base, n - 1) \cup interfaces
    BY <1>4, <1>5, <1>8 DEF LinksOf
  <2> QED
    BY <2>1 DEF Unheard
<1>10. A \cap new = {}
  <2>1. \A c \in A : c.seqnum \in Nat /\ c.seqnum <= n - 1
    BY <1>3 DEF Flying
  <2> HIDE DEF A
  <2> QED
    BY <1>1, <1>4, <2>1
<1>11. /\ IsFiniteSet(A) /\ IsFiniteSet(B) /\ IsFiniteSet(interfaces)
       /\ Cardinality(A) \in Nat /\ Cardinality(B) \in Nat
  BY <1>1, Counts
<1>12. n - 1 - base + Cardinality(B) <= faults + Cardinality(A)
  BY <1>0, <1>1 DEF MissesPaid
<1>13. interfaces \cap (pit.routes \cup B) = {} => n - base + Cardinality(B) <= faults + Cardinality(A)
  <2>1. pit.routes \cup B = pit.routes \cup LinksOf(base, n - 1)
    BY DEF Unheard
  <2> QED
    BY <1>0, <2>1 DEF MissesPaid, Promised
<1> HIDE DEF A, B
<1> DEFINE U == B \cup (interfaces \ pit.routes)
           F == A \cup new
<1>14. /\ Cardinality(F) - Cardinality(U) >= Cardinality(A) - Cardinality(B)
       /\ interfaces \cap (pit.routes \cup B) # {} =>
              Cardinality(F) - Cardinality(U) >= Cardinality(A) - Cardinality(B) + 1
  BY <1>6, <1>10, <1>11, Gain
<1>15. Cardinality(F) \in Nat /\ Cardinality(U) \in Nat
  <2>1. IsFiniteSet(interfaces \ pit.routes)
    BY <1>11, FS_Subset
  <2> QED
    BY <1>6, <1>11, <2>1, FS_Union, FS_CardinalityType
<1> HIDE DEF U, F
<1>16. n - base + Cardinality(U) <= faults + Cardinality(F)
  <2>1. CASE interfaces \cap (pit.routes \cup B) # {}
    <3>1. Cardinality(F) - Cardinality(U) >= Cardinality(A) - Cardinality(B) + 1
      BY <1>14, <2>1
    <3> QED
      BY <1>1, <1>11, <1>12, <1>15, <3>1
  <2>2. CASE interfaces \cap (pit.routes \cup B) = {}
    BY <1>1, <1>11, <1>13, <1>14, <1>15, <2>2
  <2> QED
    BY <2>1, <2>2
<1>17. Promised(base)'
  <2>1. interfaces' = interfaces /\ interfaces # {}
    BY DEF InFlight
  <2>2. nextSeqnum' - 1 = n
    BY <1>1, <1>2
  <2>3. interfaces \subseteq LinksOf(base, n)'
    BY <1>5, <1>8 DEF LinksOf
  <2>4. LinksOf(base, nextSeqnum - 1)' = LinksOf(base, n)'
    BY <2>2 DEF LinksOf, Flying
  <2> QED
    BY <2>1, <2>3, <2>4 DEF Promised
<1>18. \A m \in base .. n + 1 - 1 : m \in base .. n - 1 \/ m = n
  BY <1>1
<1>19. n + 1 - 1 = n
  OBVIOUS
<1>20. n - base + Cardinality(Unheard(base, n)') <= faults' + Cardinality(Flying(base, n)')
  BY <1>8, <1>9, <1>16 DEF U, F
<1> QED
  BY <1>2, <1>7, <1>17, <1>18, <1>19, <1>20 DEF MissesPaid

\* One copy that is gone is one copy fewer to count, and perhaps one link.
LEMMA OneGone ==
  ASSUME TypeOK, InFlight, NEW base \in Nat, NEW m \in Int, NEW copy \in network,
         network' = network \ {copy}, pit.routes \subseteq pit'.routes
  PROVE  /\ Flying(base, m)' = Flying(base, m) \ {copy}
         /\ Unheard(base, m)' \subseteq Unheard(base, m)
         /\ Cardinality(Flying(base, m)') \in Nat /\ Cardinality(Unheard(base, m)') \in Nat
         /\ Cardinality(Flying(base, m)) <= Cardinality(Flying(base, m)') + 1
         /\ copy \notin Flying(base, m) => Flying(base, m)' = Flying(base, m)
         /\ Cardinality(Unheard(base, m)') <= Cardinality(Unheard(base, m))
         /\ Unheard(base, m)' # Unheard(base, m) =>
              Cardinality(Unheard(base, m)') + 1 <= Cardinality(Unheard(base, m))
<1>1. Flying(base, m)' = Flying(base, m) \ {copy}
  BY DEF Flying
<1>2. Unheard(base, m)' \subseteq Unheard(base, m)
  BY <1>1 DEF Unheard, LinksOf
<1>3. /\ IsFiniteSet(Flying(base, m)) /\ IsFiniteSet(Unheard(base, m))
      /\ Cardinality(Flying(base, m)) \in Nat /\ Cardinality(Unheard(base, m)) \in Nat
  BY Counts
<1> DEFINE F == Flying(base, m)
           G == Flying(base, m)'
           U == Unheard(base, m)
           V == Unheard(base, m)'
<1>4. G = F \ {copy} /\ V \in SUBSET U /\ IsFiniteSet(F) /\ IsFiniteSet(U)
  BY <1>1, <1>2, <1>3
<1>5. Cardinality(F) \in Nat /\ Cardinality(U) \in Nat
  BY <1>3
<1> HIDE DEF F, G, U, V
<1>6. IsFiniteSet(G) /\ Cardinality(G) = IF copy \in F THEN Cardinality(F) - 1 ELSE Cardinality(F)
  BY <1>4, FS_RemoveElement
<1>7. IsFiniteSet(V) /\ Cardinality(V) <= Cardinality(U) /\ (Cardinality(U) = Cardinality(V) => U = V)
  BY <1>4, FS_Subset
<1>8. Cardinality(G) \in Nat /\ Cardinality(V) \in Nat
  BY <1>6, <1>7, FS_CardinalityType
<1>9. Cardinality(F) <= Cardinality(G) + 1
  BY <1>5, <1>6, <1>8
<1>10. V # U => Cardinality(V) + 1 <= Cardinality(U)
  <2> SUFFICES ASSUME V # U PROVE Cardinality(V) + 1 <= Cardinality(U)
    OBVIOUS
  <2> QED
    BY <1>5, <1>7, <1>8
<1>11. copy \notin F => G = F
  BY <1>4
<1> QED
  BY <1>1, <1>2, <1>7, <1>8, <1>9, <1>10, <1>11 DEF F, G, U, V

\* A lost copy is a fault; if the promise was about it, its link was counted, too.
LEMMA MissesLose ==
  ASSUME TypeOK, InFlight, NEW base \in Nat, MissesPaid(base), base < nextSeqnum,
         NEW copy \in network, network' = network \ {copy}, faults' = faults + 1,
         UNCHANGED <<nextSeqnum, pit, interfaces>>
  PROVE  MissesPaid(base)'
<1>1. PICK n \in Nat : nextSeqnum = n
  BY DEF TypeOK
<1>2. faults \in Nat /\ n - 1 \in Int /\ n - 1 \in base .. n - 1
  BY <1>1 DEF TypeOK
<1>3. pit.routes \subseteq pit'.routes
  OBVIOUS
<1>4. ASSUME NEW m \in base .. n - 1
      PROVE  m - base + Cardinality(Unheard(base, m)') <= faults' + Cardinality(Flying(base, m)')
  <2>1. m \in Int
    BY <1>1
  <2>2. m - base + Cardinality(Unheard(base, m)) <= faults + Cardinality(Flying(base, m))
    BY <1>1 DEF MissesPaid
  <2>3. /\ Cardinality(Flying(base, m)') \in Nat /\ Cardinality(Unheard(base, m)') \in Nat
        /\ Cardinality(Flying(base, m)) <= Cardinality(Flying(base, m)') + 1
        /\ Cardinality(Unheard(base, m)') <= Cardinality(Unheard(base, m))
    BY <1>3, <2>1, OneGone
  <2>4. Cardinality(Flying(base, m)) \in Nat /\ Cardinality(Unheard(base, m)) \in Nat
    BY <2>1, Counts
  <2> QED
    BY <1>2, <2>1, <2>2, <2>3, <2>4
<1>5. Promised(base)' \/ n - base + Cardinality(Unheard(base, n - 1)') <= faults' + Cardinality(Flying(base, n - 1)')
  <2> DEFINE F == Cardinality(Flying(base, n - 1))
             G == Cardinality(Flying(base, n - 1)')
             U == Cardinality(Unheard(base, n - 1))
             V == Cardinality(Unheard(base, n - 1)')
  <2>1. F \in Nat /\ U \in Nat /\ G \in Nat /\ V \in Nat /\ F <= G + 1 /\ V <= U
    BY <1>2, <1>3, Counts, OneGone
  <2>2. Unheard(base, n - 1)' # Unheard(base, n - 1) => V + 1 <= U
    BY <1>2, <1>3, OneGone
  <2>3. n - 1 - base + U <= faults + F
    BY <1>1, <1>2 DEF MissesPaid
  <2>4. Promised(base) \/ n - base + U <= faults + F
    BY <1>1 DEF MissesPaid
  <2>5. ASSUME Promised(base), ~Promised(base)'
        PROVE  Unheard(base, n - 1)' # Unheard(base, n - 1)
    <3>1. LinksOf(base, nextSeqnum - 1)' = LinksOf(base, n - 1)' /\ LinksOf(base, nextSeqnum - 1) = LinksOf(base, n - 1)
      BY <1>1 DEF LinksOf, Flying
    <3>2. PICK l \in interfaces : l \in pit.routes \cup LinksOf(base, n - 1)
      BY <2>5, <3>1 DEF Promised
    <3>3. l \notin pit.routes /\ l \notin LinksOf(base, n - 1)'
      BY <2>5, <3>1 DEF Promised
    <3> QED
      BY <3>2, <3>3 DEF Unheard
  <2> HIDE DEF F, G, U, V
  <2>6. CASE Promised(base) /\ ~Promised(base)'
    <3>1. V + 1 <= U
      BY <2>2, <2>5, <2>6
    <3>2. n - base + V <= faults' + G
      BY <1>1, <1>2, <2>1, <2>3, <3>1
    <3> QED
      BY <3>2 DEF V, G
  <2>7. CASE ~Promised(base)
    <3>1. n - base + V <= faults' + G
      BY <1>1, <1>2, <2>1, <2>4, <2>7
    <3> QED
      BY <3>1 DEF V, G
  <2> QED
    BY <2>6, <2>7
<1>6. nextSeqnum' = n
  BY <1>1
<1> QED
  BY <1>1, <1>4, <1>5, <1>6 DEF MissesPaid

\* The PIT aggregates the first copy over a link that is new to its entry, and no other.
LEMMA MissesAggregated ==
  ASSUME TypeOK, InFlight, NEW base \in Nat, MissesPaid(base), base < nextSeqnum,
         NEW copy \in network, network' = network \ {copy},
         copy.link \notin pit.routes, pit'.routes = pit.routes \cup {copy.link},
         UNCHANGED <<nextSeqnum, interfaces, faults>>
  PROVE  MissesPaid(base)'
<1>1. PICK n \in Nat : nextSeqnum = n
  BY DEF TypeOK
<1>2. faults \in Nat /\ n - 1 \in Int /\ n - 1 \in base .. n - 1
  BY <1>1 DEF TypeOK
<1>3. ASSUME NEW m \in Int
      PROVE  Cardinality(Unheard(base, m)') - Cardinality(Flying(base, m)')
               <= Cardinality(Unheard(base, m)) - Cardinality(Flying(base, m))
  <2> DEFINE F == Cardinality(Flying(base, m))
             G == Cardinality(Flying(base, m)')
             U == Cardinality(Unheard(base, m))
             V == Cardinality(Unheard(base, m)')
  <2>1. F \in Nat /\ U \in Nat /\ G \in Nat /\ V \in Nat /\ F <= G + 1 /\ V <= U
    BY Counts, OneGone
  <2>2. Unheard(base, m)' # Unheard(base, m) => V + 1 <= U
    BY OneGone
  <2>3. CASE copy \in Flying(base, m)
    <3>1. copy.link \in Unheard(base, m) /\ copy.link \notin Unheard(base, m)'
      BY <2>3 DEF Unheard, LinksOf
    <3>2. V + 1 <= U
      BY <2>2, <3>1
    <3> HIDE DEF F, G, U, V
    <3>3. V - G <= U - F
      BY <2>1, <3>2
    <3> QED
      BY <3>3 DEF F, G, U, V
  <2>4. CASE copy \notin Flying(base, m)
    <3>1. G = F
      BY <2>4, OneGone
    <3> HIDE DEF F, G, U, V
    <3>2. V - G <= U - F
      BY <2>1, <3>1
    <3> QED
      BY <3>2 DEF F, G, U, V
  <2> QED
    BY <2>3, <2>4
<1>4. ASSUME NEW m \in Int, NEW d \in Int,
             d + Cardinality(Unheard(base, m)) <= faults + Cardinality(Flying(base, m))
      PROVE  d + Cardinality(Unheard(base, m)') <= faults' + Cardinality(Flying(base, m)')
  <2>1. Cardinality(Flying(base, m)) \in Nat /\ Cardinality(Unheard(base, m)) \in Nat
    BY Counts
  <2>2. Cardinality(Flying(base, m)') \in Nat /\ Cardinality(Unheard(base, m)') \in Nat
    BY OneGone
  <2>3. Cardinality(Unheard(base, m)') - Cardinality(Flying(base, m)')
               <= Cardinality(Unheard(base, m)) - Cardinality(Flying(base, m))
    BY <1>3
  <2> QED
    BY <1>2, <1>4, <2>1, <2>2, <2>3
<1>5. ASSUME NEW m \in base .. n - 1
      PROVE  m - base + Cardinality(Unheard(base, m)') <= faults' + Cardinality(Flying(base, m)')
  <2>1. m \in Int /\ m - base \in Int
    BY <1>1
  <2>2. m - base + Cardinality(Unheard(base, m)) <= faults + Cardinality(Flying(base, m))
    BY <1>1 DEF MissesPaid
  <2> QED
    BY <1>4, <2>1, <2>2
<1>6. Promised(base) => Promised(base)'
  <2>1. LinksOf(base, nextSeqnum - 1) \subseteq LinksOf(base, nextSeqnum - 1)' \cup {copy.link}
    BY DEF LinksOf, Flying
  <2> QED
    BY <2>1 DEF Promised
<1>7. n - base \in Int
  BY <1>1
<1>8. Promised(base)' \/ n - base + Cardinality(Unheard(base, n - 1)') <= faults' + Cardinality(Flying(base, n - 1)')
  <2>1. Promised(base) \/ n - base + Cardinality(Unheard(base, n - 1)) <= faults + Cardinality(Flying(base, n - 1))
    BY <1>1 DEF MissesPaid
  <2> QED
    BY <1>2, <1>4, <1>6, <1>7, <2>1
<1>9. nextSeqnum' = n
  BY <1>1
<1> QED
  BY <1>1, <1>5, <1>8, <1>9 DEF MissesPaid

\* A payload NFP knows of is not counted, so its copies do not matter.
LEMMA MissesOld ==
  ASSUME TypeOK, InFlight, NEW base \in Nat, MissesPaid(base),
         NEW copy \in network, network' = network \ {copy}, copy.seqnum <= base,
         pit'.routes = pit.routes, UNCHANGED <<nextSeqnum, interfaces, faults>>
  PROVE  MissesPaid(base)'
<1>1. copy.seqnum \in Nat
  BY DEF TypeOK, Copy
<1>2. \A m \in Int : Flying(base, m)' = Flying(base, m)
  BY <1>1 DEF Flying
<1>3. \A m \in Int : LinksOf(base, m)' = LinksOf(base, m) /\ Unheard(base, m)' = Unheard(base, m)
  BY <1>2 DEF LinksOf, Unheard
<1>4. PICK n \in Nat : nextSeqnum = n
  BY DEF TypeOK
<1>5. n - 1 \in Int /\ \A m \in base .. n - 1 : m \in Int
  BY <1>4
<1>6. nextSeqnum' = n
  BY <1>4
<1>7. Promised(base)' <=> Promised(base)
  BY <1>3, <1>4, <1>5, <1>6 DEF Promised
<1>8. MissesPaid(base)' <=> MissesPaid(base)
  BY <1>2, <1>3, <1>4, <1>5, <1>6, <1>7 DEF MissesPaid
<1> QED
  BY <1>8

\* What the PIT does with a copy, if Interests live at all: its entry keeps every link.
LEMMA Gate ==
  ASSUME TypeOK, Lifetime > 0, NEW copy \in network, Receive(copy)
  PROVE  /\ copy.link \in Links /\ copy.seqnum \in Nat
         /\ pit'.routes = pit.routes \cup {copy.link}
         /\ network' = network \ {copy} /\ UNCHANGED <<now, senderVars, counters>>
         /\ IF pit.routes = {} \/ copy.link \in pit.routes
            THEN ReceiveHello(copy.link, copy.seqnum)
            ELSE UNCHANGED <<neighbor, newest>>
<1>1. now \in Nat /\ Lifetime \in Nat /\ pit \in P!Entry /\ network \subseteq Copy
  BY TimersAssumption DEF TypeOK
<1> DEFINE extended == P!Extend(pit, now + Lifetime)
<1>2. /\ extended.routes = pit.routes /\ extended.expiry \in Nat /\ extended.expiry > now
      /\ extended \in P!Entry
  BY <1>1 DEF P!Extend, P!Entry, P!Later, P!Time, P!Never
<1>3. P!Cleaned(extended) = extended
  <2> HIDE DEF extended
  <2> QED
    BY <1>1, <1>2 DEF P!Cleaned, P!IsExpired, P!Never
<1>4. P!Verdict(extended, copy.link) = "Forward" <=> pit.routes = {} \/ copy.link \in pit.routes
  BY <1>2 DEF P!Verdict
<1>5. pit' = [extended EXCEPT !.routes = @ \cup {copy.link}]
  BY <1>3 DEF Receive
<1>6. pit'.routes = pit.routes \cup {copy.link}
  <2> HIDE DEF extended
  <2> QED
    BY <1>2, <1>5 DEF P!Entry
<1>7. IF pit.routes = {} \/ copy.link \in pit.routes
      THEN ReceiveHello(copy.link, copy.seqnum)
      ELSE UNCHANGED <<neighbor, newest>>
  BY <1>3, <1>4 DEF Receive
<1> QED
  BY <1>1, <1>6, <1>7 DEF Receive, Copy

\* NFP accepts a payload over a link it has no entry for, and one that is newer than the
\* newest over that link; every other leaves the entries alone.
LEMMA Accepted ==
  ASSUME TypeOK, SeqnumsAgree, NumbersComparable, NEW copy \in network,
         ReceiveHello(copy.link, copy.seqnum)
  PROVE  \/ /\ neighbor'[copy.link].state = "up"
            /\ neighbor'[copy.link].expiry = now + NeighborTimeout
            /\ newest'[copy.link] = copy.seqnum
            /\ \A l \in Links \ {copy.link} : neighbor'[l] = neighbor[l] /\ newest'[l] = newest[l]
         \/ /\ UNCHANGED <<neighbor, newest>>
            /\ neighbor[copy.link] # NoEntry /\ copy.seqnum <= newest[copy.link]
<1>1. /\ copy.link \in Links /\ copy.seqnum \in Nat
      /\ neighbor \in [Links -> Neighbor] /\ newest \in [Links -> Nat]
  BY DEF TypeOK, Copy
<1> DEFINE l == copy.link
           n == copy.seqnum
<1>2. CASE neighbor[l] = NoEntry
  <2>1. /\ neighbor' = [neighbor EXCEPT ![l] = Created(Uint16(n))]
        /\ newest' = [newest EXCEPT ![l] = n]
    BY <1>2 DEF ReceiveHello
  <2>2. Created(Uint16(n)).state = "up" /\ Created(Uint16(n)).expiry = now + NeighborTimeout
    BY DEF Created
  <2> HIDE DEF l, n
  <2>3. /\ neighbor'[l] = Created(Uint16(n)) /\ newest'[l] = n
        /\ \A k \in Links \ {l} : neighbor'[k] = neighbor[k] /\ newest'[k] = newest[k]
    BY <1>1, <2>1 DEF l
  <2> QED
    BY <2>2, <2>3 DEF l, n
<1>3. CASE neighbor[l] # NoEntry /\ IsHelloInOrder(neighbor[l], Uint16(n))
  <2>1. /\ neighbor' = [neighbor EXCEPT ![l] = Refreshed(@, Uint16(n))]
        /\ newest' = [newest EXCEPT ![l] = n]
    BY <1>3 DEF ReceiveHello
  <2>2. neighbor[l] \in Entry
    BY <1>1, <1>3 DEF Neighbor
  <2>3. /\ Refreshed(neighbor[l], Uint16(n)).state = "up"
        /\ Refreshed(neighbor[l], Uint16(n)).expiry = now + NeighborTimeout
    BY <2>2 DEF Refreshed, Entry
  <2> HIDE DEF l, n
  <2>4. /\ neighbor'[l] = Refreshed(neighbor[l], Uint16(n)) /\ newest'[l] = n
        /\ \A k \in Links \ {l} : neighbor'[k] = neighbor[k] /\ newest'[k] = newest[k]
    BY <1>1, <2>1 DEF l
  <2> QED
    BY <2>3, <2>4 DEF l, n
<1>4. CASE neighbor[l] # NoEntry /\ ~IsHelloInOrder(neighbor[l], Uint16(n))
  <2>1. UNCHANGED <<neighbor, newest>>
    BY <1>4 DEF ReceiveHello
  <2>2. newest[l] \in Nat /\ -Half16 < newest[l] - n /\ newest[l] - n < Half16
    BY <1>1, <1>4 DEF NumbersComparable
  <2>3. neighbor[l].seqnum = Uint16(newest[l])
    BY <1>1, <1>4 DEF SeqnumsAgree
  <2>4. Compare(Uint16(newest[l]), Uint16(n), Half16) = Sign(newest[l] - n)
    BY <1>1, <2>2, CompareCorrect DEF Uint16, Halves
  <2>5. ~(Sign(newest[l] - n) < 0)
    BY <1>4, <2>3, <2>4 DEF IsHelloInOrder
  <2>6. n <= newest[l]
    BY <1>1, <2>2, <2>5 DEF Sign
  <2> QED
    BY <1>4, <2>1, <2>6
<1> QED
  BY <1>2, <1>3, <1>4

\* An accepted payload starts a new account: nothing newer was sent.
LEMMA HeardAgain ==
  ASSUME TypeOK, InFlight, StillHeard, NEW copy \in network, copy.link \in Links,
         neighbor'[copy.link].state = "up",
         neighbor'[copy.link].expiry = now + NeighborTimeout,
         newest'[copy.link] = copy.seqnum,
         \A l \in Links \ {copy.link} : neighbor'[l] = neighbor[l] /\ newest'[l] = newest[l],
         network' = network \ {copy}, pit'.routes = pit.routes \cup {copy.link},
         UNCHANGED <<now, senderVars, counters>>
  PROVE  HeardAt(now, nextSeqnum - 1, copy.link)'
<1>1. /\ now \in Nat /\ nextSeqnum \in Nat /\ lastBroadcast \in Nat /\ lastBroadcast <= now
      /\ faults \in Nat /\ newest \in [Links -> Nat] /\ HelloInterval \in Nat
  BY TimersAssumption DEF TypeOK, InFlight, Time
<1>2. \A c \in network : c.seqnum \in Nat /\ c.seqnum <= nextSeqnum - 1
  <2>1. \A c \in network : c.seqnum \in Nat /\ c.seqnum < nextSeqnum
    BY DEF TypeOK, InFlight, Copy
  <2> QED
    BY <1>1, <2>1
<1>3. PICK n \in Nat, t \in Nat, k \in Links : n = nextSeqnum - 1 /\ t = now /\ k = copy.link
  <2>1. nextSeqnum - 1 \in Nat
    BY <1>1, <1>2
  <2> QED
    BY <1>1, <2>1
<1>4. nextSeqnum' = n + 1 /\ now' = t /\ lastBroadcast' = lastBroadcast /\ faults' = faults /\ interfaces' = interfaces
  BY <1>1, <1>3 DEF senderVars, counters
<1>5. \A l \in Links : neighbor'[l] # NoEntry => newest'[l] <= n
  <2> SUFFICES ASSUME NEW l \in Links, neighbor'[l] # NoEntry PROVE newest'[l] <= n
    OBVIOUS
  <2>1. CASE l = copy.link
    BY <1>2, <1>3, <2>1
  <2>2. CASE l # copy.link
    <3>1. neighbor[l] # NoEntry /\ newest'[l] = newest[l]
      BY <2>2
    <3>2. PICK u \in Nat, base \in Nat, j \in Links : HeardAt(u, base, j)
      BY <3>1 DEF StillHeard, Known
    <3>3. newest[l] <= base /\ base < nextSeqnum
      BY <3>1, <3>2 DEF HeardAt, LastHeard
    <3> QED
      BY <1>1, <1>3, <3>1, <3>3
  <2> QED
    BY <2>1, <2>2
<1>6. \A c \in network' : ~(c.seqnum > n)
  BY <1>1, <1>2, <1>3
<1>7. \A m \in Int : m <= n => Flying(n, m)' = {}
  <2> SUFFICES ASSUME NEW m \in Int, m <= n, NEW c \in network', n < c.seqnum, c.seqnum <= m PROVE FALSE
    BY DEF Flying
  <2>1. c.seqnum \in Nat
    BY <1>2
  <2> QED
    BY <2>1
<1>8. Flying(n, n)' = {} /\ LinksOf(n, n)' = {} /\ Unheard(n, n)' = {}
  BY <1>7 DEF LinksOf, Unheard
<1>9. Cardinality(Flying(n, n)') = 0 /\ Cardinality(Unheard(n, n)') = 0
  BY <1>8, FS_EmptySet
<1>10. LastHeard(t, n, k)'
  <2>1. n - n = 0 /\ n + 1 - 1 - n = 0 /\ 0 * HelloInterval = 0 /\ t + 0 = t /\ n < n + 1 /\ t <= t
    BY <1>1
  <2>2. lastBroadcast # Never /\ lastBroadcast <= t + 0 * HelloInterval
    BY <1>1, <1>3, <2>1 DEF Never
  <2>3. neighbor'[k].state = "up" /\ neighbor'[k].expiry = t + NeighborTimeout /\ pit'.routes # {}
    BY <1>3
  <2>4. t <= now' /\ n < nextSeqnum' /\ lastBroadcast' # Never
    BY <1>4, <2>1, <2>2
  <2>5. lastBroadcast' <= t + (nextSeqnum' - 1 - n) * HelloInterval
    BY <1>4, <2>1, <2>2
  <2>6. \A c \in network' : c.seqnum > n => c.sent <= t + (c.seqnum - n) * HelloInterval
    BY <1>6
  <2> QED
    BY <1>5, <2>3, <2>4, <2>5, <2>6 DEF LastHeard
<1>11. Promised(n)' \/ faults >= 1
  <2>1. CASE copy.link \in interfaces
    BY <1>4, <2>1 DEF Promised
  <2>2. CASE copy.link \notin interfaces
    BY <2>2 DEF InFlight
  <2> QED
    BY <2>1, <2>2
<1>12. MissesPaid(n)'
  <2>1. n + 1 - 1 = n /\ n - n = 0 /\ n + 1 - n = 1 /\ \A m \in n .. n : m = n
    OBVIOUS
  <2>2. 0 + 0 <= faults + 0 /\ (faults >= 1 => 1 + 0 <= faults + 0)
    BY <1>1
  <2> QED
    BY <1>4, <1>9, <1>11, <2>1, <2>2 DEF MissesPaid
<1>13. HeardAt(t, n, k)'
  BY <1>10, <1>12 DEF HeardAt
<1> QED
  BY <1>3, <1>4, <1>13

\* A step that is no broadcast and leaves the entry of link k leaves what NFP has heard.
LEMMA LastHeardKept ==
  ASSUME TypeOK, NEW u \in Nat, NEW base \in Nat, NEW k \in Links, LastHeard(u, base, k),
         neighbor'[k].state = "up", neighbor'[k].expiry = neighbor[k].expiry,
         \A l \in Links : neighbor'[l] # NoEntry => neighbor[l] # NoEntry /\ newest'[l] = newest[l],
         now' \in Nat, now <= now', network' \subseteq network, pit.routes \subseteq pit'.routes,
         UNCHANGED <<nextSeqnum, lastBroadcast>>
  PROVE  LastHeard(u, base, k)'
<1>1. u <= now'
  <2>1. now \in Nat /\ u <= now
    BY DEF TypeOK, LastHeard
  <2> QED
    BY <2>1
<1>2. pit'.routes # {}
  BY DEF LastHeard
<1> QED
  BY <1>1, <1>2 DEF LastHeard

\* A broadcast is at most one interval after the last one.
LEMMA LastHeardBroadcast ==
  ASSUME TypeOK, NeverSilent, NEW u \in Nat, NEW base \in Nat, NEW k \in Links,
         LastHeard(u, base, k), Broadcast, UNCHANGED <<now, pit, neighbor, newest>>
  PROVE  LastHeard(u, base, k)'
<1>1. PICK n \in Nat : nextSeqnum = n
  BY DEF TypeOK
<1>2. now \in Nat /\ HelloInterval \in Nat /\ lastBroadcast \in Nat /\ base < n
  BY <1>1, TimersAssumption DEF TypeOK, LastHeard, Time
<1>3. nextSeqnum' = n + 1 /\ lastBroadcast' = now
  BY <1>1 DEF Broadcast
<1> DEFINE d == n - 1 - base
<1>4. d \in Nat /\ (d + 1) * HelloInterval = d * HelloInterval + HelloInterval /\ d * HelloInterval \in Nat
  BY <1>2, Monotone
<1>5. lastBroadcast <= u + d * HelloInterval /\ now <= lastBroadcast + HelloInterval
  BY <1>1, <1>2 DEF LastHeard, NeverSilent
<1>6. n + 1 - 1 - base = d + 1 /\ n - base = d + 1
  BY <1>2
<1> HIDE DEF d
<1>7. now <= u + (d + 1) * HelloInterval
  BY <1>2, <1>4, <1>5
<1>8. lastBroadcast' <= u + (nextSeqnum' - 1 - base) * HelloInterval
  BY <1>3, <1>6, <1>7
<1>9. ASSUME NEW c \in network', c.seqnum > base
      PROVE  c.sent <= u + (c.seqnum - base) * HelloInterval
  <2>1. CASE c \in network
    BY <1>9, <2>1 DEF LastHeard
  <2>2. CASE c.seqnum = n /\ c.sent = now
    BY <1>6, <1>7, <2>2
  <2>3. c \in network \/ (c.seqnum = n /\ c.sent = now)
    BY <1>1 DEF Broadcast
  <2> QED
    BY <2>1, <2>2, <2>3
<1>10. /\ u <= now' /\ base < nextSeqnum' /\ lastBroadcast' # Never
  BY <1>2, <1>3 DEF LastHeard, Never
<1> QED
  BY <1>8, <1>9, <1>10 DEF LastHeard

\* A broadcast keeps the account.
LEMMA HeardAtBroadcast ==
  ASSUME TypeOK, InFlight, NeverSilent, NEW u \in Nat, NEW base \in Nat, NEW k \in Links,
         HeardAt(u, base, k), Broadcast, UNCHANGED <<now, interfaces, pit, neighbor, newest, faults>>
  PROVE  HeardAt(u, base, k)'
<1>1. base < nextSeqnum
  BY DEF HeardAt, LastHeard
<1> QED
  BY <1>1, LastHeardBroadcast, MissesBroadcast DEF HeardAt

\* So does every other step that leaves the entries.
LEMMA HeardAtQuiet ==
  ASSUME TypeOK, InFlight, NEW u \in Nat, NEW base \in Nat, NEW k \in Links, HeardAt(u, base, k),
         now' \in Nat, now <= now', network' \subseteq network, pit.routes \subseteq pit'.routes,
         UNCHANGED <<nextSeqnum, lastBroadcast, neighbor, newest>>, MissesPaid(base)'
  PROVE  HeardAt(u, base, k)'
<1>1. LastHeard(u, base, k) /\ neighbor[k].state = "up"
  BY DEF HeardAt, LastHeard
<1>2. /\ neighbor'[k].state = "up" /\ neighbor'[k].expiry = neighbor[k].expiry
      /\ \A l \in Links : neighbor'[l] # NoEntry => neighbor[l] # NoEntry /\ newest'[l] = newest[l]
  BY <1>1
<1> QED
  BY <1>1, <1>2, LastHeardKept DEF HeardAt

\* The timer of the entry that was heard of last finds it refreshed.
LEMMA HeardAtTimeout ==
  ASSUME TypeOK, InFlight, NeverSilent, NeighborTimeout > (MaxFaults + 1) * HelloInterval + MaxDelay,
         NEW u \in Nat, NEW base \in Nat, NEW k \in Links, HeardAt(u, base, k),
         NEW l \in Links, TimeoutExpired(l)
  PROVE  HeardAt(u, base, k)'
<1>1. /\ now \in Nat /\ faults \in Nat /\ neighbor \in [Links -> Neighbor] /\ HelloInterval \in Nat
      /\ MaxDelay \in Nat /\ MaxFaults \in Nat /\ NeighborTimeout \in Nat /\ faults <= MaxFaults
  BY TimersAssumption, BoundsAssumption DEF TypeOK, InFlight
<1>2. LastHeard(u, base, k) /\ neighbor[k].state = "up" /\ neighbor[k].expiry = u + NeighborTimeout
  BY DEF HeardAt, LastHeard
<1>3. neighbor[k] \in Entry
  BY <1>1, <1>2 DEF Neighbor, NoEntry
<1>4. now < neighbor[k].expiry
  <2>1. now <= u + (faults + 1) * HelloInterval + MaxDelay
    BY SilenceIsShort
  <2>2. /\ (faults + 1) * HelloInterval <= (MaxFaults + 1) * HelloInterval
        /\ (faults + 1) * HelloInterval \in Nat
    <3>1. faults + 1 \in Nat /\ MaxFaults + 1 \in Nat /\ faults + 1 <= MaxFaults + 1
      BY <1>1
    <3> QED
      BY <1>1, <3>1, Monotone
  <2>3. (MaxFaults + 1) * HelloInterval \in Int
    BY <1>1
  <2> QED
    BY <1>1, <1>2, <2>1, <2>2, <2>3
<1>5. neighbor'[k].state = "up" /\ neighbor'[k].expiry = neighbor[k].expiry
  <2>1. CASE l = k
    <3>1. neighbor'[k] = TimedOut(neighbor[k])
      BY <1>1, <2>1 DEF TimeoutExpired
    <3>2. TimedOut(neighbor[k]) = [neighbor[k] EXCEPT !.timer = neighbor[k].expiry]
      BY <1>4 DEF TimedOut
    <3> QED
      BY <1>2, <1>3, <3>1, <3>2 DEF Entry
  <2>2. CASE l # k
    BY <1>1, <1>2, <2>2 DEF TimeoutExpired
  <2> QED
    BY <2>1, <2>2
<1>6. neighbor[l] # NoEntry
  BY <1>1 DEF TimeoutExpired, NoEntry, Never
<1>7. \A j \in Links : neighbor'[j] # NoEntry => neighbor[j] # NoEntry /\ newest'[j] = newest[j]
  BY <1>1, <1>6 DEF TimeoutExpired
<1>8. LastHeard(u, base, k)'
  BY <1>1, <1>2, <1>5, <1>7, LastHeardKept DEF TimeoutExpired, senderVars
<1>9. MissesPaid(base)'
  BY MissesKept DEF HeardAt, TimeoutExpired, senderVars, counters
<1> QED
  BY <1>8, <1>9 DEF HeardAt

\* A copy that reaches the PIT: NFP hears of the neighbor again, or knows of the payload, or
\* the PIT aggregates it and opens for the link.
LEMMA ReceiveHeard ==
  ASSUME TypeOK, InFlight, SeqnumsAgree, NumbersComparable, StillHeard, Lifetime > 0,
         NEW copy \in network, Receive(copy)
  PROVE  StillHeard'
<1>1. /\ copy.link \in Links /\ copy.seqnum \in Nat
      /\ pit'.routes = pit.routes \cup {copy.link}
      /\ network' = network \ {copy} /\ UNCHANGED <<now, senderVars, counters>>
      /\ IF pit.routes = {} \/ copy.link \in pit.routes
         THEN ReceiveHello(copy.link, copy.seqnum)
         ELSE UNCHANGED <<neighbor, newest>>
  BY Gate
<1>2. /\ now \in Nat /\ nextSeqnum - 1 \in Nat /\ newest \in [Links -> Nat]
      /\ UNCHANGED <<nextSeqnum, lastBroadcast, interfaces, faults>>
  <2>1. nextSeqnum \in Nat /\ copy.seqnum < nextSeqnum
    BY DEF TypeOK, InFlight
  <2> QED
    BY <1>1, <2>1 DEF TypeOK, senderVars, counters
<1>3. CASE /\ neighbor'[copy.link].state = "up"
           /\ neighbor'[copy.link].expiry = now + NeighborTimeout
           /\ newest'[copy.link] = copy.seqnum
           /\ \A l \in Links \ {copy.link} : neighbor'[l] = neighbor[l] /\ newest'[l] = newest[l]
  <2>1. HeardAt(now, nextSeqnum - 1, copy.link)'
    BY <1>1, <1>3, HeardAgain
  <2>2. PICK t \in Nat, n \in Nat : t = now /\ n = nextSeqnum - 1
    BY <1>2
  <2>3. HeardAt(t, n, copy.link)'
    BY <1>1, <1>2, <2>1, <2>2
  <2> QED
    BY <1>1, <2>3 DEF StillHeard
<1>4. ASSUME UNCHANGED <<neighbor, newest>>,
             copy.link \notin pit.routes \/ (neighbor[copy.link] # NoEntry /\ copy.seqnum <= newest[copy.link]),
             Known
      PROVE  StillHeard'
  <2>1. PICK u \in Nat, base \in Nat, k \in Links : HeardAt(u, base, k)
    BY <1>4 DEF StillHeard
  <2>2. base < nextSeqnum /\ MissesPaid(base) /\ \A l \in Links : neighbor[l] # NoEntry => newest[l] <= base
    BY <2>1 DEF HeardAt, LastHeard
  <2>3. CASE copy.link \notin pit.routes
    <3>1. MissesPaid(base)'
      BY <1>1, <1>2, <2>2, <2>3, MissesAggregated
    <3>2. HeardAt(u, base, k)'
      BY <1>1, <1>2, <1>4, <2>1, <3>1, HeardAtQuiet
    <3> QED
      BY <3>2 DEF StillHeard
  <2>4. CASE copy.link \in pit.routes
    <3>1. copy.seqnum <= base /\ pit'.routes = pit.routes
      BY <1>1, <1>2, <1>4, <2>2, <2>4
    <3>2. MissesPaid(base)'
      BY <1>1, <1>2, <2>2, <3>1, MissesOld
    <3>3. HeardAt(u, base, k)'
      BY <1>1, <1>2, <1>4, <2>1, <3>2, HeardAtQuiet
    <3> QED
      BY <3>3 DEF StillHeard
  <2> QED
    BY <2>3, <2>4
<1>5. CASE ~Known /\ UNCHANGED neighbor
  BY <1>5 DEF StillHeard, Known
<1>6. CASE pit.routes = {} \/ copy.link \in pit.routes
  <2>1. ReceiveHello(copy.link, copy.seqnum)
    BY <1>1, <1>6
  <2>2. CASE /\ UNCHANGED <<neighbor, newest>>
             /\ neighbor[copy.link] # NoEntry /\ copy.seqnum <= newest[copy.link]
    BY <1>4, <1>5, <2>2
  <2> QED
    BY <1>3, <2>1, <2>2, Accepted
<1>7. CASE ~(pit.routes = {} \/ copy.link \in pit.routes)
  BY <1>1, <1>4, <1>5, <1>7
<1> QED
  BY <1>6, <1>7

\* The account is kept by every step, if the timeout is longer than the silence.
LEMMA StillHeardStep ==
  ASSUME TypeOK, InFlight, NeverSilent, SeqnumsAgree, NumbersComparable, StillHeard, Lifetime > 0,
         NeighborTimeout > (MaxFaults + 1) * HelloInterval + MaxDelay, [Next]_vars
  PROVE  StillHeard'
<1>1. now \in Nat
  BY DEF TypeOK
<1>2. ASSUME UNCHANGED neighbor, ~Known PROVE StillHeard'
  BY <1>2 DEF StillHeard, Known
<1>3. ASSUME UNCHANGED <<now, interfaces, pit, neighbor, newest, faults>>, Broadcast PROVE StillHeard'
  <2>1. CASE Known
    <3>1. PICK u \in Nat, base \in Nat, k \in Links : HeardAt(u, base, k)
      BY <2>1 DEF StillHeard
    <3>2. HeardAt(u, base, k)'
      BY <1>3, <3>1, HeardAtBroadcast
    <3> QED
      BY <3>2 DEF StillHeard
  <2> QED
    BY <1>2, <1>3, <2>1
<1>4. ASSUME now' \in Nat, now <= now', network' \subseteq network,
             UNCHANGED <<pit, nextSeqnum, lastBroadcast, neighbor, newest>>,
             \A base \in Nat : MissesPaid(base) /\ base < nextSeqnum => MissesPaid(base)'
      PROVE  StillHeard'
  <2>1. CASE Known
    <3>1. PICK u \in Nat, base \in Nat, k \in Links : HeardAt(u, base, k)
      BY <2>1 DEF StillHeard
    <3>2. MissesPaid(base)'
      BY <1>4, <3>1 DEF HeardAt, LastHeard
    <3>3. HeardAt(u, base, k)'
      BY <1>4, <3>1, <3>2, HeardAtQuiet
    <3> QED
      BY <3>3 DEF StillHeard
  <2> QED
    BY <1>2, <1>4, <2>1
<1>5. ASSUME interfaces \subseteq interfaces', now' \in Nat, now <= now',
             UNCHANGED <<nextSeqnum, lastBroadcast, network, pit, neighbor, newest, faults>>
      PROVE  StillHeard'
  <2>1. \A base \in Nat : MissesPaid(base) => MissesPaid(base)'
    BY <1>5, MissesKept
  <2> QED
    BY <1>4, <1>5, <2>1
<1>6. CASE HelloTimerExpired
  <2>1. UNCHANGED <<now, interfaces, pit, neighbor, newest, faults>>
    BY <1>6 DEF HelloTimerExpired, receiverVars, counters
  <2>2. Broadcast \/ UNCHANGED <<network, nextSeqnum, lastBroadcast>>
    BY <1>6 DEF HelloTimerExpired
  <2> QED
    BY <1>1, <1>3, <1>5, <2>1, <2>2
<1>7. CASE ProcessWorkQueue
  BY <1>3, <1>7 DEF ProcessWorkQueue, receiverVars, counters
<1>8. CASE AddWorkQueueEntry \/ Tick \/ UNCHANGED vars
  BY <1>1, <1>5, <1>8 DEF AddWorkQueueEntry, Tick, vars, senderVars, receiverVars, counters
<1>9. ASSUME NEW l \in Links, NotifyInterfaceDown(l) PROVE StillHeard'
  <2>1. faults' = faults + 1 /\ UNCHANGED <<now, nextSeqnum, lastBroadcast, network, pit, neighbor, newest>>
    BY <1>9 DEF NotifyInterfaceDown, receiverVars
  <2>2. \A base \in Nat : MissesPaid(base) /\ base < nextSeqnum => MissesPaid(base)'
    BY <2>1, MissesDown
  <2> QED
    BY <1>1, <1>4, <2>1, <2>2
<1>10. ASSUME NEW l \in Links, NotifyInterfaceUp(l) PROVE StillHeard'
  BY <1>1, <1>5, <1>10 DEF NotifyInterfaceUp, receiverVars, counters
<1>11. ASSUME NEW copy \in network, Lose(copy) PROVE StillHeard'
  <2>1. /\ faults' = faults + 1 /\ network' = network \ {copy}
        /\ UNCHANGED <<now, interfaces, nextSeqnum, lastBroadcast, pit, neighbor, newest>>
    BY <1>11 DEF Lose, senderVars, receiverVars
  <2>2. \A base \in Nat : MissesPaid(base) /\ base < nextSeqnum => MissesPaid(base)'
    BY <1>11, <2>1, MissesLose
  <2> QED
    BY <1>1, <1>4, <2>1, <2>2
<1>12. ASSUME NEW l \in Links, TimeoutExpired(l) PROVE StillHeard'
  <2>1. Known
    <3>1. neighbor[l] # NoEntry
      BY <1>1, <1>12 DEF TimeoutExpired, NoEntry, Never
    <3> QED
      BY <3>1 DEF Known
  <2>2. PICK u \in Nat, base \in Nat, k \in Links : HeardAt(u, base, k)
    BY <2>1 DEF StillHeard
  <2>3. HeardAt(u, base, k)'
    BY <1>12, <2>2, HeardAtTimeout
  <2> QED
    BY <2>3 DEF StillHeard
<1>13. ASSUME NEW copy \in network, Receive(copy) PROVE StillHeard'
  BY <1>13, ReceiveHeard
<1> QED
  BY <1>6, <1>7, <1>8, <1>9, <1>10, <1>11, <1>12, <1>13 DEF Next

\* A router that can be heard is not taken for dead, for all links, intervals and delays and
\* any number of faults: over the copies that are lost or wait to be aggregated by the PIT
\* an account is kept, so that the time since NFP last heard of it is bounded by one
\* interval for each fault, one more, and the delay.
THEOREM NfpHeard ==
  ASSUME Lifetime > 0, NeighborTimeout > (MaxFaults + 1) * HelloInterval + MaxDelay
  PROVE  Spec /\ []NumbersComparable => []Heard
<1>1. Init => InFlight /\ StillHeard /\ SeqnumsAgree
  <2>1. Init => InFlight
    BY LinksAssumption, BoundsAssumption, FS_EmptySet DEF Init, InFlight
  <2> QED
    BY <2>1 DEF Init, StillHeard, Known, SeqnumsAgree
<1>2. TypeOK /\ InFlight /\ [Next]_vars => InFlight'
  BY InFlightStep
<1>3. TypeOK /\ SeqnumsAgree /\ [Next]_vars => SeqnumsAgree'
  BY SeqnumsAgreeStep
<1>4. TypeOK /\ InFlight /\ NeverSilent /\ SeqnumsAgree /\ NumbersComparable /\ StillHeard /\ [Next]_vars => StillHeard'
  BY StillHeardStep
<1>5. StillHeard => Heard
  BY DEF StillHeard, Known, HeardAt, LastHeard, Heard
<1> QED
  BY <1>1, <1>2, <1>3, <1>4, <1>5, NfpHelloTypeCorrect, NfpNeverSilent, PTL DEF Spec

-----------------------------------------------------------------------------
(* The line of routers *)

\* The longest delay of a work queue, and of the n - 1 hops to router n
WorkLag == Longest(WorkDelays)
Lag(n)  == (n - 1) * (WorkLag + MaxDelay)

-----------------------------------------------------------------------------
(* Types *)

Row      == [known : BOOLEAN, seqnum : Nat, expiry : Int]
Timer    == [pair : Pairs, time : Int, valid : BOOLEAN]
Messages == UNION {[pairs -> Message] : pairs \in SUBSET Pairs}
Payload  == [sent : Nat, messages : Messages]

AnchorOK ==
  /\ now \in Nat
  /\ anchored \in SUBSET Pairs /\ anchorSeqnum \in Nat /\ anchorTimer \in Int
RoutesOK ==
  /\ rows \in [Router -> [Pairs -> Row]]
  /\ heap \in [Router -> SUBSET Timer] /\ keys \in [Router -> [Pairs -> Int]]
  /\ lastSent \in [Router -> [Pairs -> Int]]
QueuesOK ==
  /\ workQueue \in [Router -> SUBSET Pairs] /\ queueTimer \in [Router -> Int]
  /\ advertiseTimer \in [Router -> Int]
LinksOK == links \in [Router -> Seq(Payload)]

LineOK == AnchorOK /\ RoutesOK /\ QueuesOK /\ LinksOK

\* The constants, in the form the proofs use them.
LEMMA Constants ==
  ASSUME RouteTimersAssumption
  PROVE  /\ Routers \in Nat /\ Routers >= 1 /\ 1 \in Router
         /\ RouteTimeout \in Nat /\ Jitter \in Nat /\ 1 <= Jitter /\ Jitter < RouteTimeout
         /\ MaxDelay \in Nat /\ WorkLag \in Nat /\ 1 <= WorkLag
         /\ \A d \in WorkDelays : d \in Nat /\ 1 <= d /\ d <= WorkLag
<1>1. PICK d \in WorkDelays : \A e \in WorkDelays : e <= d
  BY DEF RouteTimersAssumption
<1>2. WorkLag \in WorkDelays /\ \A e \in WorkDelays : e <= WorkLag
  BY <1>1, Zenon DEF WorkLag, Longest
<1>3. \A e \in WorkDelays : e \in Nat /\ 1 <= e
  BY DEF RouteTimersAssumption
<1>4. QED
  BY <1>2, <1>3 DEF RouteTimersAssumption, Router

\* A timer that is set is set for the time to come.
LEMMA JitteredTimes ==
  ASSUME now \in Nat, NEW interval \in Nat, NEW jitter \in Nat, jitter <= interval
  PROVE  \A t \in JitteredFrom(interval, jitter) : t \in Nat /\ now <= t /\ t <= now + interval
BY DEF JitteredFrom, Jittered

\* What is put in the heap, and in m_keys.
LEMMA InsertTimersEffect ==
  ASSUME RouteTimersAssumption, AnchorOK, RoutesOK, NEW n \in Router, NEW pairs \in SUBSET Pairs,
         InsertTimers(n, pairs)
  PROVE  /\ heap' \in [Router -> SUBSET Timer] /\ keys' \in [Router -> [Pairs -> Int]]
         /\ lastSent' \in [Router -> [Pairs -> Int]]
         /\ \A m \in Router \ {n} :
              heap'[m] = heap[m] /\ keys'[m] = keys[m] /\ lastSent'[m] = lastSent[m]
         /\ \A p \in Pairs : lastSent'[n][p] = IF p \in pairs THEN now ELSE lastSent[n][p]
         /\ \A p \in Pairs \ pairs : keys'[n][p] = keys[n][p]
         /\ \A p \in pairs :
              /\ keys'[n][p] \in Nat /\ keys'[n][p] <= now + RouteTimeout
              /\ TimerEntry(p, keys'[n][p]) \in heap'[n]
         /\ \A e \in heap'[n] : e.valid =>
              IF e.pair \in pairs
              THEN \/ e = TimerEntry(e.pair, keys'[n][e.pair])
                   \/ e \in heap[n] /\ e # TimerEntry(e.pair, keys[n][e.pair])
              ELSE e \in heap[n]
         /\ \A e \in heap[n] : e.valid /\ e.pair \notin pairs => e \in heap'[n]
<1>1. PICK times \in [pairs -> JitteredFrom(RouteTimeout, Jitter)] :
        /\ heap' = [heap EXCEPT ![n] = Inserted(heap[n], keys[n], times)]
        /\ keys' = [keys EXCEPT ![n] = [p \in Pairs |-> IF p \in pairs THEN times[p] ELSE keys[n][p]]]
  BY DEF InsertTimers, RoutesOK
<1>2. lastSent' = [lastSent EXCEPT ![n] = [p \in Pairs |-> IF p \in pairs THEN now ELSE lastSent[n][p]]]
  BY DEF InsertTimers, RoutesOK
<1>3. \A p \in pairs : times[p] \in Nat /\ times[p] <= now + RouteTimeout
  BY <1>1, Constants, JitteredTimes DEF AnchorOK
<1> DEFINE current == {TimerEntry(p, keys[n][p]) : p \in pairs} \cap heap[n]
           new == Inserted(heap[n], keys[n], times)
<1>4. DOMAIN times = pairs
  BY <1>1
<1>5. new = (heap[n] \ current) \cup {[e EXCEPT !.valid = FALSE] : e \in current}
              \cup {TimerEntry(p, times[p]) : p \in pairs}
  BY <1>4 DEF Inserted
<1>6. heap[n] \in SUBSET Timer
  BY DEF RoutesOK
<1>7. \A e \in Timer : [e EXCEPT !.valid = FALSE] \in Timer /\ ~[e EXCEPT !.valid = FALSE].valid
  BY DEF Timer
<1>8. \A p \in pairs : TimerEntry(p, times[p]) \in Timer /\ TimerEntry(p, times[p]).pair = p
  BY <1>3 DEF Timer, TimerEntry
<1>9. new \in SUBSET Timer
  <2> HIDE DEF new
  <2>1. QED
    BY <1>5, <1>6, <1>7, <1>8
<1>10. \A p \in Pairs : keys'[n][p] = IF p \in pairs THEN times[p] ELSE keys[n][p]
  BY <1>1 DEF RoutesOK
<1>11. heap'[n] = new
  BY <1>1 DEF RoutesOK
<1>12. \A e \in new : e.valid =>
         \/ e \in heap[n] \ current
         \/ e.pair \in pairs /\ e = TimerEntry(e.pair, keys'[n][e.pair])
  <2> SUFFICES ASSUME NEW e \in new, e.valid, e \notin heap[n] \ current
               PROVE  e.pair \in pairs /\ e = TimerEntry(e.pair, keys'[n][e.pair])
    OBVIOUS
  <2> HIDE DEF new
  <2>1. e \notin {[d EXCEPT !.valid = FALSE] : d \in current}
    BY <1>6, <1>7
  <2>2. PICK p \in pairs : e = TimerEntry(p, times[p])
    BY <1>5, <2>1
  <2>3. QED
    BY <1>8, <1>10, <2>2
<1>13. \A e \in heap[n] \ current : e.pair \in pairs => e # TimerEntry(e.pair, keys[n][e.pair])
  OBVIOUS
<1>14. \A e \in heap[n] : e.pair \notin pairs => e \notin current
  BY DEF TimerEntry
<1> HIDE DEF new, current
<1>15. heap' \in [Router -> SUBSET Timer] /\ \A m \in Router \ {n} : heap'[m] = heap[m]
  BY <1>1, <1>9 DEF RoutesOK, new
<1>16. keys' \in [Router -> [Pairs -> Int]] /\ \A m \in Router \ {n} : keys'[m] = keys[m]
  BY <1>1, <1>3 DEF RoutesOK
<1>17. lastSent' \in [Router -> [Pairs -> Int]] /\ \A m \in Router \ {n} : lastSent'[m] = lastSent[m]
  BY <1>2 DEF RoutesOK, AnchorOK
<1>18. \A p \in Pairs : lastSent'[n][p] = IF p \in pairs THEN now ELSE lastSent[n][p]
  BY <1>2 DEF RoutesOK
<1>19. \A p \in pairs : TimerEntry(p, keys'[n][p]) \in heap'[n]
  BY <1>5, <1>10, <1>11
<1>20. \A e \in heap'[n] : e.valid =>
         IF e.pair \in pairs
         THEN \/ e = TimerEntry(e.pair, keys'[n][e.pair])
              \/ e \in heap[n] /\ e # TimerEntry(e.pair, keys[n][e.pair])
         ELSE e \in heap[n]
  BY <1>11, <1>12, <1>13
<1>21. \A e \in heap[n] : e.valid /\ e.pair \notin pairs => e \in heap'[n]
  BY <1>5, <1>11, <1>14
<1>22. QED
  BY <1>3, <1>10, <1>15, <1>16, <1>17, <1>18, <1>19, <1>20, <1>21

\* What is put in the work queue, and when its timer is set.
LEMMA AddWorkQueueEffect ==
  ASSUME RouteTimersAssumption, AnchorOK, QueuesOK, NEW n \in Router, NEW pairs \in SUBSET Pairs,
         AddWorkQueueEntries(n, pairs)
  PROVE  /\ workQueue' \in [Router -> SUBSET Pairs] /\ queueTimer' \in [Router -> Int]
         /\ \A m \in Router \ {n} : workQueue'[m] = workQueue[m] /\ queueTimer'[m] = queueTimer[m]
         /\ workQueue'[n] = workQueue[n] \cup pairs
         /\ IF queueTimer[n] # Never \/ pairs = {} THEN queueTimer'[n] = queueTimer[n]
            ELSE now < queueTimer'[n] /\ queueTimer'[n] <= now + WorkLag
<1>1. workQueue' = [workQueue EXCEPT ![n] = workQueue[n] \cup pairs]
  BY DEF AddWorkQueueEntries, QueuesOK
<1>2. CASE queueTimer[n] # Never \/ pairs = {}
  BY <1>1, <1>2 DEF AddWorkQueueEntries, QueuesOK
<1>3. CASE ~(queueTimer[n] # Never \/ pairs = {})
  <2>1. PICK d \in WorkDelays : queueTimer' = [queueTimer EXCEPT ![n] = now + d]
    BY <1>3 DEF AddWorkQueueEntries
  <2>2. d \in Nat /\ 1 <= d /\ d <= WorkLag /\ WorkLag \in Nat
    BY Constants
  <2>3. QED
    BY <1>1, <1>3, <2>1, <2>2 DEF QueuesOK, AnchorOK
<1>4. QED
  BY <1>2, <1>3

\* What a router is told changes the rows it is told of.
LEMMA NewRowType ==
  ASSUME RouteTimersAssumption, AnchorOK, NEW row \in Row, NEW m \in Message
  PROVE  NewRow(row, m) \in Row
BY Constants DEF NewRow, Row, Message, AnchorOK

NewPairs(n, messages)    == {p \in DOMAIN messages : ~rows[n][p].known /\ messages[p].advertise}
QueuedPairs(n, messages) == {p \in DOMAIN messages : IsQueued(rows[n][p], messages[p])}

LEMMA ReceiveEffect ==
  ASSUME RouteTimersAssumption, AnchorOK, RoutesOK, QueuesOK, NEW n \in Router,
         NEW messages \in Messages, ReceiveMessages(n, messages)
  PROVE  /\ RoutesOK' /\ workQueue' \in [Router -> SUBSET Pairs] /\ queueTimer' \in [Router -> Int]
         /\ NewPairs(n, messages) \in SUBSET Pairs /\ QueuedPairs(n, messages) \in SUBSET Pairs
         /\ \A m \in Router \ {n} : rows'[m] = rows[m]
         /\ \A p \in Pairs : rows'[n][p] =
              IF p \in DOMAIN messages THEN NewRow(rows[n][p], messages[p]) ELSE rows[n][p]
         /\ InsertTimers(n, NewPairs(n, messages)) /\ AddWorkQueueEntries(n, QueuedPairs(n, messages))
<1>1. DOMAIN messages \in SUBSET Pairs /\ \A p \in DOMAIN messages : messages[p] \in Message
  BY DEF Messages
<1>2. NewPairs(n, messages) \in SUBSET Pairs /\ QueuedPairs(n, messages) \in SUBSET Pairs
  BY <1>1 DEF NewPairs, QueuedPairs
<1> DEFINE row(p) == IF p \in DOMAIN messages THEN NewRow(rows[n][p], messages[p]) ELSE rows[n][p]
<1>3. rows' = [rows EXCEPT ![n] = [p \in Pairs |-> row(p)]]
  BY DEF ReceiveMessages, RoutesOK
<1>4. \A p \in Pairs : row(p) \in Row
  BY <1>1, NewRowType DEF RoutesOK
<1> HIDE DEF row
<1>5. rows' \in [Router -> [Pairs -> Row]] /\ \A m \in Router \ {n} : rows'[m] = rows[m]
  BY <1>3, <1>4 DEF RoutesOK
<1>6. \A p \in Pairs : rows'[n][p] = row(p)
  BY <1>3 DEF RoutesOK
<1>7. InsertTimers(n, NewPairs(n, messages)) /\ AddWorkQueueEntries(n, QueuedPairs(n, messages))
  BY DEF ReceiveMessages, NewPairs, QueuedPairs
<1>8. QED
  BY <1>2, <1>5, <1>6, <1>7, InsertTimersEffect, AddWorkQueueEffect DEF RoutesOK, row

\* What Peek finds on top is the next to be due, and not due yet.
LEMMA PoppedEntries ==
  ASSUME NEW entries \in SUBSET Timer, NEW limit \in Int
  PROVE  /\ Popped(entries, limit) \in SUBSET entries
         /\ \A e \in Popped(entries, limit) : e.valid => limit < e.time
         /\ \A e \in entries : e.valid => e \in Popped(entries, limit) \/ e \in Due(entries, limit)
         /\ Due(entries, limit) \in SUBSET entries
         /\ \A e \in Due(entries, limit) : e.valid
BY DEF Popped, Peeked, Due, Timer

\* The advertise timer is set for the time to come, and not later than anything in the heap.
LEMMA SetAdvertiseEffect ==
  ASSUME RouteTimersAssumption, AnchorOK, QueuesOK, NEW n \in Router, NEW entries \in SUBSET Timer,
         \A e \in entries : e.valid => now + Jitter < e.time,
         SetAdvertiseTimer(n, entries)
  PROVE  /\ advertiseTimer' \in [Router -> Int]
         /\ \A m \in Router \ {n} : advertiseTimer'[m] = advertiseTimer[m]
         /\ now <= advertiseTimer'[n] /\ advertiseTimer'[n] <= now + RouteTimeout
         /\ \A e \in entries : advertiseTimer'[n] <= e.time
<1>1. CASE entries = {}
  <2>1. PICK t \in JitteredFrom(RouteTimeout, Jitter) : advertiseTimer' = [advertiseTimer EXCEPT ![n] = t]
    BY <1>1 DEF SetAdvertiseTimer
  <2>2. t \in Nat /\ now <= t /\ t <= now + RouteTimeout
    BY <2>1, Constants, JitteredTimes DEF AnchorOK
  <2>3. QED
    BY <1>1, <2>1, <2>2 DEF QueuesOK
<1>2. CASE entries # {}
  <2>1. PICK top \in Tops(entries), t \in Int :
          /\ t \in JitteredFrom(Least(top.time - now, RouteTimeout),
                            Least(Least(top.time - now, RouteTimeout), Jitter))
          /\ advertiseTimer' = [advertiseTimer EXCEPT ![n] = t]
    <3>1. PICK t \in UNION {LET delta == Least(top.time - now, RouteTimeout)
                            IN  JitteredFrom(delta, Least(delta, Jitter)) : top \in Tops(entries)} :
            advertiseTimer' = [advertiseTimer EXCEPT ![n] = t]
      BY <1>2 DEF SetAdvertiseTimer
    <3>2. PICK top \in Tops(entries) :
            t \in JitteredFrom(Least(top.time - now, RouteTimeout),
                           Least(Least(top.time - now, RouteTimeout), Jitter))
      BY <3>1
    <3>3. t \in Int
      BY <3>2 DEF JitteredFrom, Jittered
    <3>4. QED
      BY <3>1, <3>2, <3>3
  <2> DEFINE delta == Least(top.time - now, RouteTimeout)
  <2>2. /\ top.time \in Int /\ now + Jitter < top.time /\ \A e \in entries : top.time <= e.time
        /\ \A e \in entries : e.time \in Int
    BY <2>1 DEF Tops, Timer
  <2>3. delta \in Nat /\ delta <= top.time - now /\ delta <= RouteTimeout
    BY <2>2, Constants DEF Least, AnchorOK
  <2>4. Least(delta, Jitter) \in Nat /\ Least(delta, Jitter) <= delta
    BY <2>3, Constants DEF Least
  <2> HIDE DEF delta
  <2>5. t \in Nat /\ now <= t /\ t <= now + delta
    BY <2>1, <2>3, <2>4, JitteredTimes DEF AnchorOK, delta
  <2>6. QED
    BY <2>1, <2>2, <2>3, <2>5, Constants DEF QueuesOK, AnchorOK
<1>3. QED
  BY <1>1, <1>2

DuePairs(n) == {e.pair : e \in Due(heap[n], now + Jitter)}

LEMMA AdvertiseTimerEffect ==
  ASSUME RouteTimersAssumption, AnchorOK, RoutesOK, QueuesOK, NEW n \in Router,
         AdvertiseTimerExpired(n), NEW due, due = DuePairs(n)
  PROVE  /\ RoutesOK' /\ QueuesOK' /\ due \in SUBSET Pairs
         /\ \A m \in Router \ {n} : heap'[m] = heap[m] /\ advertiseTimer'[m] = advertiseTimer[m]
         /\ heap'[n] \subseteq heap[n]
         /\ \A e \in heap[n] : e.valid => e \in heap'[n] \/ e.pair \in due
         /\ \A p \in due : \E e \in heap[n] : e.valid /\ e.pair = p
         /\ \A e \in heap'[n] : advertiseTimer'[n] <= e.time
         /\ now <= advertiseTimer'[n] /\ advertiseTimer'[n] <= now + RouteTimeout
         /\ AddWorkQueueEntries(n, due)
<1>1. heap[n] \in SUBSET Timer /\ now + Jitter \in Int
  BY Constants DEF RoutesOK, AnchorOK
<1> DEFINE rest == Popped(heap[n], now + Jitter)
<1>2. heap' = [heap EXCEPT ![n] = rest]
  BY DEF AdvertiseTimerExpired, RoutesOK
<1>3. /\ rest \in SUBSET heap[n] /\ \A e \in rest : e.valid => now + Jitter < e.time
      /\ \A e \in heap[n] : e.valid => e \in rest \/ e.pair \in due
      /\ \A p \in due : \E e \in heap[n] : e.valid /\ e.pair = p
  <2>1. /\ rest \in SUBSET heap[n] /\ \A e \in rest : e.valid => now + Jitter < e.time
        /\ \A e \in heap[n] : e.valid => e \in rest \/ e \in Due(heap[n], now + Jitter)
        /\ Due(heap[n], now + Jitter) \in SUBSET heap[n]
        /\ \A e \in Due(heap[n], now + Jitter) : e.valid
    BY ONLY <1>1, PoppedEntries
  <2>2. due = {e.pair : e \in Due(heap[n], now + Jitter)}
    BY DEF DuePairs
  <2> HIDE DEF rest
  <2>3. QED
    BY <2>1, <2>2
<1>4. SetAdvertiseTimer(n, rest) /\ AddWorkQueueEntries(n, due)
  BY DEF AdvertiseTimerExpired, DuePairs
<1>5. due \in SUBSET Pairs
  BY <1>1, <1>3 DEF Timer
<1> HIDE DEF rest
<1>6. /\ heap' \in [Router -> SUBSET Timer] /\ heap'[n] = rest
      /\ \A m \in Router \ {n} : heap'[m] = heap[m]
  BY <1>1, <1>2, <1>3 DEF RoutesOK
<1>7. rest \in SUBSET Timer
  BY <1>1, <1>3
<1>8. /\ advertiseTimer' \in [Router -> Int]
      /\ \A m \in Router \ {n} : advertiseTimer'[m] = advertiseTimer[m]
      /\ now <= advertiseTimer'[n] /\ advertiseTimer'[n] <= now + RouteTimeout
      /\ \A e \in rest : advertiseTimer'[n] <= e.time
  BY <1>3, <1>4, <1>7, SetAdvertiseEffect
<1>9. workQueue' \in [Router -> SUBSET Pairs] /\ queueTimer' \in [Router -> Int]
  BY <1>4, <1>5, AddWorkQueueEffect
<1>10. RoutesOK' /\ QueuesOK'
  BY <1>6, <1>8, <1>9 DEF AdvertiseTimerExpired, RoutesOK, QueuesOK
<1>11. QED
  BY <1>3, <1>4, <1>5, <1>6, <1>8, <1>10

\* What is sent on the link to the next router.
LEMMA ProcessEffect ==
  ASSUME RouteTimersAssumption, LineOK, NEW n \in Router, ProcessWorkQueueOf(n),
         NEW payload, payload = [sent |-> now, messages |-> [p \in workQueue[n] |-> MessageFor(rows[n][p])]]
  PROVE  /\ LineOK' /\ payload \in Payload /\ InsertTimers(n, workQueue[n])
         /\ \A m \in Router \ {n} : queueTimer'[m] = queueTimer[m] /\ workQueue'[m] = workQueue[m]
         /\ queueTimer'[n] = Never /\ workQueue'[n] = {}
         /\ \A m \in Router : IF m = n + 1 THEN links'[m] = Append(links[m], payload)
                              ELSE links'[m] = links[m]
<1>1. \A p \in workQueue[n] : MessageFor(rows[n][p]) \in Message
  BY DEF LineOK, QueuesOK, RoutesOK, MessageFor, Message, Advertise, Withdraw, Row
<1>2. workQueue[n] \in SUBSET Pairs
  BY DEF LineOK, QueuesOK
<1>3. payload.messages \in Messages
  BY <1>1, <1>2 DEF Messages
<1>4. payload \in Payload
  BY <1>3 DEF Payload, LineOK, AnchorOK
<1>5. InsertTimers(n, workQueue[n])
  BY DEF ProcessWorkQueueOf
<1>6. heap' \in [Router -> SUBSET Timer] /\ keys' \in [Router -> [Pairs -> Int]]
      /\ lastSent' \in [Router -> [Pairs -> Int]]
  BY <1>2, <1>5, InsertTimersEffect DEF LineOK
<1>7. links' = IF n = Routers THEN links ELSE [links EXCEPT ![n + 1] = Append(links[n + 1], payload)]
  BY DEF ProcessWorkQueueOf, LineOK, LinksOK
<1>8. LinksOK' /\ \A m \in Router : IF m = n + 1 THEN links'[m] = Append(links[m], payload)
                                    ELSE links'[m] = links[m]
  <2>1. CASE n = Routers
    BY <1>7, <2>1, Constants DEF LineOK, LinksOK, Router
  <2>2. CASE n # Routers
    <3>1. n + 1 \in Router
      BY <2>2, Constants DEF Router
    <3>2. Append(links[n + 1], payload) \in Seq(Payload)
      BY <1>4, <3>1 DEF LineOK, LinksOK
    <3>3. QED
      BY <1>7, <2>2, <3>1, <3>2 DEF LineOK, LinksOK
  <2>3. QED
    BY <2>1, <2>2
<1>9. /\ workQueue' = [workQueue EXCEPT ![n] = {}] /\ queueTimer' = [queueTimer EXCEPT ![n] = Never]
      /\ UNCHANGED <<now, anchored, anchorSeqnum, anchorTimer, rows, advertiseTimer>>
  BY DEF ProcessWorkQueueOf
<1>10. LineOK'
  BY <1>6, <1>8, <1>9 DEF LineOK, AnchorOK, RoutesOK, QueuesOK, LinksOK, Never
<1>11. QED
  BY <1>4, <1>5, <1>8, <1>9, <1>10 DEF LineOK, QueuesOK

\* What is on a link.
LEMMA PayloadType ==
  ASSUME LinksOK, NEW n \in Router, NEW i \in DOMAIN links[n]
  PROVE  /\ links[n][i].sent \in Nat /\ links[n][i].messages \in Messages
         /\ DOMAIN links[n][i].messages \subseteq Pairs
         /\ \A p \in DOMAIN links[n][i].messages : links[n][i].messages[p] \in Message
<1>1. links[n] \in Seq(Payload)
  BY DEF LinksOK
<1>2. links[n][i] \in Payload
  BY <1>1
<1>3. links[n][i].sent \in Nat /\ links[n][i].messages \in Messages
  BY <1>2 DEF Payload
<1>4. QED
  BY <1>3 DEF Messages

\* The payload a router takes from its link.
LEMMA HeadEffect ==
  ASSUME LinksOK, NEW n \in Router, links[n] # <<>>,
         links' = [links EXCEPT ![n] = Tail(links[n])]
  PROVE  /\ Head(links[n]) \in Payload /\ Head(links[n]) = links[n][1] /\ 1 \in DOMAIN links[n]
         /\ LinksOK' /\ \A m \in Router \ {n} : links'[m] = links[m]
         /\ Len(links[n]) \in Nat /\ DOMAIN links[n] = 1 .. Len(links[n])
         /\ DOMAIN links'[n] = 1 .. Len(links[n]) - 1
         /\ \A i \in DOMAIN links'[n] : i + 1 \in DOMAIN links[n] /\ links'[n][i] = links[n][i + 1]
<1>1. links[n] \in Seq(Payload)
  BY DEF LinksOK
<1>2. /\ Head(links[n]) \in Payload /\ Head(links[n]) = links[n][1] /\ 1 \in DOMAIN links[n]
      /\ Len(links[n]) \in Nat /\ DOMAIN links[n] = 1 .. Len(links[n]) /\ Tail(links[n]) \in Seq(Payload)
      /\ Len(Tail(links[n])) = Len(links[n]) - 1
      /\ \A i \in 1 .. Len(links[n]) - 1 : Tail(links[n])[i] = links[n][i + 1]
  BY <1>1
<1>3. links'[n] = Tail(links[n]) /\ LinksOK' /\ \A m \in Router \ {n} : links'[m] = links[m]
  BY <1>2 DEF LinksOK
<1>4. DOMAIN links'[n] = 1 .. Len(links[n]) - 1
  <2>1. DOMAIN links'[n] = 1 .. Len(links'[n])
    BY <1>2, <1>3 DEF LinksOK
  <2>2. QED
    BY <1>2, <1>3, <2>1
<1>5. \A i \in 1 .. Len(links[n]) - 1 : i + 1 \in 1 .. Len(links[n])
  BY <1>2
<1> QED
  BY <1>2, <1>3, <1>4, <1>5

\* What the anchor tells itself.
AnchorMessages(pairs) == [p \in pairs |-> Advertise(anchorSeqnum)]

LEMMA AnchorMessagesType ==
  ASSUME AnchorOK, NEW pairs \in SUBSET Pairs
  PROVE  /\ AnchorMessages(pairs) \in Messages /\ DOMAIN AnchorMessages(pairs) = pairs
         /\ \A p \in pairs : AnchorMessages(pairs)[p] = Advertise(anchorSeqnum)
<1>1. Advertise(anchorSeqnum) \in Message
  BY DEF AnchorOK, Advertise, Message
<1>2. QED
  BY <1>1 DEF AnchorMessages, Messages

\* The steps in which a router is told something: what, and what else they do.
Told(n, messages) ==
  /\ n \in Router /\ messages \in Messages /\ ReceiveMessages(n, messages)
  /\ UNCHANGED <<now, advertiseTimer>>

LEMMA ToldSteps ==
  ASSUME RouteTimersAssumption, LineOK
  PROVE  /\ \A p \in Pairs : AddAnchorPrefix(p) => Told(1, AnchorMessages({p}))
         /\ AnchorRouteTimerExpired =>
              \/ Told(1, AnchorMessages(anchored))
              \/ anchored = {} /\ UNCHANGED <<now, tables, queueTimer, advertiseTimer, lastSent>>
         /\ \A n \in Router : ReceivePayload(n) => Told(n, Head(links[n]).messages)
<1>1. \A p \in Pairs : AddAnchorPrefix(p) => Told(1, AnchorMessages({p}))
  BY Constants, AnchorMessagesType DEF AddAnchorPrefix, Told, AnchorMessages, LineOK
<1>2. ASSUME AnchorRouteTimerExpired
      PROVE  \/ Told(1, AnchorMessages(anchored))
             \/ anchored = {} /\ UNCHANGED <<now, tables, queueTimer, advertiseTimer, lastSent>>
  <2>1. anchored \in SUBSET Pairs
    BY DEF LineOK, AnchorOK
  <2>2. AnchorMessages(anchored) \in Messages
    BY <2>1, AnchorMessagesType DEF LineOK
  <2>3. QED
    BY <1>2, <2>2, Constants DEF AnchorRouteTimerExpired, Told, AnchorMessages
<1>3. ASSUME NEW n \in Router, ReceivePayload(n)
      PROVE  Told(n, Head(links[n]).messages)
  <2>1. Head(links[n]) \in Payload
    BY <1>3, HeadEffect DEF ReceivePayload, LineOK
  <2>2. QED
    BY <1>3, <2>1 DEF ReceivePayload, Payload, Told
<1>4. QED
  BY <1>1, <1>2, <1>3

LEMMA TypeStep ==
  ASSUME RouteTimersAssumption, LineOK, [RoutesNext]_timersVars
  PROVE  LineOK'
<1>1. ASSUME NEW n, NEW messages, Told(n, messages)
      PROVE  RoutesOK' /\ QueuesOK'
  BY <1>1, ReceiveEffect DEF LineOK, Told, QueuesOK
<1>2. ASSUME NEW p \in Pairs, AddAnchorPrefix(p)
      PROVE  LineOK'
  <2>1. RoutesOK' /\ QueuesOK'
    BY <1>1, <1>2, ToldSteps
  <2>2. QED
    BY <1>2, <2>1 DEF AddAnchorPrefix, LineOK, AnchorOK, LinksOK
<1>3. ASSUME AnchorRouteTimerExpired
      PROVE  LineOK'
  <2>1. RoutesOK' /\ QueuesOK'
    <3>1. CASE UNCHANGED <<now, tables, queueTimer, advertiseTimer, lastSent>>
      BY <3>1 DEF LineOK, RoutesOK, QueuesOK, tables
    <3>2. QED
      BY <1>1, <1>3, <3>1, ToldSteps
  <2>2. anchorTimer' \in Int
    BY <1>3, Constants, JitteredTimes DEF AnchorRouteTimerExpired, LineOK, AnchorOK
  <2>3. anchorSeqnum' \in Nat
    BY <1>3 DEF AnchorRouteTimerExpired, LineOK, AnchorOK
  <2>4. QED
    BY <1>3, <2>1, <2>2, <2>3 DEF AnchorRouteTimerExpired, LineOK, AnchorOK, LinksOK
<1>4. ASSUME NEW n \in Router, AdvertiseTimerExpired(n)
      PROVE  LineOK'
  <2>1. RoutesOK' /\ QueuesOK'
    BY <1>4, AdvertiseTimerEffect DEF LineOK
  <2>2. QED
    BY <1>4, <2>1 DEF AdvertiseTimerExpired, LineOK, AnchorOK, LinksOK
<1>5. ASSUME NEW n \in Router, ProcessWorkQueueOf(n)
      PROVE  LineOK'
  BY <1>5, ProcessEffect
<1>6. ASSUME NEW n \in Router, ReceivePayload(n)
      PROVE  LineOK'
  <2>1. RoutesOK' /\ QueuesOK'
    BY <1>1, <1>6, ToldSteps
  <2>2. LinksOK'
    BY <1>6, HeadEffect DEF ReceivePayload, LineOK
  <2>3. QED
    BY <1>6, <2>1, <2>2 DEF ReceivePayload, LineOK, AnchorOK
<1>7. ASSUME RoutesTick
      PROVE  LineOK'
  BY <1>7 DEF RoutesTick, tables, LineOK, AnchorOK, RoutesOK, QueuesOK, LinksOK
<1>8. ASSUME UNCHANGED timersVars
      PROVE  LineOK'
  BY <1>8 DEF timersVars, routeVars, tables, LineOK, AnchorOK, RoutesOK, QueuesOK, LinksOK
<1>9. QED
  BY <1>2, <1>3, <1>4, <1>5, <1>6, <1>7, <1>8 DEF RoutesNext

-----------------------------------------------------------------------------
(* Timers are set for the time to come, and nothing is ever late. *)

PunctualAt(n) ==
  /\ queueTimer[n] # Never => now <= queueTimer[n] /\ queueTimer[n] <= now + WorkLag
  /\ workQueue[n] # {} => queueTimer[n] # Never
  /\ now <= advertiseTimer[n] /\ advertiseTimer[n] <= now + RouteTimeout
OnTime(n) == \A i \in DOMAIN links[n] : links[n][i].sent <= now /\ now <= links[n][i].sent + MaxDelay
Punctual ==
  /\ now <= anchorTimer /\ anchorTimer <= now + RouteTimeout
  /\ \A n \in Router : PunctualAt(n) /\ OnTime(n)

LEMMA ToldPunctual ==
  ASSUME RouteTimersAssumption, LineOK, Punctual, NEW n, NEW messages, Told(n, messages)
  PROVE  \A m \in Router : PunctualAt(m)'
<1>1. n \in Router /\ messages \in Messages /\ ReceiveMessages(n, messages) /\ now' = now
      /\ advertiseTimer' = advertiseTimer
  BY DEF Told
<1>2. PICK queued \in SUBSET Pairs : AddWorkQueueEntries(n, queued)
  BY <1>1, ReceiveEffect DEF LineOK
<1> SUFFICES ASSUME NEW m \in Router PROVE PunctualAt(m)'
  OBVIOUS
<1>3. CASE m = n
  BY <1>1, <1>2, <1>3, AddWorkQueueEffect, Constants DEF LineOK, QueuesOK, AnchorOK, Punctual, PunctualAt, Never
<1>4. CASE m # n
  BY <1>1, <1>2, <1>4, AddWorkQueueEffect DEF LineOK, Punctual, PunctualAt
<1>5. QED
  BY <1>3, <1>4

LEMMA PunctualStep ==
  ASSUME RouteTimersAssumption, LineOK, Punctual, [RoutesNext]_timersVars
  PROVE  Punctual'
<1>1. ASSUME NEW p \in Pairs, AddAnchorPrefix(p)
      PROVE  Punctual'
  <2>1. \A m \in Router : PunctualAt(m)'
    BY <1>1, ToldSteps, ToldPunctual
  <2>2. QED
    BY <1>1, <2>1 DEF AddAnchorPrefix, Punctual, OnTime
<1>2. ASSUME AnchorRouteTimerExpired
      PROVE  Punctual'
  <2>1. \A m \in Router : PunctualAt(m)'
    BY <1>2, ToldSteps, ToldPunctual DEF Punctual, PunctualAt, tables
  <2>2. now' <= anchorTimer' /\ anchorTimer' <= now' + RouteTimeout
    BY <1>2, Constants, JitteredTimes DEF AnchorRouteTimerExpired, LineOK, AnchorOK
  <2>3. QED
    BY <1>2, <2>1, <2>2 DEF AnchorRouteTimerExpired, Punctual, OnTime
<1>3. ASSUME NEW n \in Router, AdvertiseTimerExpired(n)
      PROVE  Punctual'
  <2>1. PICK due \in SUBSET Pairs : AddWorkQueueEntries(n, due)
    BY <1>3, AdvertiseTimerEffect DEF LineOK
  <2>2. /\ now' = now /\ anchorTimer' = anchorTimer /\ links' = links
        /\ \A m \in Router \ {n} : advertiseTimer'[m] = advertiseTimer[m]
        /\ now <= advertiseTimer'[n] /\ advertiseTimer'[n] <= now + RouteTimeout
    BY <1>3, AdvertiseTimerEffect DEF AdvertiseTimerExpired, LineOK
  <2>3. ASSUME NEW m \in Router PROVE PunctualAt(m)'
    <3>1. CASE m = n
      BY <2>1, <2>2, <3>1, AddWorkQueueEffect, Constants
         DEF LineOK, QueuesOK, AnchorOK, Punctual, PunctualAt, Never
    <3>2. CASE m # n
      BY <2>1, <2>2, <3>2, AddWorkQueueEffect DEF LineOK, Punctual, PunctualAt
    <3>3. QED
      BY <3>1, <3>2
  <2>4. QED
    BY <2>2, <2>3 DEF Punctual, OnTime
<1>4. ASSUME NEW n \in Router, ProcessWorkQueueOf(n)
      PROVE  Punctual'
  <2>1. PICK payload \in Payload :
          /\ payload.sent = now
          /\ \A m \in Router \ {n} : queueTimer'[m] = queueTimer[m] /\ workQueue'[m] = workQueue[m]
          /\ queueTimer'[n] = Never /\ workQueue'[n] = {}
          /\ \A m \in Router : IF m = n + 1 THEN links'[m] = Append(links[m], payload)
                               ELSE links'[m] = links[m]
    BY <1>4, ProcessEffect
  <2>2. now' = now /\ anchorTimer' = anchorTimer /\ advertiseTimer' = advertiseTimer
    BY <1>4 DEF ProcessWorkQueueOf
  <2>3. ASSUME NEW m \in Router PROVE PunctualAt(m)'
    BY <2>1, <2>2 DEF Punctual, PunctualAt
  <2>4. ASSUME NEW m \in Router PROVE OnTime(m)'
    <3>1. CASE m = n + 1
      <4>1. links'[m] = Append(links[m], payload) /\ links[m] \in Seq(Payload)
        BY <2>1, <3>1 DEF LineOK, LinksOK
      <4>2. \A i \in DOMAIN links'[m] :
              \/ i \in DOMAIN links[m] /\ links'[m][i] = links[m][i]
              \/ links'[m][i] = payload
        BY <4>1
      <4>3. now \in Nat /\ MaxDelay \in Nat
        BY Constants DEF LineOK, AnchorOK
      <4>4. QED
        BY <2>1, <2>2, <4>2, <4>3 DEF Punctual, OnTime
    <3>2. CASE m # n + 1
      BY <2>1, <2>2, <3>2 DEF Punctual, OnTime
    <3>3. QED
      BY <3>1, <3>2
  <2>5. QED
    BY <2>2, <2>3, <2>4 DEF Punctual
<1>5. ASSUME NEW n \in Router, ReceivePayload(n)
      PROVE  Punctual'
  <2>1. \A m \in Router : PunctualAt(m)'
    BY <1>5, ToldSteps, ToldPunctual
  <2>2. now' = now /\ anchorTimer' = anchorTimer
    BY <1>5 DEF ReceivePayload
  <2>3. ASSUME NEW m \in Router PROVE OnTime(m)'
    <3>1. CASE m = n
      BY <1>5, <2>2, <3>1, HeadEffect DEF ReceivePayload, LineOK, Punctual, OnTime
    <3>2. CASE m # n
      BY <1>5, <2>2, <3>2, HeadEffect DEF ReceivePayload, LineOK, Punctual, OnTime
    <3>3. QED
      BY <3>1, <3>2
  <2>4. QED
    BY <2>1, <2>2, <2>3 DEF Punctual
<1>6. ASSUME RoutesTick
      PROVE  Punctual'
  <2>1. /\ now' = now + 1 /\ anchorTimer' = anchorTimer /\ queueTimer' = queueTimer
        /\ workQueue' = workQueue /\ advertiseTimer' = advertiseTimer /\ links' = links
        /\ anchorTimer # now
        /\ \A n \in Router :
             /\ queueTimer[n] # now /\ advertiseTimer[n] # now
             /\ \A i \in DOMAIN links[n] : now < links[n][i].sent + MaxDelay
    BY <1>6 DEF RoutesTick, tables
  <2>2. \A n \in Router : queueTimer[n] \in Int /\ advertiseTimer[n] \in Int
    BY DEF LineOK, QueuesOK
  <2>3. ASSUME NEW n \in Router PROVE PunctualAt(n)'
    BY <2>1, <2>2, Constants DEF LineOK, AnchorOK, Punctual, PunctualAt
  <2>4. ASSUME NEW n \in Router PROVE OnTime(n)'
    <3> SUFFICES ASSUME NEW i \in DOMAIN links[n]
                 PROVE  links[n][i].sent <= now + 1 /\ now + 1 <= links[n][i].sent + MaxDelay
      BY <2>1 DEF OnTime
    <3>1. links[n][i].sent \in Nat
      BY PayloadType DEF LineOK
    <3>2. links[n][i].sent <= now /\ now < links[n][i].sent + MaxDelay
      BY <2>1 DEF Punctual, OnTime
    <3>3. QED
      BY <3>1, <3>2, Constants DEF LineOK, AnchorOK
  <2>5. now + 1 <= anchorTimer /\ anchorTimer <= now + 1 + RouteTimeout
    BY <2>1, Constants DEF LineOK, AnchorOK, Punctual
  <2>6. QED
    BY <2>1, <2>3, <2>4, <2>5 DEF Punctual
<1>7. ASSUME UNCHANGED timersVars
      PROVE  Punctual'
  BY <1>7 DEF timersVars, routeVars, tables, Punctual, PunctualAt, OnTime
<1>8. QED
  BY <1>1, <1>2, <1>3, <1>4, <1>5, <1>6, <1>7 DEF RoutesNext

LEMMA InitPunctual ==
  ASSUME RouteTimersAssumption, RoutesInit
  PROVE  LineOK /\ Punctual
<1>1. Jitter \div 4 \in Nat /\ Jitter \div 4 <= Jitter /\ now = 0
  BY Constants DEF RoutesInit
<1>2. \A t \in JitteredFrom(Jitter, Jitter \div 4) : t \in Nat /\ now <= t /\ t <= now + RouteTimeout
  BY <1>1, Constants DEF JitteredFrom, Jittered
<1>3. anchorTimer \in Nat /\ now <= anchorTimer /\ anchorTimer <= now + RouteTimeout
  BY <1>2 DEF RoutesInit
<1>4. \A n \in Router : advertiseTimer[n] \in Nat /\ now <= advertiseTimer[n]
                        /\ advertiseTimer[n] <= now + RouteTimeout
  BY <1>2 DEF RoutesInit
<1>5. LineOK
  <2>1. advertiseTimer \in [Router -> Int]
    BY <1>4 DEF RoutesInit
  <2>2. LinksOK
    BY DEF RoutesInit, LinksOK
  <2>3. RoutesOK
    BY DEF RoutesInit, RoutesOK, Row, Unknown, Never
  <2>4. QED
    BY <1>3, <2>1, <2>2, <2>3 DEF RoutesInit, LineOK, AnchorOK, QueuesOK, Never
<1>6. \A n \in Router : PunctualAt(n) /\ OnTime(n)
  BY <1>4 DEF RoutesInit, PunctualAt, OnTime
<1>7. QED
  BY <1>3, <1>5, <1>6 DEF Punctual

-----------------------------------------------------------------------------
(* The heap is a table, and what it holds is due before it is late. *)

\* The entries that count are those m_keys refers to, of pairs in m_prefixes; such a pair has
\* one, or is in the work queue.
TableAt(n) ==
  /\ \A e \in heap[n] : e.valid => e = TimerEntry(e.pair, keys[n][e.pair]) /\ rows[n][e.pair].known
  /\ \A p \in workQueue[n] : rows[n][p].known
  /\ \A p \in Pairs : rows[n][p].known =>
       p \in workQueue[n] \/ \E e \in heap[n] : e.valid /\ e.pair = p

\* Whatever was put in the heap after it was set, the advertise timer expires in time for it;
\* and so does the timer of the work queue, whatever was in it when it was set.
ScheduledAt(n) ==
  /\ \A e \in heap[n] : e.valid =>
       /\ e.time <= lastSent[n][e.pair] + RouteTimeout
       /\ advertiseTimer[n] <= lastSent[n][e.pair] + RouteTimeout
  /\ \A p \in workQueue[n] : queueTimer[n] <= lastSent[n][p] + RouteTimeout + WorkLag

HeapInv == \A n \in Router : TableAt(n) /\ ScheduledAt(n)

\* A router forgets no pair, and queues those that it did not know of.
LEMMA RowsKnown ==
  ASSUME NEW row \in Row, NEW m \in Message
  PROVE  /\ NewRow(row, m).known <=> row.known \/ m.advertise
         /\ IsQueued(row, m) => row.known \/ m.advertise
         /\ ~row.known /\ m.advertise => IsQueued(row, m)
BY DEF NewRow, IsQueued, IsReachable, Row, Message

LEMMA ToldHeap ==
  ASSUME RouteTimersAssumption, LineOK, Punctual, HeapInv, NEW n, NEW messages, Told(n, messages)
  PROVE  HeapInv'
<1>1. n \in Router /\ messages \in Messages /\ ReceiveMessages(n, messages) /\ now' = now
      /\ advertiseTimer' = advertiseTimer
  BY DEF Told
<1>2. PICK new, queued : new = NewPairs(n, messages) /\ queued = QueuedPairs(n, messages)
  OBVIOUS
<1>3. /\ new \in SUBSET Pairs /\ queued \in SUBSET Pairs
      /\ InsertTimers(n, new) /\ AddWorkQueueEntries(n, queued)
      /\ \A m \in Router \ {n} : rows'[m] = rows[m]
      /\ \A p \in Pairs : rows'[n][p] =
           IF p \in DOMAIN messages THEN NewRow(rows[n][p], messages[p]) ELSE rows[n][p]
  BY <1>1, <1>2, ReceiveEffect DEF LineOK
<1>4. \A p \in DOMAIN messages : p \in Pairs /\ messages[p] \in Message
  BY <1>1 DEF Messages
<1>5. \A p \in Pairs : rows[n][p] \in Row
  BY <1>1 DEF LineOK, RoutesOK
<1>6. /\ \A p \in Pairs : rows'[n][p].known <=> rows[n][p].known \/ p \in new
      /\ \A p \in queued : rows[n][p].known \/ p \in new
      /\ new \subseteq queued
      /\ \A p \in new : ~rows[n][p].known
  BY <1>2, <1>3, <1>4, <1>5, RowsKnown DEF NewPairs, QueuedPairs
<1> SUFFICES ASSUME NEW m \in Router PROVE TableAt(m)' /\ ScheduledAt(m)'
  BY DEF HeapInv
<1>7. CASE m # n
  <2>1. heap'[m] = heap[m] /\ keys'[m] = keys[m] /\ lastSent'[m] = lastSent[m]
    BY <1>1, <1>3, <1>7, InsertTimersEffect DEF LineOK
  <2>2. workQueue'[m] = workQueue[m] /\ queueTimer'[m] = queueTimer[m] /\ rows'[m] = rows[m]
    BY <1>1, <1>3, <1>7, AddWorkQueueEffect DEF LineOK
  <2>3. QED
    BY <1>1, <2>1, <2>2 DEF HeapInv, TableAt, ScheduledAt
<1>8. CASE m = n
  <2>1. /\ \A p \in Pairs : lastSent'[n][p] = IF p \in new THEN now ELSE lastSent[n][p]
        /\ \A p \in Pairs \ new : keys'[n][p] = keys[n][p]
        /\ \A p \in new :
             /\ keys'[n][p] \in Nat /\ keys'[n][p] <= now + RouteTimeout
             /\ TimerEntry(p, keys'[n][p]) \in heap'[n]
        /\ \A e \in heap'[n] : e.valid =>
             IF e.pair \in new
             THEN \/ e = TimerEntry(e.pair, keys'[n][e.pair])
                  \/ e \in heap[n] /\ e # TimerEntry(e.pair, keys[n][e.pair])
             ELSE e \in heap[n]
        /\ \A e \in heap[n] : e.valid /\ e.pair \notin new => e \in heap'[n]
        /\ heap'[n] \in SUBSET Timer
    BY <1>1, <1>3, InsertTimersEffect DEF LineOK
  <2>2. /\ workQueue'[n] = workQueue[n] \cup queued
        /\ IF queueTimer[n] # Never \/ queued = {} THEN queueTimer'[n] = queueTimer[n]
           ELSE now < queueTimer'[n] /\ queueTimer'[n] <= now + WorkLag
    BY <1>1, <1>3, AddWorkQueueEffect DEF LineOK
  <2>3. TableAt(n) /\ ScheduledAt(n) /\ PunctualAt(n)
    BY <1>1 DEF HeapInv, Punctual
  \* No old entry of a new pair counts.
  <2>4. \A e \in heap'[n] : e.valid =>
          /\ e.pair \in Pairs
          /\ \/ e.pair \in new /\ e = TimerEntry(e.pair, keys'[n][e.pair])
             \/ e.pair \notin new /\ e \in heap[n]
    BY <2>1, <2>3 DEF TableAt, Timer
  <2>5. TableAt(n)'
    <3>1. \A e \in heap'[n] : e.valid => e = TimerEntry(e.pair, keys'[n][e.pair]) /\ rows'[n][e.pair].known
      BY <1>6, <2>1, <2>3, <2>4 DEF TableAt
    <3>2. \A p \in workQueue'[n] : rows'[n][p].known
      <4> SUFFICES ASSUME NEW p \in workQueue[n] \cup queued PROVE rows'[n][p].known
        BY <2>2
      <4>1. p \in Pairs
        BY <1>1, <1>3 DEF LineOK, QueuesOK
      <4>2. rows[n][p].known \/ p \in new
        BY <1>6, <2>3 DEF TableAt
      <4>3. QED
        BY <1>6, <4>1, <4>2
    <3>3. \A p \in Pairs : rows'[n][p].known => p \in workQueue'[n] \/ \E e \in heap'[n] : e.valid /\ e.pair = p
      <4> SUFFICES ASSUME NEW p \in Pairs, rows'[n][p].known, p \notin workQueue'[n]
                   PROVE  \E e \in heap'[n] : e.valid /\ e.pair = p
        OBVIOUS
      <4>1. p \notin new /\ rows[n][p].known /\ p \notin workQueue[n]
        BY <1>6, <2>2
      <4>2. QED
        BY <2>1, <2>3, <4>1 DEF TableAt
    <3>4. QED
      BY <3>1, <3>2, <3>3 DEF TableAt
  <2>6. ScheduledAt(n)'
    <3>1. ASSUME NEW e \in heap'[n], e.valid
          PROVE  /\ e.time <= lastSent'[n][e.pair] + RouteTimeout
                 /\ advertiseTimer'[n] <= lastSent'[n][e.pair] + RouteTimeout
      <4>1. CASE e.pair \in new
        <5>1. e = TimerEntry(e.pair, keys'[n][e.pair]) /\ e.pair \in Pairs
          BY <2>4, <3>1, <4>1
        <5>2. e.time = keys'[n][e.pair] /\ lastSent'[n][e.pair] = now
          BY <2>1, <4>1, <5>1 DEF TimerEntry
        <5>3. QED
          BY <1>1, <2>1, <2>3, <4>1, <5>2 DEF PunctualAt
      <4>2. CASE e.pair \notin new
        BY <1>1, <2>1, <2>3, <2>4, <3>1, <4>2 DEF ScheduledAt
      <4>3. QED
        BY <4>1, <4>2
    <3>2. ASSUME NEW p \in workQueue'[n]
          PROVE  queueTimer'[n] <= lastSent'[n][p] + RouteTimeout + WorkLag
      <4>1. p \in Pairs /\ now \in Nat /\ queueTimer[n] \in Int /\ advertiseTimer[n] \in Int
            /\ lastSent[n][p] \in Int
        BY <1>1, <1>3, <2>2, <3>2 DEF LineOK, QueuesOK, AnchorOK, RoutesOK
      \* A timer that runs was set for a pair that was queued before, or runs out soon.
      <4>2. queueTimer'[n] <= now + WorkLag
        BY <2>2, <2>3, <4>1, Constants DEF PunctualAt, Never
      <4>3. CASE p \in new
        <5>1. lastSent'[n][p] = now /\ queueTimer'[n] \in Int
          BY <1>1, <1>3, <2>1, <4>1, <4>3, AddWorkQueueEffect DEF LineOK
        <5>2. QED
          BY <4>1, <4>2, <5>1, Constants
      <4>4. CASE p \notin new /\ p \in workQueue[n]
        <5>1. queueTimer'[n] = queueTimer[n] /\ lastSent'[n][p] = lastSent[n][p]
          BY <2>1, <2>2, <2>3, <4>1, <4>4 DEF PunctualAt
        <5>2. QED
          BY <2>3, <4>4, <5>1 DEF ScheduledAt
      <4>5. CASE p \notin new /\ p \notin workQueue[n]
        <5>1. rows[n][p].known
          BY <1>6, <2>2, <3>2, <4>5
        <5>2. PICK e \in heap[n] : e.valid /\ e.pair = p
          BY <2>3, <4>1, <4>5, <5>1 DEF TableAt
        <5>3. now <= lastSent[n][p] + RouteTimeout
          BY <2>3, <4>1, <5>2, Constants DEF ScheduledAt, PunctualAt
        <5>4. lastSent'[n][p] = lastSent[n][p] /\ queueTimer'[n] \in Int
          BY <1>1, <1>3, <2>1, <4>1, <4>5, AddWorkQueueEffect DEF LineOK
        <5>5. QED
          BY <4>1, <4>2, <5>3, <5>4, Constants
      <4>6. QED
        BY <4>3, <4>4, <4>5
    <3>3. QED
      BY <3>1, <3>2 DEF ScheduledAt
  <2>7. QED
    BY <1>8, <2>5, <2>6
<1>9. QED
  BY <1>7, <1>8

LEMMA AdvertiseHeap ==
  ASSUME RouteTimersAssumption, LineOK, Punctual, HeapInv, NEW n \in Router, AdvertiseTimerExpired(n)
  PROVE  HeapInv'
<1>1. PICK due : due = DuePairs(n)
  OBVIOUS
<1>2. /\ advertiseTimer[n] = now /\ rows' = rows /\ keys' = keys /\ lastSent' = lastSent
      /\ LineOK' /\ due \in SUBSET Pairs
      /\ \A m \in Router \ {n} : heap'[m] = heap[m] /\ advertiseTimer'[m] = advertiseTimer[m]
      /\ heap'[n] \subseteq heap[n]
      /\ \A e \in heap[n] : e.valid => e \in heap'[n] \/ e.pair \in due
      /\ \A p \in due : \E e \in heap[n] : e.valid /\ e.pair = p
      /\ \A e \in heap'[n] : advertiseTimer'[n] <= e.time
      /\ AddWorkQueueEntries(n, due)
  <2>1. LineOK'
    BY TypeStep DEF RoutesNext
  <2>2. advertiseTimer[n] = now /\ rows' = rows /\ keys' = keys /\ lastSent' = lastSent
    BY DEF AdvertiseTimerExpired
  <2>3. QED
    BY <1>1, <2>1, <2>2, AdvertiseTimerEffect DEF LineOK
<1>3. /\ \A m \in Router \ {n} : workQueue'[m] = workQueue[m] /\ queueTimer'[m] = queueTimer[m]
      /\ workQueue'[n] = workQueue[n] \cup due
      /\ IF queueTimer[n] # Never \/ due = {} THEN queueTimer'[n] = queueTimer[n]
         ELSE now < queueTimer'[n] /\ queueTimer'[n] <= now + WorkLag
  BY <1>2, AddWorkQueueEffect DEF LineOK
<1> SUFFICES ASSUME NEW m \in Router PROVE TableAt(m)' /\ ScheduledAt(m)'
  BY DEF HeapInv
<1>4. CASE m # n
  BY <1>2, <1>3, <1>4 DEF HeapInv, TableAt, ScheduledAt
<1>5. CASE m = n
  <2>1. TableAt(n) /\ ScheduledAt(n) /\ PunctualAt(n)
    BY DEF HeapInv, Punctual
  <2>2. /\ heap[n] \in SUBSET Timer /\ workQueue[n] \in SUBSET Pairs
        /\ \A p \in Pairs : lastSent[n][p] \in Int
        /\ now \in Nat /\ queueTimer[n] \in Int /\ queueTimer'[n] \in Int /\ advertiseTimer'[n] \in Int
    BY <1>2 DEF LineOK, RoutesOK, QueuesOK, AnchorOK
  <2>3. \A p \in due : rows[n][p].known /\ now <= lastSent[n][p] + RouteTimeout
    BY <1>2, <2>1 DEF TableAt, ScheduledAt
  <2>4. TableAt(n)'
    <3>1. \A e \in heap'[n] : e.valid => e = TimerEntry(e.pair, keys'[n][e.pair]) /\ rows'[n][e.pair].known
      BY <1>2, <2>1 DEF TableAt
    <3>2. \A p \in workQueue'[n] : rows'[n][p].known
      BY <1>2, <1>3, <2>1, <2>3 DEF TableAt
    <3>3. \A p \in Pairs : rows'[n][p].known => p \in workQueue'[n] \/ \E e \in heap'[n] : e.valid /\ e.pair = p
      BY <1>2, <1>3, <2>1 DEF TableAt
    <3>4. QED
      BY <3>1, <3>2, <3>3 DEF TableAt
  <2>5. ScheduledAt(n)'
    <3>1. ASSUME NEW e \in heap'[n], e.valid
          PROVE  /\ e.time <= lastSent'[n][e.pair] + RouteTimeout
                 /\ advertiseTimer'[n] <= lastSent'[n][e.pair] + RouteTimeout
      <4>1. e \in heap[n] /\ e.pair \in Pairs /\ e.time \in Int /\ advertiseTimer'[n] <= e.time
        BY <1>2, <2>2, <3>1 DEF Timer
      <4>2. e.time <= lastSent[n][e.pair] + RouteTimeout
        BY <2>1, <3>1, <4>1 DEF ScheduledAt
      <4>3. QED
        BY <1>2, <2>2, <4>1, <4>2, Constants
    <3>2. ASSUME NEW p \in workQueue'[n]
          PROVE  queueTimer'[n] <= lastSent'[n][p] + RouteTimeout + WorkLag
      <4>1. CASE p \in due
        <5>1. queueTimer'[n] <= now + WorkLag
          BY <1>3, <2>1, <2>2, <4>1, Constants DEF PunctualAt
        <5>2. lastSent[n][p] \in Int /\ now <= lastSent[n][p] + RouteTimeout
          BY <1>2, <2>2, <2>3, <4>1
        <5>3. QED
          BY <1>2, <2>2, <5>1, <5>2, Constants
      <4>2. CASE p \notin due
        <5>1. p \in workQueue[n] /\ queueTimer'[n] = queueTimer[n]
          BY <1>3, <2>1, <3>2, <4>2 DEF PunctualAt
        <5>2. QED
          BY <1>2, <2>1, <5>1 DEF ScheduledAt
      <4>3. QED
        BY <4>1, <4>2
    <3>3. QED
      BY <3>1, <3>2 DEF ScheduledAt
  <2>6. QED
    BY <1>5, <2>4, <2>5
<1>6. QED
  BY <1>4, <1>5

LEMMA ProcessHeap ==
  ASSUME RouteTimersAssumption, LineOK, Punctual, HeapInv, NEW n \in Router, ProcessWorkQueueOf(n)
  PROVE  HeapInv'
<1>1. /\ LineOK' /\ InsertTimers(n, workQueue[n])
      /\ \A m \in Router \ {n} : queueTimer'[m] = queueTimer[m] /\ workQueue'[m] = workQueue[m]
      /\ workQueue'[n] = {}
  BY ProcessEffect
<1>2. rows' = rows /\ advertiseTimer' = advertiseTimer /\ workQueue[n] \in SUBSET Pairs
  BY DEF ProcessWorkQueueOf, LineOK, QueuesOK
<1>3. /\ \A m \in Router \ {n} :
           heap'[m] = heap[m] /\ keys'[m] = keys[m] /\ lastSent'[m] = lastSent[m]
      /\ \A p \in Pairs : lastSent'[n][p] = IF p \in workQueue[n] THEN now ELSE lastSent[n][p]
      /\ \A p \in Pairs \ workQueue[n] : keys'[n][p] = keys[n][p]
      /\ \A p \in workQueue[n] :
           /\ keys'[n][p] \in Nat /\ keys'[n][p] <= now + RouteTimeout
           /\ TimerEntry(p, keys'[n][p]) \in heap'[n]
      /\ \A e \in heap'[n] : e.valid =>
           IF e.pair \in workQueue[n]
           THEN \/ e = TimerEntry(e.pair, keys'[n][e.pair])
                \/ e \in heap[n] /\ e # TimerEntry(e.pair, keys[n][e.pair])
           ELSE e \in heap[n]
      /\ \A e \in heap[n] : e.valid /\ e.pair \notin workQueue[n] => e \in heap'[n]
      /\ heap'[n] \in SUBSET Timer
  BY <1>1, <1>2, InsertTimersEffect DEF LineOK
<1> SUFFICES ASSUME NEW m \in Router PROVE TableAt(m)' /\ ScheduledAt(m)'
  BY DEF HeapInv
<1>4. CASE m # n
  BY <1>1, <1>2, <1>3, <1>4 DEF HeapInv, TableAt, ScheduledAt
<1>5. CASE m = n
  <2>1. TableAt(n) /\ ScheduledAt(n) /\ PunctualAt(n)
    BY DEF HeapInv, Punctual
  <2>2. \A e \in heap'[n] : e.valid =>
          /\ e.pair \in Pairs
          /\ \/ e.pair \in workQueue[n] /\ e = TimerEntry(e.pair, keys'[n][e.pair])
             \/ e.pair \notin workQueue[n] /\ e \in heap[n]
    BY <1>3, <2>1 DEF TableAt, Timer
  <2>3. TableAt(n)'
    <3>1. \A e \in heap'[n] : e.valid => e = TimerEntry(e.pair, keys'[n][e.pair]) /\ rows'[n][e.pair].known
      BY <1>2, <1>3, <2>1, <2>2 DEF TableAt
    <3>2. ASSUME NEW p \in Pairs, rows'[n][p].known
          PROVE  \E e \in heap'[n] : e.valid /\ e.pair = p
      <4>1. CASE p \in workQueue[n]
        BY <1>3, <4>1 DEF TimerEntry
      <4>2. CASE p \notin workQueue[n]
        BY <1>2, <1>3, <2>1, <3>2, <4>2 DEF TableAt
      <4>3. QED
        BY <4>1, <4>2
    <3>3. QED
      BY <1>1, <3>1, <3>2 DEF TableAt
  <2>4. ScheduledAt(n)'
    <3>1. ASSUME NEW e \in heap'[n], e.valid
          PROVE  /\ e.time <= lastSent'[n][e.pair] + RouteTimeout
                 /\ advertiseTimer'[n] <= lastSent'[n][e.pair] + RouteTimeout
      <4>1. CASE e.pair \in workQueue[n]
        <5>1. e = TimerEntry(e.pair, keys'[n][e.pair]) /\ e.pair \in Pairs
          BY <2>2, <3>1, <4>1
        <5>2. e.time = keys'[n][e.pair] /\ lastSent'[n][e.pair] = now
          BY <1>3, <4>1, <5>1 DEF TimerEntry
        <5>3. QED
          BY <1>2, <1>3, <2>1, <4>1, <5>2 DEF PunctualAt
      <4>2. CASE e.pair \notin workQueue[n]
        BY <1>2, <1>3, <2>1, <2>2, <3>1, <4>2 DEF ScheduledAt
      <4>3. QED
        BY <4>1, <4>2
    <3>2. QED
      BY <1>1, <3>1 DEF ScheduledAt
  <2>5. QED
    BY <1>5, <2>3, <2>4
<1>6. QED
  BY <1>4, <1>5

LEMMA HeapStep ==
  ASSUME RouteTimersAssumption, LineOK, Punctual, HeapInv, [RoutesNext]_timersVars
  PROVE  HeapInv'
<1>1. ASSUME UNCHANGED <<tables, queueTimer, advertiseTimer, lastSent>>
      PROVE  HeapInv'
  BY <1>1 DEF tables, HeapInv, TableAt, ScheduledAt
<1>2. ASSUME NEW p \in Pairs, AddAnchorPrefix(p)
      PROVE  HeapInv'
  BY <1>2, ToldSteps, ToldHeap
<1>3. ASSUME AnchorRouteTimerExpired
      PROVE  HeapInv'
  BY <1>1, <1>3, ToldSteps, ToldHeap
<1>4. ASSUME NEW n \in Router, AdvertiseTimerExpired(n) \/ ProcessWorkQueueOf(n) \/ ReceivePayload(n)
      PROVE  HeapInv'
  BY <1>4, AdvertiseHeap, ProcessHeap, ToldSteps, ToldHeap
<1>5. ASSUME RoutesTick \/ UNCHANGED timersVars
      PROVE  HeapInv'
  BY <1>1, <1>5 DEF RoutesTick, timersVars, routeVars, tables
<1>6. QED
  BY <1>2, <1>3, <1>4, <1>5 DEF RoutesNext

TimersInv == LineOK /\ Punctual /\ HeapInv

LEMMA TimersInit == ASSUME RouteTimersAssumption, RoutesInit PROVE TimersInv
<1>1. HeapInv
  BY DEF RoutesInit, HeapInv, TableAt, ScheduledAt, Unknown
<1>2. QED
  BY <1>1, InitPunctual DEF TimersInv

LEMMA TimersStep == ASSUME RouteTimersAssumption, TimersInv, [RoutesNext]_timersVars PROVE TimersInv'
BY TypeStep, PunctualStep, HeapStep DEF TimersInv

\* Clocks, tables, queues and links keep their types.
THEOREM NfpTimersTypeCorrect == ASSUME RouteTimersAssumption PROVE RoutesSpec => []LineOK
<1>1. RoutesInit => LineOK
  BY InitPunctual
<1>2. LineOK /\ [RoutesNext]_timersVars => LineOK'
  BY TypeStep
<1>3. QED
  BY <1>1, <1>2, PTL DEF RoutesSpec

\* The timer heap is a table of one timer for each pair a router knows of, whatever was
\* invalidated, popped and set again.
THEOREM NfpHeapIsTable == ASSUME RouteTimersAssumption PROVE RoutesSpec => []OneTimerPerRow
<1>1. TimersInv => OneTimerPerRow
  <2> SUFFICES ASSUME TimersInv, NEW n \in Router, NEW p \in Pairs,
                      NEW timers, timers = {e \in heap[n] : e.valid /\ e.pair = p}
               PROVE  /\ \A d, e \in timers : d = e
                      /\ rows[n][p].known <=> timers # {} \/ p \in workQueue[n]
    BY DEF OneTimerPerRow
  <2>1. TableAt(n)
    BY DEF TimersInv, HeapInv
  <2>2. QED
    BY <2>1 DEF TableAt
<1>2. RoutesInit => TimersInv
  BY TimersInit
<1>3. TimersInv /\ [RoutesNext]_timersVars => TimersInv'
  BY TimersStep
<1>4. QED
  BY <1>1, <1>2, <1>3, PTL DEF RoutesSpec

\* The advertise timer is never late: every pair is said again in one route timeout and the
\* delay of the work queue.
THEOREM NfpSaidInTime == ASSUME RouteTimersAssumption PROVE RoutesSpec => []SaidInTime
<1>1. TimersInv => SaidInTime
  <2> SUFFICES ASSUME TimersInv, NEW n \in Router, NEW p \in Pairs, rows[n][p].known
               PROVE  now <= lastSent[n][p] + RouteTimeout + WorkLag
    BY DEF SaidInTime, WorkLag
  <2>1. TableAt(n) /\ ScheduledAt(n) /\ PunctualAt(n)
    BY DEF TimersInv, HeapInv, Punctual
  <2>2. now \in Nat /\ lastSent[n][p] \in Int /\ queueTimer[n] \in Int /\ advertiseTimer[n] \in Int
    BY DEF TimersInv, LineOK, AnchorOK, RoutesOK, QueuesOK
  <2>3. CASE p \in workQueue[n]
    BY <2>1, <2>2, <2>3, Constants DEF ScheduledAt, PunctualAt
  <2>4. CASE p \notin workQueue[n]
    BY <2>1, <2>2, <2>4, Constants DEF TableAt, ScheduledAt, PunctualAt
  <2>5. QED
    BY <2>3, <2>4
<1>2. RoutesInit => TimersInv
  BY TimersInit
<1>3. TimersInv /\ [RoutesNext]_timersVars => TimersInv'
  BY TimersStep
<1>4. QED
  BY <1>1, <1>2, <1>3, PTL DEF RoutesSpec

-----------------------------------------------------------------------------
(* Announcements cross the line. *)

\* What router n knows of an anchor, as a number
Hears(n, p) == IF rows[n][p].known THEN rows[n][p].seqnum ELSE -1

Announces(payload, p) == p \in DOMAIN payload.messages /\ payload.messages[p].advertise
Withdraws(payload, p) == p \in DOMAIN payload.messages /\ ~payload.messages[p].advertise
Seqnum(payload, p)    == payload.messages[p].seqnum

\* issued[j] is the time of the first announcement of p with seqnum j or more: the anchor is
\* never silent for longer than the timeout of the routes.
Chronicle(p, issued) ==
  /\ \A j \in 0 .. Hears(1, p) : issued[j] <= now /\ \A i \in 0 .. j : issued[i] <= issued[j]
  /\ \A j \in 1 .. Hears(1, p) : issued[j] <= issued[j - 1] + RouteTimeout
Sourced(p, issued) ==
  /\ rows[1][p].known <=> p \in anchored
  /\ rows[1][p].known =>
       /\ rows[1][p].seqnum < anchorSeqnum
       /\ rows[1][p].expiry = issued[rows[1][p].seqnum] + RouteTimeout
       /\ anchorTimer <= rows[1][p].expiry
  /\ links[1] = <<>>

\* No router is ahead of the anchor; if it is behind, the next announcement is not late yet;
\* and a row never expires before its announcement is as old as the timeout.
RenewedAt(n, p, issued) ==
  /\ Hears(n, p) <= Hears(1, p)
  /\ Hears(n, p) < Hears(1, p) => now <= issued[Hears(n, p) + 1] + Lag(n)
  /\ rows[n][p].known => issued[rows[n][p].seqnum] + RouteTimeout <= rows[n][p].expiry

\* A router is not ahead of the one before it, ...
Follows(n, p) ==
  /\ Hears(n, p) <= Hears(n - 1, p)
  /\ \A i \in DOMAIN links[n] :
       Announces(links[n][i], p) => Seqnum(links[n][i], p) <= Hears(n - 1, p)

\* ... what it has not heard of is queued there or sent, not later than it had to be, ...
OnItsWay(n, p, issued) ==
  \A k \in Hears(n, p) .. Hears(n - 1, p) - 1 :
    \/ p \in workQueue[n - 1] /\ queueTimer[n - 1] <= issued[k + 1] + Lag(n - 1) + WorkLag
    \/ \E i \in DOMAIN links[n] :
         /\ Announces(links[n][i], p) /\ k < Seqnum(links[n][i], p)
         /\ links[n][i].sent <= issued[k + 1] + Lag(n - 1) + WorkLag

\* ... and what is withdrawn had timed out, announcements that arrive before included.
Outlived(n, p, issued, time) ==
  rows[n][p].known => issued[rows[n][p].seqnum] + RouteTimeout <= time
Justified(n, p, issued) ==
  \A i \in DOMAIN links[n] : Withdraws(links[n][i], p) =>
    /\ Outlived(n, p, issued, links[n][i].sent)
    /\ \A h \in 1 .. i - 1 : Announces(links[n][h], p) =>
         issued[Seqnum(links[n][h], p)] + RouteTimeout <= links[n][i].sent

Renewed(p, issued) ==
  /\ Chronicle(p, issued) /\ Sourced(p, issued)
  /\ \A n \in Router : RenewedAt(n, p, issued)
  /\ \A n \in Router \ {1} : Follows(n, p) /\ OnItsWay(n, p, issued) /\ Justified(n, p, issued)

LineInv == \A p \in Pairs : \E issued \in [Nat -> Int] : Renewed(p, issued)

LEMMA LagSteps ==
  ASSUME RouteTimersAssumption
  PROVE  /\ Lag(1) = 0 /\ \A n \in Router : Lag(n) \in Nat /\ Lag(n) <= Lag(Routers)
         /\ \A n \in Router \ {1} :
              n - 1 \in Router /\ Lag(n) = Lag(n - 1) + WorkLag + MaxDelay
<1>1. PICK d \in Nat : d = WorkLag + MaxDelay
  BY Constants
<1>2. \A n \in Int : Lag(n) = (n - 1) * d
  BY <1>1 DEF Lag
<1>3. \A n \in Router : n \in Nat /\ 1 <= n /\ n <= Routers
  BY Constants DEF Router
<1>4. Lag(1) = 0
  BY <1>1, <1>2
<1>5. ASSUME NEW n \in Router PROVE Lag(n) \in Nat /\ Lag(n) <= Lag(Routers)
  <2>1. n \in Nat /\ 1 <= n /\ n <= Routers /\ Routers \in Nat
    BY <1>3, Constants
  <2>2. n - 1 \in Nat /\ Routers - n \in Nat /\ Routers - 1 = (n - 1) + (Routers - n)
    BY <2>1
  <2>3. PICK a, b \in Nat : a = n - 1 /\ b = Routers - n
    BY <2>2
  <2>4. a * d \in Nat /\ b * d \in Nat /\ (a + b) * d = a * d + b * d
    OBVIOUS
  <2>5. Lag(n) = a * d /\ Lag(Routers) = (a + b) * d
    BY <1>2, <2>1, <2>2, <2>3
  <2>6. QED
    BY <2>4, <2>5
<1>6. ASSUME NEW n \in Router \ {1} PROVE n - 1 \in Router /\ Lag(n) = Lag(n - 1) + WorkLag + MaxDelay
  <2>1. n - 1 \in Router /\ n \in Int
    BY <1>3, Constants DEF Router
  <2>2. PICK a \in Int : a = n - 2
    BY <2>1
  <2>3. (a + 1) * d = a * d + d
    OBVIOUS
  <2>4. n - 1 = a + 1 /\ (n - 1) - 1 = a /\ n - 1 \in Int
    BY <2>1, <2>2
  <2>5. QED
    BY <1>1, <1>2, <2>1, <2>3, <2>4, Constants
<1>7. QED
  BY <1>4, <1>5, <1>6

LEMMA HearsType ==
  ASSUME LineOK, NEW n \in Router, NEW p \in Pairs
  PROVE  /\ rows[n][p] \in Row /\ Hears(n, p) \in Int /\ -1 <= Hears(n, p)
         /\ rows[n][p].known => Hears(n, p) = rows[n][p].seqnum /\ Hears(n, p) \in Nat
BY DEF LineOK, RoutesOK, Row, Hears

\* Time does not pass what is due: whatever router n has not heard of reaches it within Lag(n).
LEMMA Deadline ==
  ASSUME RouteTimersAssumption, LineOK, NEW n \in Router \ {1}, NEW p \in Pairs,
         NEW issued \in [Nat -> Int], Renewed(p, issued), NEW t \in Nat, t <= now + 1,
         queueTimer[n - 1] # Never => t <= queueTimer[n - 1],
         workQueue[n - 1] # {} => queueTimer[n - 1] # Never,
         \A i \in DOMAIN links[n] : t <= links[n][i].sent + MaxDelay,
         NEW k \in Hears(n, p) .. Hears(1, p) - 1
  PROVE  t <= issued[k + 1] + Lag(n)
<1>1. /\ n - 1 \in Router /\ Lag(n - 1) \in Nat /\ Lag(n) \in Nat
      /\ Lag(n) = Lag(n - 1) + WorkLag + MaxDelay
      /\ WorkLag \in Nat /\ 1 <= WorkLag /\ MaxDelay \in Nat /\ now \in Nat /\ 1 \in Router
  BY LagSteps, Constants DEF LineOK, AnchorOK
<1>2. /\ Hears(n, p) \in Int /\ -1 <= Hears(n, p) /\ Hears(n - 1, p) \in Int /\ -1 <= Hears(n - 1, p)
      /\ Hears(1, p) \in Int
  BY <1>1, HearsType
<1>3. k \in Int /\ -1 <= k /\ k < Hears(1, p) /\ k + 1 \in Nat /\ issued[k + 1] \in Int
  BY <1>2
<1>4. CASE k < Hears(n - 1, p)
  <2>1. k \in Hears(n, p) .. Hears(n - 1, p) - 1
    BY <1>2, <1>3, <1>4
  <2>2. \/ p \in workQueue[n - 1] /\ queueTimer[n - 1] <= issued[k + 1] + Lag(n - 1) + WorkLag
        \/ \E i \in DOMAIN links[n] : links[n][i].sent <= issued[k + 1] + Lag(n - 1) + WorkLag
    BY <2>1 DEF Renewed, OnItsWay
  <2>3. CASE p \in workQueue[n - 1] /\ queueTimer[n - 1] <= issued[k + 1] + Lag(n - 1) + WorkLag
    <3>1. queueTimer[n - 1] \in Int /\ t <= queueTimer[n - 1]
      BY <1>1, <2>3 DEF LineOK, QueuesOK
    <3>2. QED
      BY <1>1, <1>3, <2>3, <3>1
  <2>4. CASE \E i \in DOMAIN links[n] : links[n][i].sent <= issued[k + 1] + Lag(n - 1) + WorkLag
    <3>1. PICK i \in DOMAIN links[n] : links[n][i].sent <= issued[k + 1] + Lag(n - 1) + WorkLag
      BY <2>4
    <3>2. links[n][i].sent \in Nat
      BY PayloadType DEF LineOK
    <3>3. QED
      BY <1>1, <1>3, <3>1, <3>2
  <2>5. QED
    BY <2>2, <2>3, <2>4
<1>5. CASE Hears(n - 1, p) <= k
  <2>1. Hears(n - 1, p) < Hears(1, p) /\ Hears(n - 1, p) + 1 \in Nat
    BY <1>2, <1>3, <1>5
  <2>2. now <= issued[Hears(n - 1, p) + 1] + Lag(n - 1)
    BY <1>1, <2>1 DEF Renewed, RenewedAt
  <2>3. issued[Hears(n - 1, p) + 1] <= issued[k + 1] /\ issued[Hears(n - 1, p) + 1] \in Int
    <3>1. k + 1 \in 0 .. Hears(1, p) /\ Hears(n - 1, p) + 1 \in 0 .. k + 1
      BY <1>2, <1>3, <1>5, <2>1
    <3>2. QED
      BY <2>1, <3>1 DEF Renewed, Chronicle
  <2>4. QED
    BY <1>1, <1>3, <2>2, <2>3
<1>6. QED
  BY <1>2, <1>3, <1>4, <1>5

\* The same for a router that hears of it now: it is in time for the next hop.
LEMMA InTime ==
  ASSUME RouteTimersAssumption, LineOK, NEW n \in Router, NEW p \in Pairs,
         NEW issued \in [Nat -> Int], Renewed(p, issued),
         NEW k \in Hears(n, p) .. Hears(1, p) - 1
  PROVE  now <= issued[k + 1] + Lag(n)
<1>1. 1 \in Router /\ Lag(n) \in Nat /\ now \in Nat
  BY Constants, LagSteps DEF LineOK, AnchorOK
<1>2. /\ Hears(n, p) \in Int /\ -1 <= Hears(n, p) /\ Hears(1, p) \in Int /\ k \in Int
      /\ Hears(n, p) <= k /\ k < Hears(1, p)
  BY <1>1, HearsType
<1>3. now <= issued[Hears(n, p) + 1] + Lag(n)
  BY <1>2 DEF Renewed, RenewedAt
<1>4. /\ k + 1 \in 0 .. Hears(1, p) /\ Hears(n, p) + 1 \in 0 .. k + 1
      /\ k + 1 \in Nat /\ Hears(n, p) + 1 \in Nat
  BY <1>2
<1>5. issued[Hears(n, p) + 1] <= issued[k + 1]
  BY <1>4 DEF Renewed, Chronicle
<1>6. QED
  BY <1>1, <1>3, <1>4, <1>5

\* A step that changes no row and no link, and queues at most, changes nothing here.
LEMMA QueueGrows ==
  ASSUME RouteTimersAssumption, LineOK,
         NEW p \in Pairs, NEW issued \in [Nat -> Int], Renewed(p, issued),
         now' = now, links' = links, \A n \in Router : rows'[n][p] = rows[n][p],
         p \in anchored' <=> p \in anchored, anchorSeqnum \in Nat, anchorSeqnum' \in Nat,
         anchorSeqnum <= anchorSeqnum',
         rows[1][p].known => anchorTimer' = anchorTimer,
         \A n \in Router : p \in workQueue[n] => p \in workQueue'[n] /\ queueTimer'[n] = queueTimer[n]
  PROVE  Renewed(p, issued)'
<1>1. \A n \in Router : Hears(n, p)' = Hears(n, p)
  BY DEF Hears
<1>2. \A n \in Router \ {1} : n - 1 \in Router
  BY LagSteps
<1>3. Chronicle(p, issued)'
  BY <1>1, Constants DEF Renewed, Chronicle
<1>4. Sourced(p, issued)'
  <2>1. rows'[1][p] = rows[1][p] /\ rows[1][p] \in Row /\ links'[1] = links[1]
    BY HearsType, Constants
  <2>2. QED
    BY <2>1 DEF Renewed, Sourced, Row
<1>5. \A n \in Router : RenewedAt(n, p, issued)'
  BY <1>1, Constants DEF Renewed, RenewedAt
<1>6. ASSUME NEW n \in Router \ {1}
      PROVE  Follows(n, p)' /\ OnItsWay(n, p, issued)' /\ Justified(n, p, issued)'
  <2>1. Follows(n, p) /\ OnItsWay(n, p, issued) /\ Justified(n, p, issued) /\ n - 1 \in Router
    BY <1>2 DEF Renewed
  <2>2. Follows(n, p)'
    BY <1>1, <2>1 DEF Follows, Announces, Seqnum
  <2>3. OnItsWay(n, p, issued)'
    BY <1>1, <2>1 DEF OnItsWay, Announces, Seqnum
  <2>4. Justified(n, p, issued)'
    BY <2>1 DEF Justified, Outlived, Announces, Withdraws, Seqnum
  <2>5. QED
    BY <2>2, <2>3, <2>4
<1>7. QED
  BY <1>3, <1>4, <1>5, <1>6 DEF Renewed

\* What a router is told changes the rows it is told of, and what is queued stays so.
LEMMA ToldQueue ==
  ASSUME RouteTimersAssumption, LineOK, Punctual, NEW n, NEW messages, Told(n, messages)
  PROVE  /\ \A m \in Router, p \in Pairs : rows'[m][p] =
              IF m = n /\ p \in DOMAIN messages THEN NewRow(rows[m][p], messages[p]) ELSE rows[m][p]
         /\ \A m \in Router : \A p \in workQueue[m] : p \in workQueue'[m] /\ queueTimer'[m] = queueTimer[m]
         /\ \A p \in QueuedPairs(n, messages) :
              p \in workQueue'[n] /\ queueTimer'[n] \in Int /\ queueTimer'[n] <= now + WorkLag
<1>1. n \in Router /\ messages \in Messages /\ ReceiveMessages(n, messages)
  BY DEF Told
<1>2. /\ QueuedPairs(n, messages) \in SUBSET Pairs /\ \A m \in Router \ {n} : rows'[m] = rows[m]
      /\ \A p \in Pairs : rows'[n][p] =
           IF p \in DOMAIN messages THEN NewRow(rows[n][p], messages[p]) ELSE rows[n][p]
      /\ AddWorkQueueEntries(n, QueuedPairs(n, messages))
  BY <1>1, ReceiveEffect DEF LineOK
<1> DEFINE queued == QueuedPairs(n, messages)
<1> HIDE DEF queued
<1>3. /\ \A m \in Router \ {n} : workQueue'[m] = workQueue[m] /\ queueTimer'[m] = queueTimer[m]
      /\ workQueue'[n] = workQueue[n] \cup queued /\ queueTimer' \in [Router -> Int]
      /\ IF queueTimer[n] # Never \/ queued = {} THEN queueTimer'[n] = queueTimer[n]
         ELSE now < queueTimer'[n] /\ queueTimer'[n] <= now + WorkLag
  BY <1>1, <1>2, AddWorkQueueEffect DEF LineOK, queued
<1>4. workQueue[n] # {} => queueTimer[n] # Never
  BY <1>1 DEF Punctual, PunctualAt
<1>5. queueTimer[n] # Never => queueTimer[n] <= now + WorkLag
  BY <1>1 DEF Punctual, PunctualAt
<1>6. ASSUME NEW p \in queued
      PROVE  p \in workQueue'[n] /\ queueTimer'[n] \in Int /\ queueTimer'[n] <= now + WorkLag
  BY <1>1, <1>3, <1>5
<1>7. ASSUME NEW m \in Router, NEW p \in workQueue[m]
      PROVE  p \in workQueue'[m] /\ queueTimer'[m] = queueTimer[m]
  BY <1>1, <1>3, <1>4
<1>8. QED
  BY <1>2, <1>6, <1>7 DEF queued

\* An announcement of the anchor: the next step of its history.
LEMMA AnchorAnnounces ==
  ASSUME RouteTimersAssumption, LineOK, Punctual, NEW pairs \in SUBSET Pairs, NEW p \in pairs,
         Told(1, AnchorMessages(pairs)), NEW issued \in [Nat -> Int], Renewed(p, issued),
         p \in anchored', anchorSeqnum' = anchorSeqnum + 1, links' = links,
         rows[1][p].known => anchorTimer = now, anchorTimer' \in Int, anchorTimer' <= now + RouteTimeout
  PROVE  \E later \in [Nat -> Int] : Renewed(p, later)'
<1>1. /\ 1 \in Router /\ p \in Pairs /\ now \in Nat /\ now' = now /\ anchorSeqnum \in Nat
      /\ anchorTimer \in Int /\ WorkLag \in Nat /\ RouteTimeout \in Nat
  BY Constants DEF LineOK, AnchorOK, Told
<1>2. PICK later \in [Nat -> Int] :
        later = [j \in Nat |-> IF j <= Hears(1, p) THEN issued[j] ELSE now]
  <2> DEFINE f == [j \in Nat |-> IF j <= Hears(1, p) THEN issued[j] ELSE now]
  <2>1. f \in [Nat -> Int]
    BY <1>1
  <2> HIDE DEF f
  <2>2. \E later \in [Nat -> Int] : later = f
    BY <2>1
  <2>3. QED
    BY <2>2 DEF f
<1>3. /\ rows[1][p] \in Row /\ Hears(1, p) \in Int /\ -1 <= Hears(1, p)
      /\ \A n \in Router : Hears(n, p) \in Int /\ -1 <= Hears(n, p) /\ Hears(n, p) <= Hears(1, p)
  BY <1>1, HearsType DEF Renewed, RenewedAt
<1>4. rows[1][p].known => rows[1][p].seqnum < anchorSeqnum /\ rows[1][p].seqnum \in Nat
  BY <1>3 DEF Renewed, Sourced, Row
<1>5. Hears(1, p) < anchorSeqnum
  BY <1>1, <1>4 DEF Hears
<1>6. /\ p \in DOMAIN AnchorMessages(pairs) /\ AnchorMessages(pairs)[p] = Advertise(anchorSeqnum)
  BY <1>1, AnchorMessagesType DEF LineOK
<1>7. /\ rows'[1][p] = NewRow(rows[1][p], Advertise(anchorSeqnum))
      /\ \A n \in Router \ {1} : rows'[n][p] = rows[n][p]
  BY <1>1, <1>6, ToldQueue
<1>8. rows'[1][p] = [known |-> TRUE, seqnum |-> anchorSeqnum, expiry |-> now + RouteTimeout]
  BY <1>1, <1>4, <1>7 DEF NewRow, Advertise
<1>9. p \in QueuedPairs(1, AnchorMessages(pairs))
  BY <1>4, <1>6 DEF QueuedPairs, IsQueued, Advertise
<1>10. p \in workQueue'[1] /\ queueTimer'[1] \in Int /\ queueTimer'[1] <= now + WorkLag
  BY <1>9, ToldQueue
<1>11. \A n \in Router : p \in workQueue[n] => p \in workQueue'[n] /\ queueTimer'[n] = queueTimer[n]
  BY ToldQueue
<1>12. Hears(1, p)' = anchorSeqnum /\ \A n \in Router \ {1} : Hears(n, p)' = Hears(n, p)
  BY <1>7, <1>8 DEF Hears
<1>13. /\ \A j \in Nat : j <= Hears(1, p) => later[j] = issued[j]
       /\ \A j \in Nat : Hears(1, p) < j => later[j] = now
  BY <1>1, <1>2, <1>3
<1>14. /\ \A j \in 0 .. Hears(1, p) : issued[j] <= now /\ \A i \in 0 .. j : issued[i] <= issued[j]
       /\ \A j \in 1 .. Hears(1, p) : issued[j] <= issued[j - 1] + RouteTimeout
       /\ rows[1][p].known => now <= issued[Hears(1, p)] + RouteTimeout
  <2>1. Chronicle(p, issued) /\ Sourced(p, issued)
    BY DEF Renewed
  <2>2. rows[1][p].known => Hears(1, p) = rows[1][p].seqnum
    BY DEF Hears
  <2>3. QED
    BY <2>1, <2>2 DEF Chronicle, Sourced
<1>15. Chronicle(p, later)'
  <2>1. ASSUME NEW j \in 0 .. anchorSeqnum
        PROVE  later[j] <= now /\ \A i \in 0 .. j : later[i] <= later[j]
    BY <1>1, <1>2, <1>3, <1>13, <1>14
  <2>2. ASSUME NEW j \in 1 .. anchorSeqnum
        PROVE  later[j] <= later[j - 1] + RouteTimeout
    <3>1. CASE j <= Hears(1, p)
      BY <1>1, <1>2, <1>3, <1>13, <1>14, <3>1
    <3>2. CASE j = Hears(1, p) + 1
      <4>1. rows[1][p].known
        BY <1>3, <3>2 DEF Hears
      <4>2. QED
        BY <1>1, <1>3, <1>13, <1>14, <3>2, <4>1
    <3>3. CASE Hears(1, p) + 1 < j
      BY <1>1, <1>3, <1>13, <3>3
    <3>4. QED
      BY <1>1, <1>3, <3>1, <3>2, <3>3
  <2>3. QED
    BY <1>1, <1>12, <2>1, <2>2 DEF Chronicle
<1>16. Sourced(p, later)'
  <2>1. later[anchorSeqnum] = now
    BY <1>1, <1>5, <1>13
  <2>2. links'[1] = <<>>
    BY DEF Renewed, Sourced
  <2>3. QED
    BY <1>1, <1>8, <2>1, <2>2 DEF Sourced
<1>17. ASSUME NEW n \in Router
       PROVE  RenewedAt(n, p, later)'
  <2>1. Lag(n) \in Nat
    BY LagSteps
  <2>2. CASE n = 1
    BY <1>1, <1>5, <1>8, <1>12, <1>13, <2>2 DEF RenewedAt
  <2>3. CASE n # 1
    <3>1. Hears(n, p)' = Hears(n, p) /\ rows'[n][p] = rows[n][p] /\ Hears(n, p) <= Hears(1, p)
      BY <1>3, <1>7, <1>12, <2>3
    <3>2. now <= later[Hears(n, p) + 1] + Lag(n)
      <4>1. Hears(n, p) < Hears(1, p) => now <= issued[Hears(n, p) + 1] + Lag(n)
        BY DEF Renewed, RenewedAt
      <4>2. Hears(n, p) \in Int /\ -1 <= Hears(n, p)
        BY <1>3
      <4>3. QED
        BY <1>1, <1>3, <1>13, <2>1, <4>1, <4>2
    <3>3. rows[n][p].known => later[rows[n][p].seqnum] + RouteTimeout <= rows[n][p].expiry
      <4>1. rows[n][p].known => issued[rows[n][p].seqnum] + RouteTimeout <= rows[n][p].expiry
        BY DEF Renewed, RenewedAt
      <4>2. rows[n][p].known => rows[n][p].seqnum = Hears(n, p) /\ Hears(n, p) \in Nat
        BY <1>1, HearsType
      <4>3. QED
        BY <1>13, <3>1, <4>1, <4>2
    <3>4. QED
      BY <1>1, <1>3, <1>5, <1>12, <3>1, <3>2, <3>3 DEF RenewedAt
  <2>4. QED
    BY <2>2, <2>3

<1>18. ASSUME NEW n \in Router \ {1}
       PROVE  Follows(n, p)' /\ OnItsWay(n, p, later)' /\ Justified(n, p, later)'
  <2>1. n - 1 \in Router /\ Lag(1) = 0 /\ Lag(n - 1) \in Nat
    BY LagSteps
  <2>2. Follows(n, p) /\ OnItsWay(n, p, issued) /\ Justified(n, p, issued)
    BY DEF Renewed
  <2>3. /\ Hears(n, p) \in Int /\ -1 <= Hears(n, p) /\ Hears(n - 1, p) \in Int
        /\ -1 <= Hears(n - 1, p) /\ Hears(n - 1, p) <= Hears(1, p)
    BY <1>3, <2>1
  <2>4. Hears(n, p)' = Hears(n, p) /\ rows'[n][p] = rows[n][p]
    BY <1>7, <1>12
  <2>5. Hears(n - 1, p) <= Hears(n - 1, p)' /\ Hears(n - 1, p)' \in Int
    BY <1>1, <1>5, <1>12, <2>1, <2>3
  <2>6. \A i \in DOMAIN links[n] : Announces(links[n][i], p) =>
          /\ Seqnum(links[n][i], p) \in Nat /\ Seqnum(links[n][i], p) <= Hears(n - 1, p)
          /\ Seqnum(links[n][i], p) <= Hears(1, p)
    <3>1. ASSUME NEW i \in DOMAIN links[n], Announces(links[n][i], p)
          PROVE  Seqnum(links[n][i], p) \in Nat
      <4>1. links[n][i].messages[p] \in Message
        BY <3>1, PayloadType DEF LineOK, Announces
      <4>2. QED
        BY <4>1 DEF Seqnum, Message
    <3>2. QED
      BY <2>2, <2>3, <3>1, <1>3 DEF Follows
  <2>7. Follows(n, p)'
    <3>1. Hears(n, p)' <= Hears(n - 1, p)'
      BY <2>2, <2>3, <2>4, <2>5 DEF Follows
    <3>2. \A i \in DOMAIN links[n] : Announces(links[n][i], p) => Seqnum(links[n][i], p) <= Hears(n - 1, p)'
      BY <2>3, <2>5, <2>6
    <3>3. QED
      BY <3>1, <3>2 DEF Follows, Announces, Seqnum
  <2>8. OnItsWay(n, p, later)'
    <3> SUFFICES ASSUME NEW k \in Hears(n, p) .. Hears(n - 1, p)' - 1
        PROVE  \/ p \in workQueue'[n - 1] /\ queueTimer'[n - 1] <= later[k + 1] + Lag(n - 1) + WorkLag
               \/ \E i \in DOMAIN links[n] :
                    /\ Announces(links[n][i], p) /\ k < Seqnum(links[n][i], p)
                    /\ links[n][i].sent <= later[k + 1] + Lag(n - 1) + WorkLag
      BY <2>4 DEF OnItsWay, Announces, Seqnum
    <3>1. k \in Int /\ -1 <= k /\ k + 1 \in Nat
      BY <2>3, <2>5
    <3>2. CASE k < Hears(n - 1, p)
      <4>1. k \in Hears(n, p) .. Hears(n - 1, p) - 1 /\ later[k + 1] = issued[k + 1]
        BY <1>3, <1>13, <2>3, <3>1, <3>2
      <4>2. QED
        BY <1>11, <2>1, <2>2, <4>1 DEF OnItsWay
    <3>3. CASE Hears(n - 1, p) <= k
      <4>1. n - 1 = 1
        <5>1. n - 1 # 1 => Hears(n - 1, p)' = Hears(n - 1, p)
          BY <1>12, <2>1
        <5>2. k < Hears(n - 1, p)'
          BY <2>3, <2>5
        <5>3. QED
          BY <2>3, <2>5, <3>1, <3>3, <5>1, <5>2
      <4>2. later[k + 1] = now
        BY <1>3, <1>13, <3>1, <3>3, <4>1
      <4>3. QED
        BY <1>1, <1>10, <2>1, <4>1, <4>2
    <3>4. QED
      BY <2>3, <3>1, <3>2, <3>3
  <2>9. Justified(n, p, later)'
    <3>1. rows[n][p].known => rows[n][p].seqnum = Hears(n, p) /\ Hears(n, p) \in Nat
      BY <1>1, HearsType
    <3>2. rows[n][p].known => later[rows[n][p].seqnum] = issued[rows[n][p].seqnum]
      BY <1>3, <1>13, <3>1
    <3>3. \A i \in DOMAIN links[n] : Announces(links[n][i], p) =>
            later[Seqnum(links[n][i], p)] = issued[Seqnum(links[n][i], p)]
      BY <1>13, <2>6
    <3>4. \A i \in DOMAIN links[n], h \in Int : h \in 1 .. i - 1 => h \in DOMAIN links[n]
      <4>1. links[n] \in Seq(Payload)
        BY DEF LineOK, LinksOK
      <4>2. QED
        BY <4>1
    <3>5. QED
      BY <2>2, <2>4, <3>2, <3>3, <3>4 DEF Justified, Outlived, Announces, Withdraws, Seqnum
  <2>10. QED
    BY <2>7, <2>8, <2>9
<1>19. Renewed(p, later)'
  BY <1>15, <1>16, <1>17, <1>18 DEF Renewed
<1>20. QED
  BY <1>2, <1>19

\* Time passes.
LEMMA TimePasses ==
  ASSUME RouteTimersAssumption, LineOK, Punctual, RoutesTick,
         NEW p \in Pairs, NEW issued \in [Nat -> Int], Renewed(p, issued)
  PROVE  Renewed(p, issued)'
<1>1. /\ now \in Nat /\ now' = now + 1 /\ rows' = rows /\ links' = links /\ workQueue' = workQueue
      /\ queueTimer' = queueTimer /\ anchored' = anchored /\ anchorSeqnum' = anchorSeqnum
      /\ anchorTimer' = anchorTimer /\ 1 \in Router
  BY Constants DEF RoutesTick, tables, LineOK, AnchorOK
<1>2. \A n \in Router : Hears(n, p)' = Hears(n, p) /\ Hears(n, p) \in Int /\ -1 <= Hears(n, p)
  BY <1>1, HearsType DEF Hears
<1>3. Chronicle(p, issued)'
  <2>1. Chronicle(p, issued)
    BY DEF Renewed
  <2>2. \A j \in 0 .. Hears(1, p) : issued[j] \in Int /\ issued[j] <= now + 1
    BY <1>1, <1>2, <2>1 DEF Chronicle
  <2>3. QED
    BY <1>1, <1>2, <2>1, <2>2 DEF Chronicle
<1>4. Sourced(p, issued)'
  BY <1>1 DEF Renewed, Sourced
<1>5. ASSUME NEW n \in Router
      PROVE  RenewedAt(n, p, issued)'
  <2>1. RenewedAt(n, p, issued)
    BY DEF Renewed
  <2>2. CASE n = 1
    BY <1>1, <1>2, <2>1, <2>2 DEF RenewedAt
  <2>3. CASE n # 1
    <3>1. n - 1 \in Router
      BY <2>3, LagSteps
    <3>2. queueTimer[n - 1] \in Int /\ queueTimer[n - 1] # now /\ PunctualAt(n - 1)
      BY <3>1 DEF RoutesTick, Punctual, LineOK, QueuesOK
    <3>3. queueTimer[n - 1] # Never => now + 1 <= queueTimer[n - 1]
      BY <1>1, <3>2 DEF PunctualAt
    <3>4. workQueue[n - 1] # {} => queueTimer[n - 1] # Never
      BY <3>2 DEF PunctualAt
    <3>5. \A i \in DOMAIN links[n] : now + 1 <= links[n][i].sent + MaxDelay
      <4>1. \A i \in DOMAIN links[n] : links[n][i].sent \in Nat /\ now < links[n][i].sent + MaxDelay
        BY PayloadType DEF RoutesTick, LineOK
      <4>2. QED
        BY <1>1, <4>1, Constants
    <3>6. Hears(n, p) < Hears(1, p) => now + 1 <= issued[Hears(n, p) + 1] + Lag(n)
      <4> SUFFICES ASSUME Hears(n, p) < Hears(1, p) PROVE now + 1 <= issued[Hears(n, p) + 1] + Lag(n)
        OBVIOUS
      <4>1. Hears(n, p) \in Hears(n, p) .. Hears(1, p) - 1 /\ n \in Router \ {1} /\ now + 1 \in Nat
        BY <1>1, <1>2, <2>3
      <4>2. QED
        BY <1>1, <3>3, <3>4, <3>5, <4>1, Deadline
    <3>7. QED
      BY <1>1, <1>2, <2>1, <3>6 DEF RenewedAt
  <2>4. QED
    BY <2>2, <2>3
<1>6. ASSUME NEW n \in Router \ {1}
      PROVE  Follows(n, p)' /\ OnItsWay(n, p, issued)' /\ Justified(n, p, issued)'
  <2>1. Follows(n, p) /\ OnItsWay(n, p, issued) /\ Justified(n, p, issued) /\ n - 1 \in Router
    BY LagSteps DEF Renewed
  <2>2. Follows(n, p)'
    BY <1>1, <1>2, <2>1 DEF Follows, Announces, Seqnum
  <2>3. OnItsWay(n, p, issued)'
    BY <1>1, <1>2, <2>1 DEF OnItsWay, Announces, Seqnum
  <2>4. Justified(n, p, issued)'
    BY <1>1, <2>1 DEF Justified, Outlived, Announces, Withdraws, Seqnum
  <2>5. QED
    BY <2>2, <2>3, <2>4
<1>7. QED
  BY <1>3, <1>4, <1>5, <1>6 DEF Renewed

\* What a router learns of p from the first payload on its link.
LEMMA Learns ==
  ASSUME RouteTimersAssumption, LineOK, Punctual, NEW n \in Router \ {1}, ReceivePayload(n),
         NEW p \in Pairs, NEW issued \in [Nat -> Int], Renewed(p, issued)
  PROVE  /\ rows'[n][p] \in Row /\ Hears(n, p)' \in Int
         /\ Hears(n, p) <= Hears(n, p)' /\ Hears(n, p)' <= Hears(n - 1, p)
         /\ Hears(n, p) < Hears(n, p)' =>
              p \in workQueue'[n] /\ queueTimer'[n] \in Int /\ queueTimer'[n] <= now + WorkLag
         /\ rows'[n][p].known => issued[rows'[n][p].seqnum] + RouteTimeout <= rows'[n][p].expiry
         /\ Announces(links[n][1], p) => Seqnum(links[n][1], p) <= Hears(n, p)'
         /\ rows'[n][p].known =>
              \/ rows[n][p].known /\ rows'[n][p].seqnum = rows[n][p].seqnum
              \/ Announces(links[n][1], p) /\ rows'[n][p].seqnum = Seqnum(links[n][1], p)
<1> DEFINE payload == links[n][1]
<1>1. /\ payload = Head(links[n]) /\ 1 \in DOMAIN links[n] /\ Told(n, payload.messages)
      /\ payload.sent \in Nat /\ \A q \in DOMAIN payload.messages : payload.messages[q] \in Message
  <2>1. payload = Head(links[n]) /\ 1 \in DOMAIN links[n]
    BY HeadEffect DEF ReceivePayload, LineOK
  <2>2. QED
    BY <2>1, ToldSteps, PayloadType DEF LineOK
<1>2. /\ rows'[n][p] = IF p \in DOMAIN payload.messages THEN NewRow(rows[n][p], payload.messages[p])
                       ELSE rows[n][p]
      /\ p \in QueuedPairs(n, payload.messages) =>
           p \in workQueue'[n] /\ queueTimer'[n] \in Int /\ queueTimer'[n] <= now + WorkLag
  BY <1>1, ToldQueue
<1>3. payload.sent <= now
  BY <1>1 DEF Punctual, OnTime
<1>4. /\ rows[n][p] \in Row /\ Hears(n, p) <= Hears(n - 1, p) /\ n - 1 \in Router /\ 1 \in Router
      /\ Announces(payload, p) => Seqnum(payload, p) <= Hears(n - 1, p)
      /\ Withdraws(payload, p) => Outlived(n, p, issued, payload.sent)
      /\ rows[n][p].known => issued[rows[n][p].seqnum] + RouteTimeout <= rows[n][p].expiry
      /\ Hears(n - 1, p) <= Hears(1, p)
  BY <1>1, HearsType, LagSteps, Constants DEF Renewed, RenewedAt, Follows, Justified
<1>5. /\ Hears(n, p) \in Int /\ -1 <= Hears(n, p) /\ Hears(n - 1, p) \in Int /\ Hears(1, p) \in Int
      /\ now \in Nat /\ RouteTimeout \in Nat
      /\ rows[n][p].known => Hears(n, p) = rows[n][p].seqnum /\ rows[n][p].seqnum \in Nat
  BY <1>4, HearsType, Constants DEF LineOK, AnchorOK
<1> HIDE DEF payload
<1>6. CASE p \notin DOMAIN payload.messages
  <2>1. rows'[n][p] = rows[n][p] /\ Hears(n, p)' = Hears(n, p) /\ ~Announces(payload, p)
    BY <1>2, <1>6 DEF Announces, Hears
  <2>2. QED
    BY <1>4, <1>5, <2>1 DEF payload
<1>7. CASE Announces(payload, p)
  <2>1. PICK s \in Nat : s = Seqnum(payload, p) /\ s = payload.messages[p].seqnum
    BY <1>1, <1>7 DEF Announces, Seqnum, Message
  <2>2. p \in DOMAIN payload.messages /\ payload.messages[p].advertise
    BY <1>7 DEF Announces
  <2>3. CASE rows[n][p].known /\ s < rows[n][p].seqnum
    <3>1. rows'[n][p] = rows[n][p] /\ Hears(n, p)' = Hears(n, p)
      BY <1>2, <2>1, <2>2, <2>3 DEF NewRow, Hears
    <3>2. QED
      BY <1>4, <1>5, <2>1, <2>3, <3>1 DEF payload
  <2>4. CASE ~(rows[n][p].known /\ s < rows[n][p].seqnum)
    <3>1. rows'[n][p] = [known |-> TRUE, seqnum |-> s, expiry |-> now + RouteTimeout]
      BY <1>2, <2>1, <2>2, <2>4 DEF NewRow
    <3>2. Hears(n, p)' = s /\ rows'[n][p] \in Row /\ Hears(n, p) <= s
      BY <1>5, <2>1, <2>4, <3>1 DEF Hears, Row
    <3>3. Hears(n, p) < s => p \in QueuedPairs(n, payload.messages)
      BY <1>5, <2>1, <2>2 DEF QueuedPairs, IsQueued, Hears
    <3>4. issued[s] <= now /\ issued[s] \in Int
      <4>1. s \in 0 .. Hears(1, p)
        BY <1>4, <1>5, <1>7, <2>1
      <4>2. QED
        BY <4>1 DEF Renewed, Chronicle
    <3>5. QED
      BY <1>2, <1>4, <1>5, <1>7, <2>1, <3>1, <3>2, <3>3, <3>4 DEF payload
  <2>5. QED
    BY <2>3, <2>4
<1>8. CASE Withdraws(payload, p)
  <2>1. p \in DOMAIN payload.messages /\ ~payload.messages[p].advertise /\ ~Announces(payload, p)
    BY <1>8 DEF Withdraws, Announces
  <2>2. \/ rows'[n][p] = rows[n][p]
        \/ rows[n][p].known /\ rows'[n][p] = [rows[n][p] EXCEPT !.expiry = now]
    BY <1>2, <2>1 DEF NewRow, IsReachable
  <2>3. rows'[n][p] \in Row /\ rows'[n][p].known = rows[n][p].known /\ rows'[n][p].seqnum = rows[n][p].seqnum
    BY <1>4, <1>5, <2>2 DEF Row
  <2>4. Hears(n, p)' = Hears(n, p)
    BY <2>3 DEF Hears
  <2>5. rows[n][p].known => issued[rows[n][p].seqnum] + RouteTimeout <= now
    <3>1. rows[n][p].known => issued[rows[n][p].seqnum] + RouteTimeout <= payload.sent
      BY <1>4, <1>8 DEF Outlived
    <3>2. rows[n][p].known => issued[rows[n][p].seqnum] \in Int
      BY <1>5
    <3>3. QED
      BY <1>1, <1>3, <1>5, <3>1, <3>2
  <2>6. rows'[n][p].expiry = rows[n][p].expiry \/ rows'[n][p].expiry = now
    BY <1>4, <2>2 DEF Row
  <2>7. QED
    BY <1>4, <1>5, <2>1, <2>3, <2>4, <2>5, <2>6 DEF payload
<1>9. QED
  BY <1>6, <1>7, <1>8 DEF Announces, Withdraws

\* A payload arrives.
LEMMA PayloadArrives ==
  ASSUME RouteTimersAssumption, LineOK, Punctual, NEW n \in Router \ {1}, ReceivePayload(n),
         NEW p \in Pairs, NEW issued \in [Nat -> Int], Renewed(p, issued)
  PROVE  Renewed(p, issued)'
<1>1. /\ now' = now /\ anchored' = anchored /\ anchorSeqnum' = anchorSeqnum /\ anchorTimer' = anchorTimer
      /\ 1 \in Router /\ n - 1 \in Router /\ Told(n, Head(links[n]).messages) /\ now \in Nat
      /\ Lag(n) \in Nat /\ WorkLag \in Nat
  BY Constants, LagSteps, ToldSteps DEF ReceivePayload, LineOK, AnchorOK
<1>2. /\ links[n] # <<>> /\ links' = [links EXCEPT ![n] = Tail(links[n])]
  BY DEF ReceivePayload, LineOK, LinksOK
<1>3. /\ \A m \in Router \ {n} : links'[m] = links[m]
      /\ Len(links[n]) \in Nat /\ DOMAIN links[n] = 1 .. Len(links[n])
      /\ DOMAIN links'[n] = 1 .. Len(links[n]) - 1
      /\ \A i \in DOMAIN links'[n] : i + 1 \in DOMAIN links[n] /\ links'[n][i] = links[n][i + 1]
  BY <1>2, HeadEffect DEF LineOK
<1>4. /\ \A m \in Router \ {n} : rows'[m][p] = rows[m][p]
      /\ \A m \in Router : p \in workQueue[m] => p \in workQueue'[m] /\ queueTimer'[m] = queueTimer[m]
  BY <1>1, ToldQueue
<1>5. /\ Hears(n, p)' \in Int
      /\ Hears(n, p) <= Hears(n, p)' /\ Hears(n, p)' <= Hears(n - 1, p)
      /\ Hears(n, p) < Hears(n, p)' =>
           p \in workQueue'[n] /\ queueTimer'[n] \in Int /\ queueTimer'[n] <= now + WorkLag
      /\ rows'[n][p].known => issued[rows'[n][p].seqnum] + RouteTimeout <= rows'[n][p].expiry
      /\ Announces(links[n][1], p) => Seqnum(links[n][1], p) <= Hears(n, p)'
      /\ rows'[n][p].known =>
           \/ rows[n][p].known /\ rows'[n][p].seqnum = rows[n][p].seqnum
           \/ Announces(links[n][1], p) /\ rows'[n][p].seqnum = Seqnum(links[n][1], p)
  BY Learns
<1>6. /\ \A m \in Router : Hears(m, p) \in Int /\ -1 <= Hears(m, p) /\ Hears(m, p) <= Hears(1, p)
      /\ \A m \in Router \ {n} : Hears(m, p)' = Hears(m, p)
  BY <1>1, <1>4, HearsType DEF Renewed, RenewedAt, Hears
<1>7. Chronicle(p, issued)'
  BY <1>1, <1>6 DEF Renewed, Chronicle
<1>8. Sourced(p, issued)'
  BY <1>1, <1>3, <1>4 DEF Renewed, Sourced
<1>9. ASSUME NEW m \in Router
      PROVE  RenewedAt(m, p, issued)'
  <2>1. RenewedAt(m, p, issued)
    BY DEF Renewed
  <2>2. CASE m # n
    BY <1>1, <1>4, <1>6, <2>1, <2>2 DEF RenewedAt
  <2>3. CASE m = n
    <3>1. Hears(n, p)' <= Hears(1, p) /\ Hears(1, p)' = Hears(1, p)
      BY <1>1, <1>5, <1>6
    <3>2. Hears(n, p)' < Hears(1, p) => now <= issued[Hears(n, p)' + 1] + Lag(n)
      <4> SUFFICES ASSUME NEW k \in Int, k = Hears(n, p)', k < Hears(1, p)
                   PROVE  now <= issued[k + 1] + Lag(n)
        BY <1>5
      <4>1. k \in Hears(n, p) .. Hears(1, p) - 1
        BY <1>1, <1>5, <1>6
      <4>2. QED
        BY <4>1, InTime
    <3>3. QED
      BY <1>1, <1>5, <2>3, <3>1, <3>2 DEF RenewedAt
  <2>4. QED
    BY <2>2, <2>3

<1>10. Follows(n, p)' /\ OnItsWay(n, p, issued)' /\ Justified(n, p, issued)'
  <2>1. Follows(n, p) /\ OnItsWay(n, p, issued) /\ Justified(n, p, issued)
    BY DEF Renewed
  <2>2. n - 1 \in Router \ {n} /\ Hears(n - 1, p)' = Hears(n - 1, p) /\ 1 \in Int
    BY <1>1, <1>6 DEF Router
  <2>3. Follows(n, p)'
    BY <1>3, <1>5, <2>1, <2>2 DEF Follows, Announces, Seqnum
  <2>4. OnItsWay(n, p, issued)'
    <3> SUFFICES ASSUME NEW k \in Hears(n, p)' .. Hears(n - 1, p) - 1
        PROVE  \/ p \in workQueue'[n - 1] /\ queueTimer'[n - 1] <= issued[k + 1] + Lag(n - 1) + WorkLag
               \/ \E i \in DOMAIN links'[n] :
                    /\ Announces(links'[n][i], p) /\ k < Seqnum(links'[n][i], p)
                    /\ links'[n][i].sent <= issued[k + 1] + Lag(n - 1) + WorkLag
      BY <2>2 DEF OnItsWay, Announces, Seqnum
    <3>1. k \in Hears(n, p) .. Hears(n - 1, p) - 1 /\ k \in Int /\ Hears(n, p)' <= k
      BY <1>1, <1>5, <1>6
    <3>2. CASE p \in workQueue[n - 1] /\ queueTimer[n - 1] <= issued[k + 1] + Lag(n - 1) + WorkLag
      BY <1>1, <1>4, <3>2
    <3>3. CASE \E i \in DOMAIN links[n] :
                 /\ Announces(links[n][i], p) /\ k < Seqnum(links[n][i], p)
                 /\ links[n][i].sent <= issued[k + 1] + Lag(n - 1) + WorkLag
      <4>1. PICK i \in DOMAIN links[n] :
              /\ Announces(links[n][i], p) /\ k < Seqnum(links[n][i], p)
              /\ links[n][i].sent <= issued[k + 1] + Lag(n - 1) + WorkLag
        BY <3>3
      <4>2. i # 1
        <5>1. ASSUME i = 1 PROVE FALSE
          <6>1. Seqnum(links[n][1], p) \in Int
            BY <4>1, <5>1, PayloadType DEF LineOK, Announces, Seqnum, Message
          <6>2. QED
            BY <1>5, <3>1, <4>1, <5>1, <6>1
        <5>2. QED
          BY <5>1
      <4>3. i - 1 \in DOMAIN links'[n] /\ links'[n][i - 1] = links[n][i]
        <5>1. i - 1 \in DOMAIN links'[n] /\ (i - 1) + 1 = i
          BY <1>3, <4>2
        <5>2. QED
          BY <1>3, <5>1
      <4>4. QED
        BY <4>1, <4>3
    <3>4. QED
      BY <2>1, <3>1, <3>2, <3>3 DEF OnItsWay
  <2>5. Justified(n, p, issued)'
    <3> SUFFICES ASSUME NEW i \in DOMAIN links'[n], Withdraws(links'[n][i], p)
        PROVE  /\ rows'[n][p].known => issued[rows'[n][p].seqnum] + RouteTimeout <= links'[n][i].sent
               /\ \A h \in 1 .. i - 1 : Announces(links'[n][h], p) =>
                    issued[Seqnum(links'[n][h], p)] + RouteTimeout <= links'[n][i].sent
      BY DEF Justified, Outlived, Announces, Withdraws, Seqnum
    <3>1. i + 1 \in DOMAIN links[n] /\ links'[n][i] = links[n][i + 1] /\ i \in Int /\ 1 <= i
      BY <1>3
    <3>2. /\ rows[n][p].known => issued[rows[n][p].seqnum] + RouteTimeout <= links'[n][i].sent
          /\ \A h \in 1 .. i : Announces(links[n][h], p) =>
               issued[Seqnum(links[n][h], p)] + RouteTimeout <= links'[n][i].sent
      <4>1. \A h \in 1 .. i : h \in 1 .. (i + 1) - 1
        BY <3>1
      <4>2. QED
        BY <2>1, <3>1, <4>1 DEF Justified, Outlived
    <3>3. rows'[n][p].known => issued[rows'[n][p].seqnum] + RouteTimeout <= links'[n][i].sent
      <4>1. 1 \in 1 .. i
        BY <3>1
      <4>2. QED
        BY <1>5, <3>2, <4>1
    <3>4. ASSUME NEW h \in 1 .. i - 1, Announces(links'[n][h], p)
          PROVE  issued[Seqnum(links'[n][h], p)] + RouteTimeout <= links'[n][i].sent
      <4>1. h \in DOMAIN links'[n] /\ h + 1 \in 1 .. i
        <5>1. i \in 1 .. Len(links[n]) - 1 /\ Len(links[n]) \in Nat
          BY <1>3
        <5>2. h \in 1 .. Len(links[n]) - 1 /\ h + 1 \in 1 .. i
          BY <3>4, <5>1
        <5>3. QED
          BY <1>3, <5>2
      <4>2. links'[n][h] = links[n][h + 1]
        BY <1>3, <4>1
      <4>3. QED
        BY <3>2, <3>4, <4>1, <4>2
    <3>5. QED
      BY <3>3, <3>4
  <2>6. QED
    BY <2>3, <2>4, <2>5
<1>11. ASSUME NEW m \in Router \ {1}, m # n
       PROVE  Follows(m, p)' /\ OnItsWay(m, p, issued)' /\ Justified(m, p, issued)'
  <2>1. Follows(m, p) /\ OnItsWay(m, p, issued) /\ Justified(m, p, issued) /\ m - 1 \in Router
    BY LagSteps DEF Renewed
  <2>2. links'[m] = links[m] /\ rows'[m][p] = rows[m][p] /\ Hears(m, p)' = Hears(m, p)
    BY <1>3, <1>4, <1>6, <1>11
  <2>3. Hears(m - 1, p) <= Hears(m - 1, p)' /\ Hears(m - 1, p)' \in Int
    <3>1. CASE m - 1 = n
      BY <1>5, <3>1
    <3>2. CASE m - 1 # n
      BY <1>6, <2>1, <3>2
    <3>3. QED
      BY <3>1, <3>2
  <2>4. Follows(m, p)'
    <3>1. \A i \in DOMAIN links[m] : Announces(links[m][i], p) => Seqnum(links[m][i], p) \in Int
      BY PayloadType DEF LineOK, Announces, Seqnum, Message
    <3>2. /\ Hears(m, p) <= Hears(m - 1, p)'
          /\ \A i \in DOMAIN links[m] :
               Announces(links[m][i], p) => Seqnum(links[m][i], p) <= Hears(m - 1, p)'
      BY <1>6, <2>1, <2>3, <3>1 DEF Follows
    <3>3. QED
      BY <2>2, <3>2 DEF Follows, Announces, Seqnum
  <2>5. OnItsWay(m, p, issued)'
    <3> SUFFICES ASSUME NEW k \in Hears(m, p) .. Hears(m - 1, p)' - 1
        PROVE  \/ p \in workQueue'[m - 1] /\ queueTimer'[m - 1] <= issued[k + 1] + Lag(m - 1) + WorkLag
               \/ \E i \in DOMAIN links[m] :
                    /\ Announces(links[m][i], p) /\ k < Seqnum(links[m][i], p)
                    /\ links[m][i].sent <= issued[k + 1] + Lag(m - 1) + WorkLag
      BY <2>2 DEF OnItsWay, Announces, Seqnum
    <3>1. k \in Int /\ Hears(m, p) <= k /\ k < Hears(m - 1, p)'
      BY <1>6, <2>3
    <3>2. CASE k < Hears(m - 1, p)
      <4>1. k \in Hears(m, p) .. Hears(m - 1, p) - 1
        BY <1>6, <2>1, <3>1, <3>2
      <4>2. QED
        BY <1>4, <2>1, <4>1 DEF OnItsWay
    <3>3. CASE Hears(m - 1, p) <= k
      <4>1. m - 1 = n
        <5>1. m - 1 # n => Hears(m - 1, p)' = Hears(m - 1, p)
          BY <1>6, <2>1
        <5>2. Hears(m - 1, p) \in Int
          BY <1>6, <2>1
        <5>3. QED
          BY <2>3, <3>1, <3>3, <5>1, <5>2
      <4>2. Hears(n, p) < Hears(n, p)' /\ k \in Hears(n, p) .. Hears(1, p) - 1 /\ k + 1 \in Nat
        BY <1>1, <1>5, <1>6, <3>1, <3>3, <4>1
      <4>3. now <= issued[k + 1] + Lag(n) /\ issued[k + 1] \in Int
        BY <4>2, InTime
      <4>4. p \in workQueue'[n] /\ queueTimer'[n] \in Int /\ queueTimer'[n] <= now + WorkLag
        BY <1>5, <4>2
      <4>5. QED
        BY <1>1, <4>1, <4>3, <4>4
    <3>4. QED
      BY <1>6, <2>1, <3>1, <3>2, <3>3
  <2>6. Justified(m, p, issued)'
    BY <2>1, <2>2 DEF Justified, Outlived, Announces, Withdraws, Seqnum
  <2>7. QED
    BY <2>4, <2>5, <2>6
<1>12. QED
  BY <1>7, <1>8, <1>9, <1>10, <1>11 DEF Renewed

\* A work queue is sent.  What is queued for another router is in time for it: the route it is
\* about has not timed out here, so that it is sent as an advertisement.
LEMMA QueueIsSent ==
  ASSUME RouteTimersAssumption, Lag(Routers) < RouteTimeout, LineOK, Punctual,
         NEW n \in Router, ProcessWorkQueueOf(n),
         NEW p \in Pairs, NEW issued \in [Nat -> Int], Renewed(p, issued)
  PROVE  Renewed(p, issued)'
<1>1. PICK payload :
        payload = [sent |-> now, messages |-> [q \in workQueue[n] |-> MessageFor(rows[n][q])]]
  OBVIOUS
<1>2. /\ now' = now /\ anchored' = anchored /\ anchorSeqnum' = anchorSeqnum /\ anchorTimer' = anchorTimer
      /\ rows' = rows /\ queueTimer[n] = now /\ now \in Nat /\ 1 \in Router
      /\ WorkLag \in Nat /\ MaxDelay \in Nat /\ RouteTimeout \in Nat
  BY Constants DEF ProcessWorkQueueOf, LineOK, AnchorOK
<1>3. /\ \A m \in Router \ {n} : queueTimer'[m] = queueTimer[m] /\ workQueue'[m] = workQueue[m]
      /\ \A m \in Router : IF m = n + 1 THEN links'[m] = Append(links[m], payload)
                           ELSE links'[m] = links[m]
      /\ payload \in Payload
  BY <1>1, ProcessEffect
<1>4. \A m \in Router : Hears(m, p)' = Hears(m, p) /\ Hears(m, p) \in Int /\ -1 <= Hears(m, p)
  BY <1>2, HearsType DEF Hears
<1>5. Chronicle(p, issued)'
  BY <1>2, <1>4 DEF Renewed, Chronicle
<1>6. Sourced(p, issued)'
  <2>1. 1 # n + 1
    BY Constants DEF Router
  <2>2. QED
    BY <1>2, <1>3, <2>1 DEF Renewed, Sourced
<1>7. \A m \in Router : RenewedAt(m, p, issued)'
  BY <1>2, <1>4 DEF Renewed, RenewedAt
<1>8. ASSUME NEW m \in Router \ {1}, m # n + 1
      PROVE  Follows(m, p)' /\ OnItsWay(m, p, issued)' /\ Justified(m, p, issued)'
  <2>1. /\ Follows(m, p) /\ OnItsWay(m, p, issued) /\ Justified(m, p, issued)
        /\ m - 1 \in Router /\ m \in Int /\ n \in Int
    BY LagSteps, Constants DEF Renewed, Router
  <2>2. m - 1 # n /\ links'[m] = links[m]
    BY <1>3, <1>8, <2>1
  <2>3. Follows(m, p)'
    BY <1>4, <2>1, <2>2 DEF Follows, Announces, Seqnum
  <2>4. OnItsWay(m, p, issued)'
    BY <1>3, <1>4, <2>1, <2>2 DEF OnItsWay, Announces, Seqnum
  <2>5. Justified(m, p, issued)'
    BY <1>2, <2>1, <2>2 DEF Justified, Outlived, Announces, Withdraws, Seqnum
  <2>6. QED
    BY <2>3, <2>4, <2>5
<1>9. ASSUME NEW m \in Router \ {1}, m = n + 1
      PROVE  Follows(m, p)' /\ OnItsWay(m, p, issued)' /\ Justified(m, p, issued)'
  <2>1. /\ Follows(m, p) /\ OnItsWay(m, p, issued) /\ Justified(m, p, issued) /\ m - 1 = n
        /\ RenewedAt(n, p, issued) /\ Hears(n, p) <= Hears(1, p)
    BY <1>9, Constants DEF Renewed, RenewedAt, Router
  <2>2. /\ Len(links[m]) \in Nat /\ DOMAIN links[m] = 1 .. Len(links[m])
        /\ DOMAIN links'[m] = 1 .. Len(links[m]) + 1
        /\ \A i \in DOMAIN links[m] : i \in DOMAIN links'[m] /\ links'[m][i] = links[m][i]
        /\ links'[m][Len(links[m]) + 1] = payload
    <3>1. links[m] \in Seq(Payload) /\ links'[m] = Append(links[m], payload)
      BY <1>3, <1>9 DEF LineOK, LinksOK
    <3>2. QED
      BY <1>3, <3>1
  <2>3. /\ payload.sent = now /\ rows[n][p] \in Row
        /\ Announces(payload, p) <=> p \in workQueue[n] /\ IsReachable(rows[n][p])
        /\ Withdraws(payload, p) <=> p \in workQueue[n] /\ ~IsReachable(rows[n][p])
        /\ Announces(payload, p) => Seqnum(payload, p) = Hears(n, p)
    <3>1. payload.sent = now /\ payload.messages = [q \in workQueue[n] |-> MessageFor(rows[n][q])]
      BY <1>1
    <3>2. p \in workQueue[n] => payload.messages[p] = MessageFor(rows[n][p])
      BY <3>1
    <3>3. rows[n][p] \in Row /\ DOMAIN payload.messages = workQueue[n]
      BY <3>1, HearsType
    <3>4. IsReachable(rows[n][p]) => rows[n][p].known
      BY DEF IsReachable
    <3>5. IsReachable(rows[n][p]) =>
            MessageFor(rows[n][p]).advertise /\ MessageFor(rows[n][p]).seqnum = rows[n][p].seqnum
      BY DEF MessageFor, Advertise
    <3>6. ~IsReachable(rows[n][p]) => ~MessageFor(rows[n][p]).advertise
      BY DEF MessageFor, Withdraw
    <3>7. QED
      BY <3>1, <3>2, <3>3, <3>4, <3>5, <3>6 DEF Announces, Withdraws, Seqnum, Hears
  <2>4. /\ rows[n][p].known => Hears(n, p) = rows[n][p].seqnum /\ Hears(n, p) \in Nat
        /\ rows[m][p].known => Hears(m, p) = rows[m][p].seqnum /\ Hears(m, p) \in Nat
        /\ Hears(m, p) <= Hears(n, p)
        /\ rows[n][p].known => issued[Hears(n, p)] + RouteTimeout <= rows[n][p].expiry
    BY <2>1, HearsType DEF RenewedAt, Follows
  <2>5. \A i, j \in Nat : i <= j /\ j <= Hears(n, p) => issued[i] <= issued[j]
    <3> SUFFICES ASSUME NEW i \in Nat, NEW j \in Nat, i <= j, j <= Hears(n, p)
                 PROVE  issued[i] <= issued[j]
      OBVIOUS
    <3>1. j \in 0 .. Hears(1, p) /\ i \in 0 .. j
      BY <1>2, <1>4, <2>1
    <3>2. QED
      BY <3>1 DEF Renewed, Chronicle

  <2>6. Follows(m, p)'
    <3>1. \A i \in DOMAIN links'[m] :
            Announces(links'[m][i], p) => Seqnum(links'[m][i], p) <= Hears(n, p)
      <4> SUFFICES ASSUME NEW i \in DOMAIN links'[m], Announces(links'[m][i], p)
                   PROVE  Seqnum(links'[m][i], p) <= Hears(n, p)
        OBVIOUS
      <4>1. CASE i \in DOMAIN links[m]
        BY <2>1, <2>2, <4>1 DEF Follows
      <4>2. CASE i = Len(links[m]) + 1
        BY <1>4, <2>2, <2>3, <4>2
      <4>3. QED
        BY <2>2, <4>1, <4>2
    <3>2. QED
      BY <1>4, <2>1, <2>4, <3>1 DEF Follows, Announces, Seqnum
  <2>7. OnItsWay(m, p, issued)'
    <3> SUFFICES ASSUME NEW k \in Hears(m, p) .. Hears(n, p) - 1
        PROVE  \E i \in DOMAIN links'[m] :
                 /\ Announces(links'[m][i], p) /\ k < Seqnum(links'[m][i], p)
                 /\ links'[m][i].sent <= issued[k + 1] + Lag(n) + WorkLag
      BY <1>4, <2>1 DEF OnItsWay, Announces, Seqnum
    <3>1. CASE p \in workQueue[n] /\ now <= issued[k + 1] + Lag(n) + WorkLag
      <4>1. /\ k \in Int /\ -1 <= k /\ k < Hears(n, p) /\ k + 1 \in Nat /\ k + 1 <= Hears(n, p)
            /\ Hears(n, p) \in Nat /\ issued[k + 1] \in Int /\ issued[Hears(n, p)] \in Int
        BY <1>4
      <4>2. rows[n][p].known
        BY <4>1 DEF Hears
      <4>3. issued[k + 1] <= issued[Hears(n, p)]
        BY <2>5, <4>1
      <4>4. Lag(n) \in Nat /\ Lag(n) + WorkLag < RouteTimeout
        <5>1. Lag(m) = Lag(n) + WorkLag + MaxDelay /\ Lag(m) <= Lag(Routers)
          BY <2>1, LagSteps
        <5>2. Lag(n) \in Nat /\ Lag(m) \in Nat /\ Lag(Routers) \in Nat
          <6>1. Routers \in Router
            BY Constants DEF Router
          <6>2. QED
            BY <6>1, LagSteps
        <5>3. QED
          BY <1>2, <5>1, <5>2
      <4>5. rows[n][p].expiry \in Int /\ now < rows[n][p].expiry
        BY <1>2, <2>3, <2>4, <3>1, <4>1, <4>2, <4>3, <4>4 DEF Row
      <4>6. Announces(payload, p) /\ Seqnum(payload, p) = Hears(n, p)
        BY <2>3, <3>1, <4>2, <4>5 DEF IsReachable
      <4>7. Len(links[m]) + 1 \in DOMAIN links'[m]
        BY <2>2
      <4>8. QED
        BY <2>2, <2>3, <3>1, <4>1, <4>6, <4>7
    <3>2. CASE \E i \in DOMAIN links[m] :
                 /\ Announces(links[m][i], p) /\ k < Seqnum(links[m][i], p)
                 /\ links[m][i].sent <= issued[k + 1] + Lag(n) + WorkLag
      BY <2>2, <3>2
    <3>3. QED
      BY <1>2, <2>1, <3>1, <3>2 DEF OnItsWay
  <2>8. Justified(m, p, issued)'
    <3> SUFFICES ASSUME NEW i \in DOMAIN links'[m], Withdraws(links'[m][i], p)
        PROVE  /\ Outlived(m, p, issued, links'[m][i].sent)
               /\ \A h \in 1 .. i - 1 : Announces(links'[m][h], p) =>
                    issued[Seqnum(links'[m][h], p)] + RouteTimeout <= links'[m][i].sent
      BY <1>2 DEF Justified, Outlived, Announces, Withdraws, Seqnum
    <3>1. CASE i \in DOMAIN links[m]
      <4>1. \A h \in 1 .. i - 1 : h \in DOMAIN links[m]
        BY <2>2, <3>1
      <4>2. QED
        BY <2>1, <2>2, <3>1, <4>1 DEF Justified
    <3>2. CASE i = Len(links[m]) + 1
      <4>1. links'[m][i] = payload /\ links'[m][i].sent = now /\ ~IsReachable(rows[n][p])
        BY <2>2, <2>3, <3>2
      <4>2. rows[n][p].known => issued[Hears(n, p)] + RouteTimeout <= now
        <5>1. rows[n][p].known => rows[n][p].expiry <= now /\ rows[n][p].expiry \in Int
          BY <1>2, <2>3, <4>1 DEF IsReachable, Row
        <5>2. rows[n][p].known => issued[Hears(n, p)] \in Int
          BY <2>4
        <5>3. QED
          BY <1>2, <2>4, <5>1, <5>2
      <4>3. ASSUME NEW s \in Nat, s <= Hears(n, p)
            PROVE  issued[s] + RouteTimeout <= now
        <5>1. rows[n][p].known /\ Hears(n, p) \in Nat
          BY <1>4, <4>3 DEF Hears
        <5>2. issued[s] <= issued[Hears(n, p)] /\ issued[s] \in Int /\ issued[Hears(n, p)] \in Int
          BY <2>5, <4>3, <5>1
        <5>3. QED
          BY <1>2, <4>2, <5>1, <5>2
      <4>4. Outlived(m, p, issued, now)
        BY <1>4, <2>4, <4>3 DEF Outlived
      <4>5. ASSUME NEW h \in 1 .. i - 1, Announces(links'[m][h], p)
            PROVE  issued[Seqnum(links'[m][h], p)] + RouteTimeout <= now
        <5>1. h \in DOMAIN links[m] /\ links'[m][h] = links[m][h]
          <6>1. h \in 1 .. Len(links[m])
            BY <2>2, <3>2
          <6>2. QED
            BY <2>2, <6>1
        <5>2. Seqnum(links[m][h], p) <= Hears(n, p) /\ Seqnum(links[m][h], p) \in Nat
          BY <2>1, <4>5, <5>1, PayloadType DEF Follows, LineOK, Announces, Seqnum, Message
        <5>3. QED
          BY <4>3, <5>1, <5>2
      <4>6. QED
        BY <4>1, <4>4, <4>5
    <3>3. QED
      BY <2>2, <3>1, <3>2
  <2>9. QED
    BY <2>6, <2>7, <2>8
<1>10. QED
  BY <1>5, <1>6, <1>7, <1>8, <1>9 DEF Renewed

LEMMA LineStep ==
  ASSUME RouteTimersAssumption, Lag(Routers) < RouteTimeout, LineOK, Punctual, LineInv, [RoutesNext]_timersVars
  PROVE  LineInv'
<1> SUFFICES ASSUME NEW p \in Pairs, NEW issued \in [Nat -> Int], Renewed(p, issued)
             PROVE  \E later \in [Nat -> Int] : Renewed(p, later)'
  BY DEF LineInv
<1>1. /\ now \in Nat /\ anchorSeqnum \in Nat /\ anchored \in SUBSET Pairs /\ 1 \in Router
      /\ (rows[1][p].known <=> p \in anchored) /\ links[1] = <<>> /\ LineOK'
  BY Constants, TypeStep DEF LineOK, AnchorOK, Renewed, Sourced
<1>2. ASSUME NEW q \in Pairs, AddAnchorPrefix(q)
      PROVE  \E later \in [Nat -> Int] : Renewed(p, later)'
  <2>1. /\ Told(1, AnchorMessages({q})) /\ links' = links /\ anchorTimer' = anchorTimer
        /\ anchorSeqnum' = anchorSeqnum + 1 /\ anchored' = anchored \cup {q} /\ q \notin anchored
    BY <1>2, ToldSteps DEF AddAnchorPrefix
  <2>2. CASE p = q
    <3>1. anchorTimer' \in Int /\ anchorTimer' <= now + RouteTimeout
      BY <2>1 DEF LineOK, AnchorOK, Punctual
    <3>2. {q} \in SUBSET Pairs /\ p \in {q} /\ ~rows[1][p].known /\ p \in anchored'
      BY <1>1, <2>1, <2>2
    <3>3. QED
      BY <2>1, <3>1, <3>2, AnchorAnnounces
  <2>3. CASE p # q
    <3>1. DOMAIN AnchorMessages({q}) = {q} /\ now' = now
      BY <2>1, AnchorMessagesType DEF LineOK, Told
    <3>2. \A n \in Router : rows'[n][p] = rows[n][p]
      BY <2>1, <2>3, <3>1, ToldQueue
    <3>3. \A n \in Router : p \in workQueue[n] => p \in workQueue'[n] /\ queueTimer'[n] = queueTimer[n]
      BY <2>1, ToldQueue
    <3>4. p \in anchored' <=> p \in anchored
      BY <2>1, <2>3
    <3>5. anchorSeqnum' \in Nat /\ anchorSeqnum <= anchorSeqnum'
      BY <1>1, <2>1
    <3>6. Renewed(p, issued)'
      BY <1>1, <2>1, <3>1, <3>2, <3>3, <3>4, <3>5, QueueGrows
    <3>7. QED
      BY <3>6
  <2>4. QED
    BY <2>2, <2>3
<1>3. ASSUME AnchorRouteTimerExpired
      PROVE  \E later \in [Nat -> Int] : Renewed(p, later)'
  <2>1. /\ anchorTimer = now /\ links' = links /\ anchored' = anchored /\ now' = now
        /\ anchorTimer' \in Int /\ anchorTimer' <= now + RouteTimeout
    BY <1>1, <1>3, Constants, JitteredTimes DEF AnchorRouteTimerExpired
  <2>2. CASE anchored = {}
    <3>1. UNCHANGED <<anchorSeqnum, rows, workQueue, queueTimer>> /\ ~rows[1][p].known
      BY <1>1, <1>3, <2>2 DEF AnchorRouteTimerExpired, tables
    <3>2. Renewed(p, issued)'
      BY <1>1, <2>1, <3>1, QueueGrows
    <3>3. QED
      BY <3>2
  <2>3. CASE anchored # {}
    <3>1. Told(1, AnchorMessages(anchored)) /\ anchorSeqnum' = anchorSeqnum + 1
      BY <1>3, <2>3, ToldSteps DEF AnchorRouteTimerExpired
    <3>2. CASE p \in anchored
      BY <1>1, <2>1, <3>1, <3>2, AnchorAnnounces
    <3>3. CASE p \notin anchored
      <4>1. DOMAIN AnchorMessages(anchored) = anchored
        BY <1>1, AnchorMessagesType DEF LineOK
      <4>2. \A n \in Router : rows'[n][p] = rows[n][p]
        BY <3>1, <3>3, <4>1, ToldQueue
      <4>3. \A n \in Router : p \in workQueue[n] => p \in workQueue'[n] /\ queueTimer'[n] = queueTimer[n]
        BY <3>1, ToldQueue
      <4>4. anchorSeqnum' \in Nat /\ anchorSeqnum <= anchorSeqnum'
        BY <1>1, <3>1
      <4>5. Renewed(p, issued)'
        BY <1>1, <2>1, <3>3, <4>2, <4>3, <4>4, QueueGrows
      <4>6. QED
        BY <4>5
    <3>4. QED
      BY <3>2, <3>3
  <2>4. QED
    BY <2>2, <2>3
<1>4. ASSUME NEW n \in Router, AdvertiseTimerExpired(n)
      PROVE  \E later \in [Nat -> Int] : Renewed(p, later)'
  <2>1. /\ now' = now /\ links' = links /\ rows' = rows /\ anchored' = anchored
        /\ anchorSeqnum' = anchorSeqnum /\ anchorTimer' = anchorTimer
    BY <1>4 DEF AdvertiseTimerExpired
  <2>2. PICK due \in SUBSET Pairs : AddWorkQueueEntries(n, due)
    BY <1>4, AdvertiseTimerEffect DEF LineOK
  <2>3. /\ \A m \in Router \ {n} : workQueue'[m] = workQueue[m] /\ queueTimer'[m] = queueTimer[m]
        /\ workQueue'[n] = workQueue[n] \cup due
        /\ queueTimer[n] # Never => queueTimer'[n] = queueTimer[n]
    BY <2>2, AddWorkQueueEffect DEF LineOK
  <2>4. workQueue[n] # {} => queueTimer[n] # Never
    BY DEF Punctual, PunctualAt
  <2>5. \A m \in Router : p \in workQueue[m] => p \in workQueue'[m] /\ queueTimer'[m] = queueTimer[m]
    BY <2>3, <2>4
  <2>6. Renewed(p, issued)'
    BY <1>1, <2>1, <2>5, QueueGrows
  <2>7. QED
    BY <2>6
<1>5. ASSUME NEW n \in Router, ProcessWorkQueueOf(n)
      PROVE  \E later \in [Nat -> Int] : Renewed(p, later)'
  <2>1. Renewed(p, issued)'
    BY <1>5, QueueIsSent
  <2>2. QED
    BY <2>1
<1>6. ASSUME NEW n \in Router, ReceivePayload(n)
      PROVE  \E later \in [Nat -> Int] : Renewed(p, later)'
  <2>1. n \in Router \ {1}
    BY <1>1, <1>6 DEF ReceivePayload
  <2>2. Renewed(p, issued)'
    BY <1>6, <2>1, PayloadArrives
  <2>3. QED
    BY <2>2
<1>7. ASSUME RoutesTick
      PROVE  \E later \in [Nat -> Int] : Renewed(p, later)'
  <2>1. Renewed(p, issued)'
    BY <1>7, TimePasses
  <2>2. QED
    BY <2>1
<1>8. ASSUME UNCHANGED timersVars
      PROVE  \E later \in [Nat -> Int] : Renewed(p, later)'
  <2>1. /\ now' = now /\ links' = links /\ rows' = rows /\ anchored' = anchored /\ workQueue' = workQueue
        /\ anchorSeqnum' = anchorSeqnum /\ anchorTimer' = anchorTimer /\ queueTimer' = queueTimer
    BY <1>8 DEF timersVars, routeVars, tables
  <2>2. Renewed(p, issued)'
    BY <1>1, <2>1, QueueGrows
  <2>3. QED
    BY <2>2
<1>9. QED
  BY <1>2, <1>3, <1>4, <1>5, <1>6, <1>7, <1>8 DEF RoutesNext

LEMMA LineInit == ASSUME RouteTimersAssumption, RoutesInit PROVE LineInv
<1> SUFFICES ASSUME NEW p \in Pairs PROVE \E issued \in [Nat -> Int] : Renewed(p, issued)
  BY DEF LineInv
<1> DEFINE issued == [j \in Nat |-> 0]
<1>1. issued \in [Nat -> Int]
  OBVIOUS
<1>2. \A n \in Router : /\ rows[n][p] = Unknown /\ links[n] = <<>> /\ ~rows[n][p].known
                        /\ Hears(n, p) = -1
  BY DEF RoutesInit, Hears, Unknown
<1>3. 1 \in Router /\ \A n \in Router \ {1} : n - 1 \in Router
  BY Constants, LagSteps
<1>4. anchored = {}
  BY DEF RoutesInit
<1> HIDE DEF issued
<1>5. Chronicle(p, issued) /\ Sourced(p, issued)
  BY <1>2, <1>3, <1>4 DEF Chronicle, Sourced
<1>6. \A n \in Router : RenewedAt(n, p, issued)
  BY <1>2, <1>3 DEF RenewedAt
<1>7. ASSUME NEW n \in Router \ {1}
      PROVE  Follows(n, p) /\ OnItsWay(n, p, issued) /\ Justified(n, p, issued)
  <2>1. DOMAIN links[n] = {} /\ Hears(n, p) = -1 /\ Hears(n - 1, p) = -1
    BY <1>2, <1>3
  <2>2. QED
    BY <2>1 DEF Follows, OnItsWay, Justified
<1>8. Renewed(p, issued)
  BY <1>5, <1>6, <1>7 DEF Renewed
<1>9. QED
  BY <1>1, <1>8

\* If an announcement crosses the line before a route times out, a router has no lapsed route
\* to the anchor for longer than its announcements take to the router.  (If it does not, a
\* withdraw of the expired route overtakes the announcement that renews it.)
THEOREM NfpLapsesAreShort ==
  ASSUME RouteTimersAssumption, Lag(Routers) < RouteTimeout
  PROVE  RoutesSpec => []LapsesAreShort
<1> DEFINE Inv == LineOK /\ Punctual /\ LineInv
<1>1. Inv => LapsesAreShort
  <2> SUFFICES ASSUME Inv, NEW n \in Router, NEW p \in Pairs, rows[n][p].known
               PROVE  now <= rows[n][p].expiry + Lag(n)
    BY DEF LapsesAreShort, Lag, WorkLag
  <2>1. PICK issued \in [Nat -> Int] : Renewed(p, issued)
    BY DEF LineInv
  <2>2. /\ 1 \in Router /\ Lag(n) \in Nat /\ now \in Nat /\ anchorTimer \in Int /\ now <= anchorTimer
        /\ RouteTimeout \in Nat
    BY Constants, LagSteps DEF LineOK, AnchorOK, Punctual
  <2>3. /\ rows[n][p] \in Row /\ Hears(n, p) = rows[n][p].seqnum /\ Hears(n, p) \in Nat
        /\ rows[1][p] \in Row /\ Hears(1, p) \in Int /\ Hears(n, p) <= Hears(1, p)
        /\ rows[1][p].known => Hears(1, p) = rows[1][p].seqnum
    BY <2>1, <2>2, HearsType DEF Renewed, RenewedAt
  <2>4. rows[n][p].expiry \in Int /\ issued[Hears(n, p)] \in Int
        /\ issued[Hears(n, p)] + RouteTimeout <= rows[n][p].expiry
    BY <2>1, <2>3 DEF Renewed, RenewedAt, Row
  <2>5. CASE Hears(n, p) = Hears(1, p)
    <3>1. rows[1][p].known
      BY <2>3, <2>5 DEF Hears
    <3>2. anchorTimer <= issued[Hears(n, p)] + RouteTimeout
      BY <2>1, <2>3, <2>5, <3>1 DEF Renewed, Sourced
    <3>3. QED
      BY <2>2, <2>4, <3>2
  <2>6. CASE Hears(n, p) < Hears(1, p)
    <3>1. now <= issued[Hears(n, p) + 1] + Lag(n)
      BY <2>1, <2>6 DEF Renewed, RenewedAt
    <3>2. Hears(n, p) + 1 \in 1 .. Hears(1, p) /\ (Hears(n, p) + 1) - 1 = Hears(n, p)
      BY <2>3, <2>6
    <3>3. issued[Hears(n, p) + 1] <= issued[Hears(n, p)] + RouteTimeout /\ issued[Hears(n, p) + 1] \in Int
      <4>1. Hears(n, p) + 1 \in Nat
        BY <2>3
      <4>2. QED
        BY <2>1, <3>2, <4>1 DEF Renewed, Chronicle
    <3>4. QED
      BY <2>2, <2>4, <3>1, <3>3
  <2>7. QED
    BY <2>3, <2>5, <2>6
<1>2. RoutesInit => Inv
  BY InitPunctual, LineInit
<1>3. Inv /\ [RoutesNext]_timersVars => Inv'
  BY TypeStep, PunctualStep, LineStep
<1>4. QED
  BY <1>1, <1>2, <1>3, PTL DEF RoutesSpec
=============================================================================
