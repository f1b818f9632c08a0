------------------------------ MODULE NfpTimers ------------------------------
(***************************************************************************)
(* How NFP keeps routes alive, in real time: the anchor route timer of an  *)
(* anchor, the advertise timer of every router with its NfpPrefixTimerHeap,*)
(* the timer of the work queue, and the expiry of routes.                  *)
(*                                                                         *)
(* The routers 1 .. Routers are in a line and router 1 is the anchor.  A   *)
(* router heeds the messages of the one before it: an advertisement of the *)
(* one behind it has a larger distance, and a withdraw of it removes a     *)
(* nexthop that is not there.  Links keep the order of payloads; that and  *)
(* neighbors that fall silent are the matter of NfpHello.                  *)
(*                                                                         *)
(* The work queue fits one payload, whose messages are about different     *)
(* pairs: the queue is the set of its pairs, and the messages of a payload *)
(* are a function of theirs, as nothing depends on their order.  The heap  *)
(* is the set of its entries, valid and not: two invalid entries of one    *)
(* pair and one time are one here, as nobody looks at either.              *)
(***************************************************************************)
EXTENDS NfpClock, Sequences

CONSTANTS
  Routers,       \* how many
  Pairs,         \* (prefix, anchor): the prefixes of the anchor
  RouteTimeout   \* m_routeTimeout

\* Assumed where the module is instantiated.
RouteTimersAssumption ==
  /\ Routers \in Nat \ {0}
  /\ RouteTimeout \in Nat /\ Jitter \in Nat \ {0} /\ Jitter < RouteTimeout
  /\ WorkDelays \subseteq Nat \ {0} /\ MaxDelay \in Nat
  /\ \E d \in WorkDelays : \A e \in WorkDelays : e <= d

VARIABLES
  anchored,        \* m_anchorNames of the anchor
  anchorSeqnum,    \* m_anchorSeqnum of the anchor
  anchorTimer,     \* when its m_anchorRouteTimer expires
  rows,            \* rows[n][p]: m_prefixes, with the best advertisement and its nexthop
  heap,            \* heap[n]: m_heap
  keys,            \* keys[n][p]: the time of the entry m_keys refers to, or Never
  workQueue,       \* workQueue[n]: the pairs in it
  queueTimer,       \* when m_processWorkQueueTimer expires, or Never
  advertiseTimer,  \* when m_advertiseTimer expires
  links,           \* links[n]: payloads on their way to router n, [sent, messages]
  lastSent         \* history: when router n last said something of p, or knew of it first

tables     == <<rows, heap, keys, workQueue>>
routeVars  == <<anchored, anchorSeqnum, anchorTimer, tables, queueTimer, advertiseTimer, links,
                lastSent>>
timersVars == <<now, routeVars>>

Router == 1 .. Routers

\* A row with one nexthop, the router before this one, until it expires.
Unknown == [known |-> FALSE, seqnum |-> 0, expiry |-> Never]

\* GetNexthopCount () > 0, after PruneEqualCostPaths
IsReachable(row) == row.known /\ row.expiry > now

Least(s, t) == IF s <= t THEN s ELSE t
Longest(delays) == CHOOSE d \in delays : \A e \in delays : e <= d

\* SetTimer, CalculateJitteredTime: when a timer set now may expire.
JitteredFrom(interval, jitter) == Jittered(now + interval, jitter)

\* A valid NfpPrefixTimerEntry
TimerEntry(p, time) == [pair |-> p, time |-> time, valid |-> TRUE]

-----------------------------------------------------------------------------
(* Plausible bugs: each replaces the definition it names in a run that      *)
(* shows the properties can fail.                                          *)

\* Inserted: the old entries stay valid.
InsertedTwice(entries, key, times) == entries \cup {TimerEntry(p, times[p]) : p \in DOMAIN times}

\* Inserted: a pair that is in m_keys already is not pushed.
InsertedOnce(entries, key, times) ==
  entries \cup {TimerEntry(p, times[p]) : p \in {q \in DOMAIN times : key[q] = Never}}

\* NewRow: the timeout of the route is jittered like the timers.
NewRowJittered(row, message) ==
  [known |-> TRUE, seqnum |-> message.seqnum, expiry |-> now + RouteTimeout - Jitter]

-----------------------------------------------------------------------------
(* NfpPrefixTimerHeap *)

\* Insert, of several pairs: what m_keys refers to is invalidated if it has not been popped.
Inserted(entries, key, times) ==
  LET current == {TimerEntry(p, key[p]) : p \in DOMAIN times} \cap entries
  IN  (entries \ current) \cup {[e EXCEPT !.valid = FALSE] : e \in current}
        \cup {TimerEntry(p, times[p]) : p \in DOMAIN times}

\* The entries Peek can find on top.
Tops(entries) == {top \in entries : top.valid /\ \A e \in entries : top.time <= e.time}

\* Peek discards the invalid entries that are on top.
Peeked(entries) ==
  {e \in entries : \E top \in entries : top.valid /\ top.time <= e.time}

Due(entries, limit) == {e \in entries : e.valid /\ e.time <= limit}

\* Peek and Pop as long as the top is due.
Popped(entries, limit) == Peeked(entries \ Due(entries, limit))

-----------------------------------------------------------------------------
(* The work queue *)

\* AddWorkQueueEntry: a pair is in the queue once, and SetProcessWorkQueueTimer leaves a
\* timer that runs alone.
AddWorkQueueEntries(n, pairs) ==
  /\ workQueue' = [workQueue EXCEPT ![n] = @ \cup pairs]
  /\ IF pairs = {} \/ queueTimer[n] # Never THEN UNCHANGED queueTimer
     ELSE \E d \in WorkDelays : queueTimer' = [queueTimer EXCEPT ![n] = now + d]

\* m_prefixTimerHeap.Insert of pairs, as router n knows of them first or sends them.
InsertTimers(n, pairs) ==
  /\ \E times \in [pairs -> JitteredFrom(RouteTimeout, Jitter)] :
       /\ heap' = [heap EXCEPT ![n] = Inserted(@, keys[n], times)]
       /\ keys' = [keys EXCEPT ![n] = [p \in Pairs |-> IF p \in pairs THEN times[p] ELSE @[p]]]
  /\ lastSent' = [lastSent EXCEPT ![n] = [p \in Pairs |-> IF p \in pairs THEN now ELSE @[p]]]

-----------------------------------------------------------------------------
(* What a router is told *)

Message == [advertise : BOOLEAN, seqnum : Nat]

Advertise(seqnum) == [advertise |-> TRUE, seqnum |-> seqnum]
Withdraw == [advertise |-> FALSE, seqnum |-> 0]

\* NfpPrefix::ReceiveAdvertisement: a feasible one renews the nexthop.
\* NfpPrefix::ReceiveWithdraw: a nexthop that is there is removed.
NewRow(row, message) ==
  IF message.advertise
  THEN IF row.known /\ message.seqnum < row.seqnum THEN row
       ELSE [known |-> TRUE, seqnum |-> message.seqnum, expiry |-> now + RouteTimeout]
  ELSE IF IsReachable(row) THEN [row EXCEPT !.expiry = now] ELSE row

\* ReceiveAdvertise queues an improved route, PrefixStateChanged a change of reachability.
IsQueued(row, message) ==
  IF message.advertise
  THEN \/ ~row.known \/ row.seqnum < message.seqnum
       \/ row.seqnum = message.seqnum /\ ~IsReachable(row)
  ELSE IsReachable(row)

\* ReceivePayload, ReceiveAdvertise, ReceiveWithdraw; AddAdvertise puts a new prefix in
\* the heap.
ReceiveMessages(n, messages) ==
  LET told == DOMAIN messages
  IN  /\ rows' = [rows EXCEPT ![n] = [p \in Pairs |->
                    IF p \in told THEN NewRow(@[p], messages[p]) ELSE @[p]]]
      /\ InsertTimers(n, {p \in told : ~rows[n][p].known /\ messages[p].advertise})
      /\ AddWorkQueueEntries(n, {p \in told : IsQueued(rows[n][p], messages[p])})

ReceivePayload(n) ==
  /\ links[n] # <<>>
  /\ links' = [links EXCEPT ![n] = Tail(@)]
  /\ ReceiveMessages(n, Head(links[n]).messages)
  /\ UNCHANGED <<now, anchored, anchorSeqnum, anchorTimer, advertiseTimer>>

-----------------------------------------------------------------------------
(* The anchor *)

AddAnchorPrefix(p) ==
  /\ p \notin anchored
  /\ anchored' = anchored \cup {p}
  /\ anchorSeqnum' = anchorSeqnum + 1
  /\ ReceiveMessages(1, [q \in {p} |-> Advertise(anchorSeqnum)])
  /\ UNCHANGED <<now, anchorTimer, advertiseTimer, links>>

AnchorRouteTimerExpired ==
  /\ anchorTimer = now
  /\ anchorTimer' \in JitteredFrom(RouteTimeout, Jitter)
  /\ IF anchored = {} THEN UNCHANGED <<anchorSeqnum, tables, queueTimer, lastSent>>
     ELSE /\ anchorSeqnum' = anchorSeqnum + 1
          /\ ReceiveMessages(1, [p \in anchored |-> Advertise(anchorSeqnum)])
  /\ UNCHANGED <<now, anchored, advertiseTimer, links>>

-----------------------------------------------------------------------------
(* What a router says *)

\* The advertise timer is set for the top of the heap, or for the longest interval.
SetAdvertiseTimer(n, entries) ==
  \E t \in IF entries = {} THEN JitteredFrom(RouteTimeout, Jitter)
           ELSE UNION {LET delta == Least(top.time - now, RouteTimeout)
                       IN  JitteredFrom(delta, Least(delta, Jitter)) : top \in Tops(entries)} :
    advertiseTimer' = [advertiseTimer EXCEPT ![n] = t]

AdvertiseTimerExpired(n) ==
  /\ advertiseTimer[n] = now
  /\ AddWorkQueueEntries(n, {e.pair : e \in Due(heap[n], now + Jitter)})
  /\ heap' = [heap EXCEPT ![n] = Popped(@, now + Jitter)]
  /\ SetAdvertiseTimer(n, Popped(heap[n], now + Jitter))
  /\ UNCHANGED <<now, anchored, anchorSeqnum, anchorTimer, rows, keys, links, lastSent>>

\* An advertisement of a reachable pair, a withdraw of another.
MessageFor(row) == IF IsReachable(row) THEN Advertise(row.seqnum) ELSE Withdraw

\* ProcessWorkQueue puts each pair it sends in the heap again.
ProcessWorkQueueOf(n) ==
  LET payload == [sent |-> now, messages |-> [p \in workQueue[n] |-> MessageFor(rows[n][p])]]
  IN  /\ queueTimer[n] = now
      /\ queueTimer' = [queueTimer EXCEPT ![n] = Never]
      /\ workQueue' = [workQueue EXCEPT ![n] = {}]
      /\ InsertTimers(n, workQueue[n])
      /\ links' = IF n = Routers THEN links ELSE [links EXCEPT ![n + 1] = Append(@, payload)]
      /\ UNCHANGED <<now, anchored, anchorSeqnum, anchorTimer, rows, advertiseTimer>>

-----------------------------------------------------------------------------

\* DoInitialize sets the timers to one jitter interval, less up to a quarter of it.
RoutesInit ==
  /\ now = 0
  /\ anchored = {} /\ anchorSeqnum = 0
  /\ anchorTimer \in JitteredFrom(Jitter, Jitter \div 4)
  /\ rows = [n \in Router |-> [p \in Pairs |-> Unknown]]
  /\ heap = [n \in Router |-> {}]
  /\ keys = [n \in Router |-> [p \in Pairs |-> Never]]
  /\ workQueue = [n \in Router |-> {}]
  /\ queueTimer = [n \in Router |-> Never]
  /\ advertiseTimer \in [Router -> JitteredFrom(Jitter, Jitter \div 4)]
  /\ links = [n \in Router |-> <<>>]
  /\ lastSent = [n \in Router |-> [p \in Pairs |-> Never]]

\* Time passes if no event is due.
RoutesTick ==
  /\ anchorTimer # now
  /\ \A n \in Router :
       /\ queueTimer[n] # now /\ advertiseTimer[n] # now
       /\ \A i \in DOMAIN links[n] : now < links[n][i].sent + MaxDelay
  /\ now' = now + 1
  /\ UNCHANGED <<anchored, anchorSeqnum, anchorTimer, tables, queueTimer, advertiseTimer, links,
                 lastSent>>

RoutesNext ==
  \/ \E p \in Pairs : AddAnchorPrefix(p)
  \/ AnchorRouteTimerExpired
  \/ \E n \in Router : AdvertiseTimerExpired(n) \/ ProcessWorkQueueOf(n) \/ ReceivePayload(n)
  \/ RoutesTick

RoutesSpec == RoutesInit /\ [][RoutesNext]_timersVars

-----------------------------------------------------------------------------
(* Properties *)

\* The heap has the effect of a table: one timer that counts for every pair a router knows
\* of, unless the pair is in the work queue and about to get one, whatever was invalidated
\* and popped ("will only keep one entry for (prefix, anchorName)", NfpPrefixTimerHeap; "As
\* long as there's an m_prefix entry for it, there needs to be a timer for it",
\* ProcessWorkQueue).
OneTimerPerRow ==
  \A n \in Router, p \in Pairs :
    LET timers == {e \in heap[n] : e.valid /\ e.pair = p}
    IN  /\ \A d, e \in timers : d = e
        /\ rows[n][p].known <=> timers # {} \/ p \in workQueue[n]

\* Every router says something of a pair it knows of in one route timeout and the delay of
\* the work queue: the advertise timer is in time for entries that were put in the heap after
\* it was set, and no jitter is lost.
SaidInTime ==
  \A n \in Router, p \in Pairs : rows[n][p].known =>
    now <= lastSent[n][p] + RouteTimeout + Longest(WorkDelays)

\* While an anchor announces its prefixes, the routes to it are lapsed for no longer than
\* the delays of the work queues and links on the way to it.  They do lapse: the period of
\* the anchor may be as long as the timeout of the routes.
LapsesAreShort ==
  \A n \in Router, p \in Pairs : rows[n][p].known =>
    now <= rows[n][p].expiry + (n - 1) * (Longest(WorkDelays) + MaxDelay)
=============================================================================
