----------------------------- MODULE Forwarder -----------------------------
(***************************************************************************)
(* CCNxStandardForwarder (model/forwarding/standard): the pipeline that    *)
(* takes Interests and content objects through the PIT, the content store  *)
(* and the FIB of a node, and gives them to layer 3 with the connections   *)
(* to send them to.                                                        *)
(*                                                                         *)
(* The tables are the modules Pit, ContentStore and Fib.  Before each of   *)
(* them, and before the forwarder itself, is a DelayQueue; it is written   *)
(* here as the sequence of its items, the first Servers of which are in    *)
(* service and may end in any order.  The PIT works when a service ends,   *)
(* the content store and the FIB when it begins: the result of these two   *)
(* waits in the work item for the service to end.                          *)
(***************************************************************************)
EXTENDS Integers, SequencesExt

CONSTANTS
  Connections,      \* the connections of the node, to devices and to portals
  Portals,          \* those that lead to a portal (layer 4)
  NoConnection,     \* the null connection
  Names,            \* content names with at least one segment
  NoName,           \* the name without segments
  Hashes,           \* content object hashes
  NullHash,         \* no hash, no hash restriction
  Packets,          \* content objects: [name, hash, until]
  NoPacket,         \* no content object
  Interests,        \* Interests: [name, hash, lifetime]
  NoInterest,       \* no Interest
  RoutePrefixes,    \* the prefixes routes are added for
  FibRoutes,        \* bound: the routes a routing protocol adds and removes, see Routes
  HasContentStore,  \* the node has a content store; the default is that it has none
  Capacity,         \* of the content store
  Servers,          \* LayerDelayServers of every queue
  MaxTime,          \* bound: the last instant of a behaviour
  MaxPackets,       \* bound: the packets given to the forwarder
  MaxRouteChanges   \* bound: the changes of the FIB

R  == INSTANCE Routes

ASSUME PortalsAssumption == Portals \subseteq Connections /\ NoConnection \notin Connections
ASSUME FibRoutesAssumption == \A route \in FibRoutes : R!Nexthops(route) \subseteq Connections
ASSUME InterestsAssumption ==
  /\ Interests \subseteq [name : Names \cup {NoName}, hash : Hashes \cup {NullHash}, lifetime : Nat]
  /\ NoInterest \notin Interests
\* A name has segments.
ASSUME NamesAssumption == \A n \in Names \cup {NoName} : Len(n) \in Nat
\* A name and a hash restriction at once: the content store ignores the hash, the PIT
\* ignores the name, and the Interest may wait for what is not coming.
ASSUME OneRestriction == \A i \in Interests : i.name = NoName <=> i.hash # NullHash
ASSUME BoundsAssumption ==
  /\ Servers \in Nat \ {0} /\ MaxPackets \in Nat /\ MaxRouteChanges \in Nat
  /\ HasContentStore \in BOOLEAN

VARIABLES
  inputQueue, pitQueue, csQueue, fibQueue,      \* the work items of each DelayQueue
  now, pit, pitResult, asked, forwarded,        \* m_pit: see Pit
  created, store, served,                       \* m_contentStore: see ContentStore
  fib,                                          \* m_fib: see Fib
  arrived,       \* packets given to the forwarder so far; they are numbered
  routeChanges,  \* changes of the FIB so far
  done,          \* history: the packets the forwarder is through with
  returned,      \* history: the packets m_routeCallback was called for
  owed,          \* history: Interests of a connection, less content sent to it
  offered,       \* history: the content objects given to the content store
  stats,         \* m_forwarderStats
  sought         \* history: keys that an Interest left the forwarder for since
                 \* content last matched them

pitVars == <<pit, pitResult, asked, forwarded>>
csVars  == <<created, store, served>>
vars == <<inputQueue, pitQueue, csQueue, fibQueue, now, pitVars, csVars, fib, arrived,
          routeChanges, done, returned, owed, offered, stats, sought>>

P  == INSTANCE Pit WITH table <- pit, callback <- pitResult, KeyIdNames <- {},
                        Lifetimes <- {i.lifetime : i \in Interests}
CS == INSTANCE ContentStore WITH MaxEntries <- MaxPackets
F  == INSTANCE Fib

\* What the tables assume.
ASSUME TablesAssumption ==
  /\ P!KeysAssumption /\ P!ConnectionsAssumption /\ P!TimeAssumption
  /\ CS!PacketsAssumption /\ CS!NullAssumption /\ CS!CapacityAssumption /\ CS!BoundsAssumption

\* What the PIT files an Interest under.
Key(interest) == IF interest.hash # NullHash THEN interest.hash ELSE interest.name

\* CCNxStandardForwarderWorkItem: "egress" is the connection the user asked for,
\* "route" m_connectionsList, "added" m_contentAddedFlag and "held" (history) the content
\* objects the content store had been given when the PIT let the Interest through.
WorkItem == [id : 1..MaxPackets, interest : Interests \cup {NoInterest},
             packet : Packets \cup {NoPacket}, ingress : Connections \cup {NoConnection},
             egress : Connections \cup {NoConnection}, route : SUBSET Connections,
             held : SUBSET Packets, added : BOOLEAN]

InterestItem(id, interest, ingress, egress) ==
  [id |-> id, interest |-> interest, packet |-> NoPacket, ingress |-> ingress,
   egress |-> egress, route |-> {}, held |-> {}, added |-> FALSE]

ContentItem(id, packet, ingress) ==
  [id |-> id, interest |-> NoInterest, packet |-> packet, ingress |-> ingress,
   egress |-> NoConnection, route |-> {}, held |-> {}, added |-> FALSE]

IsInterest(item) == item.interest # NoInterest

-----------------------------------------------------------------------------
(* Plausible bugs: each replaces the definition it names in a run that      *)
(* shows the properties can fail.                                          *)

\* Enqueue: the new item goes ahead of those that wait.
EnqueueAhead(q, item) ==
  IF Len(q) < Servers THEN Append(q, item)
  ELSE SubSeq(q, 1, Servers) \o <<item>> \o SubSeq(q, Servers + 1, Len(q))

\* AfterSatisfy: content nobody waits for is given to the content store.
AfterSatisfyUnsolicited(item, route) ==
  IF HasContentStore /\ item.ingress # NoConnection THEN "store"
  ELSE IF route = {} THEN "drop" ELSE "finish"

\* FibPush: an Interest that finds no server free is lost.
FibPushFull(item) ==
  fibQueue' = IF Len(fibQueue) < Servers
              THEN Append(fibQueue, [item EXCEPT !.route = F!Lookup(item.interest.name, item.ingress)])
              ELSE fibQueue

-----------------------------------------------------------------------------
(* The counters of ForwarderStats; those of unsupported packets stay zero.  *)

Counters ==
  {"RouteInputPacketsIn", "RouteOutputPacketsIn", "packetsOut",
   "interestsToPit", "interestsVerdictForward", "interestsVerdictAggregate",
   "interestsToContentStore", "interestsContentStoreHits", "interestsContentStoreMisses",
   "interestsToFib", "interestsFibForwarded", "interestsFibNotForwarded",
   "contentObjectsToPit", "contentObjectsMatchedInPit", "contentObjectsNotMatchedInPit",
   "contentObjectsToContentStore", "contentObjectsAddedToContentStore",
   "contentObjectsNotAddedToContentStore"}

Count(counters) ==
  stats' = [s \in Counters |-> stats[s] + (IF s \in counters THEN 1 ELSE 0)]

-----------------------------------------------------------------------------
(* The queues *)

\* push_back
Enqueue(q, item) == Append(q, item)

\* CCNxStandardPit::ReceiveInterest and SatisfyInterest: one queue for both, so that
\* Interests and content objects keep their order.
PitPush(item) == pitQueue' = Enqueue(pitQueue, item)

\* CCNxStandardPit::ServiceInputQueue: the service of item i ends.
PitPop(i) == pitQueue' = RemoveAt(pitQueue, i)

\* The items in service.
Served(q) == {i \in DOMAIN q : i <= Servers}

\* CCNxStandardContentStore::GetServiceTime for item i of q: what MatchInterest
\* finds is put in the item.
CsStart(q, i) ==
  IF IsInterest(q[i])
  THEN /\ CS!MatchInterest(q[i].interest.name, q[i].interest.hash, FALSE)
       /\ csQueue' = [q EXCEPT ![i].packet = served']
  ELSE /\ CS!AddContentObject(q[i].packet)
       /\ csQueue' = [q EXCEPT ![i].added = (created' # created)]

\* push_back of the content store's queue; the service of an item that finds a
\* server free begins at once.
CsPush(item) ==
  LET q == Enqueue(csQueue, item) IN
  IF Len(q) <= Servers THEN CsStart(q, Len(q))
  ELSE csQueue' = q /\ UNCHANGED csVars

\* TimerExpired of the content store's queue: the server takes the next item.
CsPop(i) ==
  LET q == RemoveAt(csQueue, i) IN
  IF Len(q) >= Servers THEN CsStart(q, Servers)
  ELSE csQueue' = q /\ UNCHANGED csVars

\* CCNxStandardFib::GetServiceTime for item i of q
FibStart(q, i) ==
  [q EXCEPT ![i].route = F!Lookup(q[i].interest.name, q[i].ingress)]

FibPush(item) ==
  LET q == Enqueue(fibQueue, item) IN
  fibQueue' = IF Len(q) <= Servers THEN FibStart(q, Len(q)) ELSE q

FibPop(i) ==
  LET q == RemoveAt(fibQueue, i) IN
  fibQueue' = IF Len(q) >= Servers THEN FibStart(q, Servers) ELSE q

-----------------------------------------------------------------------------
(* The end of the pipeline *)

\* The connections a packet is given to layer 3 with: the one the user asked for
\* overrides what was found.
Outputs(item, route) == IF item.egress # NoConnection THEN {item.egress} ELSE route

\* FinishRouteLookup: m_routeCallback
FinishRouteLookup(item, route) ==
  /\ done' = done \cup {item.id}
  /\ returned' = returned \cup {item.id}
  /\ owed' = IF IsInterest(item) THEN owed
             ELSE [c \in Connections |-> owed[c] - (IF c \in Outputs(item, route) THEN 1 ELSE 0)]

\* A packet that is dropped without a word to layer 3 (ccnx-forwarder.h:125 promises a
\* callback for each packet).
Drop(item) == done' = done \cup {item.id} /\ UNCHANGED <<returned, owed>>

Continue == UNCHANGED <<done, returned, owed>>

-----------------------------------------------------------------------------

\* The queues, the PIT and the content store of a new node.
Empty ==
  /\ inputQueue = <<>> /\ pitQueue = <<>> /\ csQueue = <<>> /\ fibQueue = <<>>
  /\ P!Init /\ CS!Init
  /\ arrived = 0 /\ routeChanges = 0
  /\ done = {} /\ returned = {} /\ offered = {} /\ sought = {}
  /\ owed = [c \in Connections |-> 0]
  /\ stats = [s \in Counters |-> 0]

Init == Empty /\ F!Init

Arrive(item) ==
  /\ arrived < MaxPackets
  /\ arrived' = arrived + 1
  /\ Count({IF item.ingress \in Portals THEN "RouteOutputPacketsIn" ELSE "RouteInputPacketsIn"})
  /\ inputQueue' = Enqueue(inputQueue, item)
  /\ owed' = IF IsInterest(item) THEN [owed EXCEPT ![item.ingress] = @ + 1] ELSE owed
  /\ UNCHANGED <<pitQueue, csQueue, fibQueue, now, pitVars, csVars, fib, routeChanges, done,
                 returned, offered, sought>>

\* RouteInput: a packet from layer 2.
RouteInput(ingress) ==
  \/ \E i \in Interests : Arrive(InterestItem(arrived + 1, i, ingress, NoConnection))
  \/ \E p \in Packets : Arrive(ContentItem(arrived + 1, p, ingress))

\* RouteOutput: a packet from layer 4.  Only NFP asks for an egress connection, and
\* only for Interests.
RouteOutput(ingress) ==
  \/ \E i \in Interests, egress \in (Connections \ Portals) \cup {NoConnection} :
       Arrive(InterestItem(arrived + 1, i, ingress, egress))
  \/ \E p \in Packets : Arrive(ContentItem(arrived + 1, p, ingress))

\* ServiceInputQueue
ServiceInputQueue ==
  \E i \in Served(inputQueue) :
    /\ inputQueue' = RemoveAt(inputQueue, i)
    /\ PitPush(inputQueue[i])
    /\ Count({IF IsInterest(inputQueue[i]) THEN "interestsToPit" ELSE "contentObjectsToPit"})
    /\ UNCHANGED <<csQueue, fibQueue, now, pitVars, csVars, fib, arrived, routeChanges, done,
                   returned, owed, offered, sought>>

\* The PIT's ServiceReceiveInterest and PitReceiveInterestCallback
PitReceiveInterest ==
  \E i \in Served(pitQueue) : LET item == pitQueue[i] IN
    /\ IsInterest(item)
    /\ PitPop(i)
    /\ P!ReceiveInterest(Key(item.interest), FALSE, item.ingress, item.interest.lifetime)
    /\ IF pitResult'.verdict = "Aggregate"
       THEN /\ FinishRouteLookup(item, {})
            /\ sought' = IF Outputs(item, {}) # {} THEN sought \cup {Key(item.interest)} ELSE sought
            /\ Count({"interestsVerdictAggregate", "packetsOut"})
            /\ UNCHANGED <<csQueue, csVars, fibQueue>>
       ELSE /\ IF HasContentStore
               THEN CsPush([item EXCEPT !.held = offered]) /\ UNCHANGED fibQueue
               ELSE FibPush(item) /\ UNCHANGED <<csQueue, csVars>>
            /\ Count({"interestsVerdictForward",
                      IF HasContentStore THEN "interestsToContentStore" ELSE "interestsToFib"})
            /\ Continue /\ UNCHANGED sought
    /\ UNCHANGED <<inputQueue, fib, arrived, routeChanges, offered>>

\* PitSatisfyInterestCallback: what becomes of a content object for these connections.
AfterSatisfy(item, route) ==
  IF route = {} THEN "drop"
  ELSE IF HasContentStore /\ item.ingress # NoConnection THEN "store" ELSE "finish"

\* The PIT's ServiceSatisfyInterest and PitSatisfyInterestCallback
PitSatisfyInterest ==
  \E i \in Served(pitQueue) : LET item == pitQueue[i] IN
    /\ ~IsInterest(item)
    /\ PitPop(i)
    /\ P!SatisfyInterest(item.packet.name, item.packet.hash, item.ingress)
    /\ sought' = sought \ {item.packet.name, item.packet.hash}
    /\ LET route == pitResult'.egress
           next  == AfterSatisfy(item, route)
       IN  /\ CASE next = "drop"   -> Drop(item) /\ UNCHANGED <<csQueue, csVars>>
                [] next = "store"  -> CsPush([item EXCEPT !.route = route]) /\ Continue
                [] next = "finish" -> FinishRouteLookup(item, route) /\ UNCHANGED <<csQueue, csVars>>
           /\ Count(CASE next = "drop"   -> {"contentObjectsNotMatchedInPit"}
                      [] next = "store"  -> {"contentObjectsMatchedInPit", "contentObjectsToContentStore"}
                      [] next = "finish" -> {"contentObjectsMatchedInPit", "packetsOut"})
           /\ offered' = IF next = "store" THEN offered \cup {item.packet} ELSE offered
    /\ UNCHANGED <<inputQueue, fibQueue, fib, arrived, routeChanges>>

\* ContentStoreMatchInterestCallback: a hit replaces the Interest by the content
\* object, which goes to the PIT as content from nowhere; a miss goes to the FIB.
CsMatchInterest ==
  \E i \in Served(csQueue) : LET item == csQueue[i] IN
    /\ IsInterest(item)
    /\ CsPop(i)
    /\ IF item.packet # NoPacket
       THEN /\ PitPush(ContentItem(item.id, item.packet, NoConnection))
            /\ Count({"interestsContentStoreHits", "contentObjectsToPit"})
            /\ UNCHANGED fibQueue
       ELSE /\ FibPush(item)
            /\ Count({"interestsContentStoreMisses", "interestsToFib"})
            /\ UNCHANGED pitQueue
    /\ Continue
    /\ UNCHANGED <<inputQueue, now, pitVars, fib, arrived, routeChanges, offered, sought>>

\* ContentStoreAddContentObjectCallback
CsAddContentObject ==
  \E i \in Served(csQueue) : LET item == csQueue[i] IN
    /\ ~IsInterest(item)
    /\ CsPop(i)
    /\ FinishRouteLookup(item, item.route)
    /\ Count({"packetsOut", IF item.added THEN "contentObjectsAddedToContentStore"
                            ELSE "contentObjectsNotAddedToContentStore"})
    /\ UNCHANGED <<inputQueue, pitQueue, fibQueue, now, pitVars, fib, arrived, routeChanges,
                   offered, sought>>

\* FibLookupCallback
FibLookup ==
  \E i \in Served(fibQueue) : LET item == fibQueue[i] IN
    /\ FibPop(i)
    /\ FinishRouteLookup(item, item.route)
    /\ sought' = sought \cup {Key(item.interest)}
    /\ Count({"packetsOut", IF item.route # {} THEN "interestsFibForwarded"
                            ELSE "interestsFibNotForwarded"})
    /\ UNCHANGED <<inputQueue, pitQueue, csQueue, now, pitVars, csVars, fib, arrived,
                   routeChanges, offered>>

RouteChange ==
  /\ routeChanges < MaxRouteChanges
  /\ routeChanges' = routeChanges + 1
  /\ UNCHANGED <<inputQueue, pitQueue, csQueue, fibQueue, now, pitVars, csVars, arrived, done,
                 returned, owed, offered, stats, sought>>

\* For connections one after the other; layer 3 calls it with that of a portal.
InnerAddRoute(prefix, connections) == RouteChange /\ F!AddRoute(prefix, connections)
InnerRemoveRoute(prefix, connections) == RouteChange /\ F!DeleteRoute(prefix, connections)

\* Of a routing protocol: the costs of the route are lost.
AddRoute(prefix, route) == InnerAddRoute(prefix, R!Nexthops(route))
RemoveRoute(prefix, route) == InnerRemoveRoute(prefix, R!Nexthops(route))

\* Of CCNxFib, for a connection that is no more.  Nobody calls it.
RemoveConnection(connection) == RouteChange /\ F!RemoveConnection(connection)

Tick ==
  /\ P!Tick
  /\ UNCHANGED <<inputQueue, pitQueue, csQueue, fibQueue, csVars, fib, arrived, routeChanges,
                 done, returned, owed, offered, stats, sought>>

Next ==
  \/ \E c \in Connections \ Portals : RouteInput(c)
  \/ \E c \in Portals : RouteOutput(c)
  \/ ServiceInputQueue
  \/ PitReceiveInterest \/ PitSatisfyInterest
  \/ CsMatchInterest \/ CsAddContentObject
  \/ FibLookup
  \/ \E p \in RoutePrefixes, route \in FibRoutes : AddRoute(p, route) \/ RemoveRoute(p, route)
  \/ \E c \in Connections : RemoveConnection(c)
  \/ Tick

Spec == Init /\ [][Next]_vars

-----------------------------------------------------------------------------
(* Properties *)

Items(q)   == {q[i] : i \in DOMAIN q}
Pipeline   == Items(inputQueue) \cup Items(pitQueue) \cup Items(csQueue) \cup Items(fibQueue)
Matches(interest, p) == Key(interest) \in {p.name, p.hash}

\* The queues hold what their tables can work on: the FIB gets Interests, the ones the
\* content store had nothing for, and the content store gets only content objects that
\* came from a connection and that somebody waits for (its callback takes the first
\* connection of the list).
TypeOK ==
  /\ P!TypeOK /\ CS!TypeOK /\ F!TypeOK
  /\ Pipeline \subseteq WorkItem
  /\ \A item \in Items(fibQueue) : IsInterest(item) /\ item.packet = NoPacket
  /\ \A item \in Items(csQueue)  :
       IsInterest(item) \/ (item.route # {} /\ item.ingress # NoConnection)
  /\ owed \in [Connections -> Int]

\* Nobody gets more content objects than it has sent Interests, whichever of the network
\* and the content store they come from, and however Interests and content overtake
\* each other on the way to the PIT.
NeverOverpaid == \A c \in Connections : owed[c] >= 0

\* A connection that waits for content waits for something: an Interest for the same key
\* has left the forwarder, or is on its way to the content store or the FIB, or content
\* for it is on its way to the PIT.  An Interest is never absorbed by aggregation behind
\* one that was itself answered or lost.
Pursued(key) ==
  \/ key \in sought
  \/ \E item \in Items(csQueue) \cup Items(fibQueue) : IsInterest(item) /\ Key(item.interest) = key
  \/ \E item \in Items(pitQueue) : ~IsInterest(item) /\ key \in {item.packet.name, item.packet.hash}
PendingIsPursued == \A key \in P!Keys : P!LiveRoutes(pit[key]) # {} => Pursued(key)

\* An Interest is not sent on for content the node already has: if nothing is evicted or
\* expires, an Interest that the PIT let through after it gave the content store a
\* content object finds it there, because both queue in the same order.
NothingForgotten == Cardinality(Packets) <= Capacity /\ \A p \in Packets : p.until = 0
LaterInterestsHit ==
  NothingForgotten =>
    \A item \in Items(fibQueue) : \A p \in item.held : ~Matches(item.interest, p)

\* Whatever routes are added and removed, a lookup returns the longest match of a name
\* that no gap precedes.
LongestMatch == \A i \in Interests : F!LongestMatch(i.name)

\* A packet is in one queue until the forwarder is through with it, and in none then: it is
\* neither lost nor doubled on its way, not even when the content store answers an
\* Interest with a content object that starts again at the PIT.
InOneQueue ==
  LET items == inputQueue \o pitQueue \o csQueue \o fibQueue IN
  \A id \in 1..arrived :
    Cardinality({i \in DOMAIN items : items[i].id = id}) = IF id \in done THEN 0 ELSE 1

\* PrintForwardingStatistics: what goes into a table and has not come out is in its queue,
\* and what goes into the forwarder comes out but for content that nobody waits for.
StatisticsAddUp ==
  LET interests(q) == Cardinality({i \in DOMAIN q : IsInterest(q[i])})
      contents(q) == Len(q) - interests(q)
      Balance(into, out1, out2, inside) == stats[into] = stats[out1] + stats[out2] + inside
  IN  /\ stats["RouteInputPacketsIn"] + stats["RouteOutputPacketsIn"]
            = stats["packetsOut"] + stats["contentObjectsNotMatchedInPit"]
                + Len(inputQueue \o pitQueue \o csQueue \o fibQueue)
      /\ Balance("interestsToPit", "interestsVerdictForward", "interestsVerdictAggregate",
                 interests(pitQueue))
      /\ Balance("contentObjectsToPit", "contentObjectsMatchedInPit",
                 "contentObjectsNotMatchedInPit", contents(pitQueue))
      /\ Balance("interestsToContentStore", "interestsContentStoreHits",
                 "interestsContentStoreMisses", interests(csQueue))
      /\ Balance("contentObjectsToContentStore", "contentObjectsAddedToContentStore",
                 "contentObjectsNotAddedToContentStore", contents(csQueue))
      /\ Balance("interestsToFib", "interestsFibForwarded", "interestsFibNotForwarded",
                 Len(fibQueue))

\* No packet gets lost on its way through the queues, and the statistics count each.
PacketsConserved == InOneQueue /\ StatisticsAddUp
=============================================================================
