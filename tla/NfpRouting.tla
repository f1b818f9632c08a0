----------------------------- MODULE NfpRouting -----------------------------
(***************************************************************************)
(* The Name Flooding Protocol (model/routing/nfp): a distance vector       *)
(* protocol that floods (prefix, anchor, seqnum, distance) advertisements. *)
(* All tables are per prefix and no handler relates two prefixes, so the   *)
(* model has one prefix; every node may anchor it.                         *)
(*                                                                         *)
(* Each node is one discrete-event thread.  The loops in ReceivePayload    *)
(* and RemoveConnection that handle several messages or table rows are     *)
(* taken one element at a time (inbox); the node does nothing else until   *)
(* its inbox is empty.  Times are abstracted: a timer may expire at any    *)
(* moment it is set.                                                       *)
(***************************************************************************)
EXTENDS Naturals, Sequences, FiniteSets

CONSTANTS
  Nodes,           \* the routers are 1..Nodes; numbers order the router names
  Links,           \* the point-to-point links, a set of two-element sets
  Anchors,         \* the nodes that may anchor the prefix
  Impatient,       \* bound: the nodes whose neighbor and route timeouts may strike
  MaxRefs,         \* bound: registrations of the prefix on one node
  MaxAnchorSeq,    \* bound: anchor sequence numbers one node issues
  MaxMessageSeq,   \* bound: payloads a node sends, a function on the nodes
  PayloadCapacity  \* advertisements and withdraws that fit one payload

Node == 1..Nodes

ASSUME NodesAssumption == Nodes \in Nat \ {0}
ASSUME LinksAssumption == Links \subseteq {{n, m} : n, m \in Node} /\ Anchors \cup Impatient \subseteq Node
ASSUME BoundsAssumption ==
  /\ MaxRefs \in Nat /\ MaxAnchorSeq \in Nat /\ MaxMessageSeq \in [Node -> Nat]
  /\ PayloadCapacity \in Nat \ {0}

VARIABLES
  anchorRefs,    \* m_anchorNames: reference count of the prefix, 0 if absent
  anchorSeqnum,  \* m_anchorSeqnum
  messageSeqnum, \* m_messageSeqnum
  rib,           \* m_prefixes: rib[n][a] is NfpAnchorAdvertisement or NoRow
  fib,           \* nexthops the forwarder's FIB holds for the prefix
  workQueue,     \* m_workQueue: anchors (of the one prefix), FIFO, no duplicates
  timerHeap,     \* m_prefixTimerHeap: anchors with a valid entry in the heap
  neighbor,      \* m_neighbors[n][m]: NfpNeighbor or NoNeighbor
  inbox,         \* messages of the payload (or rows) node n is still handling
  network        \* payloads in flight; one that is never received is lost

vars == <<anchorRefs, anchorSeqnum, messageSeqnum, rib, fib, workQueue, timerHeap,
          neighbor, inbox, network>>

-----------------------------------------------------------------------------
(* Data *)

NoRow == [seq |-> 0, dist |-> 0, next |-> {}, known |-> FALSE]
\* NfpAnchorAdvertisement: m_bestAdvertisement and m_equalCostPaths.  The anchor's
\* own connection (ConnIdLocalHost) is written as the node itself.
Row == [seq : Nat, dist : Nat, next : SUBSET Node, known : BOOLEAN]

Advertise == [type : {"advertise"}, anchor : Node, seq : Nat, dist : Nat]
Withdraw  == [type : {"withdraw"}, anchor : Node]
Message   == Advertise \cup Withdraw

NoNeighbor == [state |-> "none", seq |-> 0]
Neighbor   == [state : {"none", "up", "down"}, seq : Nat]

Adjacent(n) == {m \in Node \ {n} : {n, m} \in Links}
Values(s)   == {s[i] : i \in DOMAIN s}
Idle(n)     == inbox[n].messages = <<>>

\* NfpAnchorAdvertisement::GetNexthopCount () > 0
IsReachable(row) == row.next # {}

\* NfpPrefix::GetRoute: the nexthops towards every anchor, less the local one,
\* which CCNxStandardForwarder::InnerAddRoute skips.
Route(n, rows) == {m \in Node \ {n} : \E a \in Node : m \in rows[a].next}

\* NfpSeqnum::Compare (a, b) < 0, away from the wrap-around.
Older(a, b) == a < b

-----------------------------------------------------------------------------
(* Plausible bugs, used to test that the properties can fail.              *)

\* An advertisement of a larger distance is accepted at the same seqnum.
FeasibleLoose(row, ad) ==
  \/ ~row.known
  \/ Older(row.seq, ad.seq)
  \/ row.seq = ad.seq

\* NfpAdvertise is copied without the link cost.
ReadvertiseNoCost(n, a) ==
  [type |-> "advertise", anchor |-> a, seq |-> rib[n][a].seq, dist |-> rib[n][a].dist]

\* PrefixStateChanged is not called when a row becomes reachable.
NotifyLossOnly(row, new) == IsReachable(row) /\ ~IsReachable(new)

\* The timer heap entry is renewed only for advertisements.
RenewAdvertised(n) == {a \in Values(workQueue[n]) : IsReachable(rib[n][a])}

\* Only the first improvement of a row is queued for advertising.
ImprovedOnlyNew(row, ad) == ~row.known
-----------------------------------------------------------------------------
(* NfpWorkQueue, NfpPrefix and NfpAnchorAdvertisement *)

\* NfpWorkQueue::push_back
Push(queue, a) == IF a \in Values(queue) THEN queue ELSE Append(queue, a)

\* IsFeasibleAdvertisement, CompareSeqnumAndDistance
Feasible(row, ad) ==
  \/ ~row.known
  \/ Older(row.seq, ad.seq)
  \/ row.seq = ad.seq /\ ad.dist <= row.dist

\* Advertisement_ImprovedRoute: a new row, or the result REPLACE
Improved(row, ad) ==
  \/ ~row.known
  \/ Older(row.seq, ad.seq)
  \/ row.seq = ad.seq /\ ad.dist < row.dist

\* UpdateAdvertisement: Replace, or AddEqualCostPath
UpdateRow(row, from, ad) ==
  [seq   |-> ad.seq,
   dist  |-> ad.dist,
   next  |-> IF Improved(row, ad) THEN {from} ELSE row.next \cup {from},
   known |-> TRUE]

\* A row's change is reported when its reachability flips.
Notify(row, new) == IsReachable(row) # IsReachable(new)

\* The new row of (n, a): PrefixStateChanged queues the anchor and replaces what
\* the FIB holds for the prefix by what the RIB holds now, if the row's
\* reachability changed; otherwise the FIB is left alone.
ChangeRow(n, a, new, improved) ==
  LET notify == Notify(rib[n][a], new)
      rows   == [rib[n] EXCEPT ![a] = new]
  IN /\ rib' = [rib EXCEPT ![n] = rows]
     /\ fib' = IF notify THEN [fib EXCEPT ![n] = Route(n, rows)] ELSE fib
     /\ workQueue' = IF notify \/ improved
                     THEN [workQueue EXCEPT ![n] = Push(@, a)] ELSE workQueue

\* NfpRoutingProtocol::ReceiveAdvertise.  AddAdvertise, for the first
\* advertisement of the prefix, also arms the prefix timer.
ReceiveAdvertise(n, from, ad) ==
  IF Feasible(rib[n][ad.anchor], ad)
  THEN /\ ChangeRow(n, ad.anchor, UpdateRow(rib[n][ad.anchor], from, ad),
                    Improved(rib[n][ad.anchor], ad))
       /\ timerHeap' = IF \A a \in Node : ~rib[n][a].known
                       THEN [timerHeap EXCEPT ![n] = @ \cup {ad.anchor}]
                       ELSE timerHeap
  ELSE UNCHANGED <<rib, fib, workQueue, timerHeap>>

\* NfpRoutingProtocol::ReceiveWithdraw, and NfpPrefix::RemoveConnection for one
\* row.  The work queue entry of a prefix that becomes unreachable is the same
\* one that PrefixStateChanged queues.
ReceiveWithdraw(n, from, a) ==
  /\ ChangeRow(n, a, [rib[n][a] EXCEPT !.next = @ \ {from}], FALSE)
  /\ UNCHANGED timerHeap
-----------------------------------------------------------------------------
(* Anchors: AddAnchorPrefix, RemoveAnchorPrefix, AnchorRouteTimerExpired *)

InjectAnchorRoute(n) ==
  /\ anchorSeqnum[n] < MaxAnchorSeq
  /\ anchorSeqnum' = [anchorSeqnum EXCEPT ![n] = @ + 1]
  /\ ReceiveAdvertise(n, n, [type |-> "advertise", anchor |-> n,
                             seq |-> anchorSeqnum[n], dist |-> 0])

AddAnchorPrefix(n) ==
  /\ Idle(n) /\ n \in Anchors
  /\ anchorRefs[n] < MaxRefs
  /\ anchorRefs' = [anchorRefs EXCEPT ![n] = @ + 1]
  /\ IF anchorRefs[n] = 0
     THEN InjectAnchorRoute(n)
     ELSE UNCHANGED <<anchorSeqnum, rib, fib, workQueue, timerHeap>>
  /\ UNCHANGED <<messageSeqnum, neighbor, inbox, network>>

\* Called for a prefix that was added, by CCNxL3Protocol::UnregisterPrefix.
RemoveAnchorPrefix(n) ==
  /\ Idle(n)
  /\ anchorRefs[n] > 0
  /\ anchorRefs' = [anchorRefs EXCEPT ![n] = @ - 1]
  /\ IF anchorRefs[n] = 1
     THEN ReceiveWithdraw(n, n, n)
     ELSE UNCHANGED <<rib, fib, workQueue, timerHeap>>
  /\ UNCHANGED <<anchorSeqnum, messageSeqnum, neighbor, inbox, network>>

AnchorRouteTimerExpired(n) ==
  /\ Idle(n)
  /\ anchorRefs[n] > 0
  /\ InjectAnchorRoute(n)
  /\ UNCHANGED <<anchorRefs, messageSeqnum, neighbor, inbox, network>>
-----------------------------------------------------------------------------
(* Sending: HelloTimerExpired, AdvertiseTimerExpired, ProcessWorkQueue *)

\* Broadcast: one copy of each payload on every interface.
Broadcast(n, payloads) ==
  /\ messageSeqnum[n] + Len(payloads) <= MaxMessageSeq[n] + 1
  /\ messageSeqnum' = [messageSeqnum EXCEPT ![n] = @ + Len(payloads)]
  /\ network' = network \cup
       {[src |-> n, dst |-> m, seq |-> messageSeqnum[n] + i - 1, messages |-> payloads[i]] :
          m \in Adjacent(n), i \in DOMAIN payloads}

HelloTimerExpired(n) ==
  /\ Idle(n)
  /\ Broadcast(n, <<<<>>>>)
  /\ UNCHANGED <<anchorRefs, anchorSeqnum, rib, fib, workQueue, timerHeap, neighbor, inbox>>

\* One iteration of AdvertiseTimerExpired's loop: a due entry of the heap.
AdvertiseTimerExpired(n) ==
  /\ Idle(n)
  /\ \E a \in timerHeap[n] :
       /\ workQueue' = [workQueue EXCEPT ![n] = Push(@, a)]
       /\ timerHeap' = [timerHeap EXCEPT ![n] = @ \ {a}]
  /\ UNCHANGED <<anchorRefs, anchorSeqnum, messageSeqnum, rib, fib, neighbor, inbox, network>>

\* The copy of the best advertisement, one link further.
Readvertise(n, a) ==
  [type |-> "advertise", anchor |-> a, seq |-> rib[n][a].seq, dist |-> rib[n][a].dist + 1]

MessageFor(n, a) ==
  IF IsReachable(rib[n][a]) THEN Readvertise(n, a)
  ELSE [type |-> "withdraw", anchor |-> a]

\* The messages of a whole work queue, cut into payloads of PayloadCapacity.
Payloads(messages) ==
  [i \in 1..((Len(messages) + PayloadCapacity - 1) \div PayloadCapacity) |->
     SubSeq(messages, (i - 1) * PayloadCapacity + 1,
            IF i * PayloadCapacity < Len(messages)
            THEN i * PayloadCapacity ELSE Len(messages))]

\* Pairs whose timer is renewed once they are sent.
Renewed(n) == Values(workQueue[n])

ProcessWorkQueue(n) ==
  /\ Idle(n)
  /\ workQueue[n] # <<>>
  /\ Broadcast(n, Payloads([i \in DOMAIN workQueue[n] |-> MessageFor(n, workQueue[n][i])]))
  /\ timerHeap' = [timerHeap EXCEPT ![n] = @ \cup Renewed(n)]
  /\ workQueue' = [workQueue EXCEPT ![n] = <<>>]
  /\ UNCHANGED <<anchorRefs, anchorSeqnum, rib, fib, neighbor, inbox>>
-----------------------------------------------------------------------------
(* Receiving *)

\* NfpNeighbor::IsHelloInOrder
InOrder(nbr, seq) == Older(nbr.seq, seq)

\* ReceivePayload and ReceiveHello: a payload that is out of order is dropped.
HandlePayload(n, p) ==
  /\ Idle(n)
  /\ p \in network /\ p.dst = n
  /\ network' = network \ {p}
  /\ IF neighbor[n][p.src].state = "none" \/ InOrder(neighbor[n][p.src], p.seq)
     THEN /\ neighbor' = [neighbor EXCEPT ![n][p.src] = [state |-> "up", seq |-> p.seq]]
          /\ inbox' = [inbox EXCEPT ![n] = [from |-> p.src, messages |-> p.messages]]
     ELSE UNCHANGED <<neighbor, inbox>>
  /\ UNCHANGED <<anchorRefs, anchorSeqnum, messageSeqnum, rib, fib, workQueue, timerHeap>>

ReceivePayload(n) == \E p \in network : HandlePayload(n, p)

\* The next message of the payload; one that names this node as the anchor is
\* ignored.
ReceiveMessage(n) ==
  /\ ~Idle(n)
  /\ LET msg == Head(inbox[n].messages) IN
     IF msg.anchor = n
     THEN UNCHANGED <<rib, fib, workQueue, timerHeap>>
     ELSE IF msg.type = "advertise"
     THEN ReceiveAdvertise(n, inbox[n].from, msg)
     ELSE ReceiveWithdraw(n, inbox[n].from, msg.anchor)
  /\ inbox' = [inbox EXCEPT ![n].messages = Tail(@)]
  /\ UNCHANGED <<anchorRefs, anchorSeqnum, messageSeqnum, neighbor, network>>

-----------------------------------------------------------------------------
(* Timeouts *)

\* NfpNeighbor::UpStateTimeout, RemoveNeighborRoutes: the neighbor is Down and
\* every row loses it as nexthop, in the order of the anchor names.
NeighborDown(n, m) ==
  /\ Idle(n) /\ n \in Impatient
  /\ neighbor[n][m].state = "up"
  /\ neighbor' = [neighbor EXCEPT ![n][m].state = "down"]
  /\ inbox' = [inbox EXCEPT ![n] =
       [from |-> m, messages |-> [a \in 1..Nodes |-> [type |-> "withdraw", anchor |-> a]]]]
  /\ UNCHANGED <<anchorRefs, anchorSeqnum, messageSeqnum, rib, fib, workQueue, timerHeap,
                 network>>

\* NfpNeighbor::DownStateTimeout: the neighbor is Dead and its record erased.
NeighborDead(n, m) ==
  /\ Idle(n) /\ n \in Impatient
  /\ neighbor[n][m].state = "down"
  /\ neighbor' = [neighbor EXCEPT ![n][m] = NoNeighbor]
  /\ UNCHANGED <<anchorRefs, anchorSeqnum, messageSeqnum, rib, fib, workQueue, timerHeap,
                 inbox, network>>

\* PruneEqualCostPaths: a nexthop not heard of for m_routeTimeout is gone the
\* next time anybody asks; nobody is told.  An anchor renews its own.
NexthopExpires(n, a) ==
  /\ Idle(n) /\ n \in Impatient
  /\ \E m \in rib[n][a].next \ {n} : rib' = [rib EXCEPT ![n][a].next = @ \ {m}]
  /\ UNCHANGED <<anchorRefs, anchorSeqnum, messageSeqnum, fib, workQueue, timerHeap,
                 neighbor, inbox, network>>
-----------------------------------------------------------------------------

Init ==
  /\ anchorRefs = [n \in Node |-> 0]
  /\ anchorSeqnum = [n \in Node |-> 0]
  /\ messageSeqnum = [n \in Node |-> 1]
  /\ rib = [n \in Node |-> [a \in Node |-> NoRow]]
  /\ fib = [n \in Node |-> {}]
  /\ workQueue = [n \in Node |-> <<>>]
  /\ timerHeap = [n \in Node |-> {}]
  /\ neighbor = [n \in Node |-> [m \in Node |-> NoNeighbor]]
  /\ inbox = [n \in Node |-> [from |-> n, messages |-> <<>>]]
  /\ network = {}

Anchoring(n) == AddAnchorPrefix(n) \/ RemoveAnchorPrefix(n) \/ AnchorRouteTimerExpired(n)
Sending(n)   == HelloTimerExpired(n) \/ AdvertiseTimerExpired(n) \/ ProcessWorkQueue(n)
Receiving(n) == ReceivePayload(n) \/ ReceiveMessage(n)
Timeouts(n)  == \E m \in Node : NeighborDown(n, m) \/ NeighborDead(n, m) \/ NexthopExpires(n, m)

Next == \E n \in Node : Anchoring(n) \/ Sending(n) \/ Receiving(n) \/ Timeouts(n)

Spec == Init /\ [][Next]_vars

\* A network at rest: every payload arrives, those of one link in order, nobody is
\* timed out and no periodic timer repeats what was said.
ReceiveInOrder(n) ==
  \E p \in network :
    /\ \A q \in network : (q.src = p.src /\ q.dst = p.dst) => p.seq <= q.seq
    /\ HandlePayload(n, p)

Working(n) == ReceiveMessage(n) \/ ProcessWorkQueue(n) \/ ReceiveInOrder(n)

StableNext == \E n \in Node : Anchoring(n) \/ Working(n)

\* Every pending event of the simulator is run: what a node is handling, its work
\* queue timer, which is set while the queue is not empty, and what it was sent.
StableSpec == Init /\ [][StableNext]_vars /\ \A n \in Node : WF_vars(Working(n))

-----------------------------------------------------------------------------
(* Safety *)

CountersOK ==
  /\ anchorRefs \in [Node -> 0..MaxRefs]
  /\ anchorSeqnum \in [Node -> 0..MaxAnchorSeq]
  /\ messageSeqnum \in [Node -> Nat \ {0}]
  /\ \A n \in Node : messageSeqnum[n] <= MaxMessageSeq[n] + 1

TablesOK ==
  /\ rib \in [Node -> [Node -> Row]]
  /\ fib \in [Node -> SUBSET Node] /\ \A n \in Node : n \notin fib[n]
  /\ workQueue \in [Node -> Seq(Node)]
  /\ \A n \in Node : \A i, j \in DOMAIN workQueue[n] :
       workQueue[n][i] = workQueue[n][j] => i = j
  /\ timerHeap \in [Node -> SUBSET Node]

MessagesOK ==
  /\ neighbor \in [Node -> [Node -> Neighbor]]
  /\ inbox \in [Node -> [from : Node, messages : Seq(Message)]]
  /\ network \subseteq [src : Node, dst : Node, seq : Nat, messages : Seq(Message)]

\* Type invariant: every table of NfpRoutingProtocol holds what it is declared to
\* hold, a FIB never forwards to its own node, and a work queue has no duplicates.
TypeOK == CountersOK /\ TablesOK /\ MessagesOK

\* "Should be free of permanent loops even with topology changes"
\* (nfp-routing-protocol.h): whatever is lost, delayed, reordered or timed out, the
\* nexthops of the RIB towards one anchor never form a cycle.
RibLoopFree ==
  \A a \in Node : \A S \in SUBSET Node :
    S # {} => \E n \in S : (rib[n][a].next \ {n}) \cap S = {}

\* "As long as there's an m_prefix entry for it, there needs to be a timer for it"
\* (ProcessWorkQueue): a known (prefix, anchor) is in the timer heap, or in the work
\* queue on its way back into it, so that it is advertised again.
TimerForEveryRow ==
  \A n, a \in Node :
    rib[n][a].known => a \in timerHeap[n] \cup Values(workQueue[n])

\* Although PrefixStateChanged refreshes the FIB only when some row's reachability
\* flips, a prefix that is reachable through a neighbor always has a FIB entry.
ReachableIsForwarded ==
  \A n \in Node : (\E a \in Node : rib[n][a].next \ {n} # {}) => fib[n] # {}

\* The nodes of S and those one link from them.
Around(S) == S \cup UNION {Adjacent(m) : m \in S}

\* The nodes at most k links away from each node.
Within[k \in Nat] ==
  IF k = 0 THEN [a \in Node |-> {a}] ELSE [a \in Node |-> Around(Within[k - 1][a])]

\* "its distance is always increasing with each hop": no row claims a distance
\* smaller than the number of links to the anchor.
DistanceIsHonest ==
  \A n, a \in Node : rib[n][a].known => n \in Within[rib[n][a].dist][a]

Labels   == [n \in Node |-> [a \in Node |->
  [seq |-> rib[n][a].seq, dist |-> rib[n][a].dist, known |-> rib[n][a].known]]]
Nexthops == [n \in Node |-> [a \in Node |-> rib[n][a].next \ {n}]]

LR == INSTANCE LabelRouting WITH label <- Labels, succ <- Nexthops

\* The protocol implements loop-free label routing: a node's label (seqnum, distance)
\* for an anchor only improves, whatever it forgets, and a nexthop is taken only if
\* its own label is better at that moment.
Implements == LR!Spec

\* What an advertisement that was sent says of the sender: at the time the receiver
\* reads it, the sender's own label is still better.
Claim(ad) == [seq |-> ad.seq, dist |-> ad.dist, known |-> TRUE]
Behind(from, to, ad) == from # to /\ LR!Better(Labels[from][ad.anchor], Claim(ad))

\* Every advertisement in flight, or not yet handled, claims less than its sender
\* has: later withdraws and timeouts of the sender never make its label worse.
AdvertsBehind ==
  /\ \A p \in network : \A i \in DOMAIN p.messages :
       p.messages[i].type = "advertise" => Behind(p.src, p.dst, p.messages[i])
  /\ \A n \in Node : \A i \in DOMAIN inbox[n].messages :
       inbox[n].messages[i].type = "advertise"
         => Behind(inbox[n].from, n, inbox[n].messages[i])

\* "Should be free of permanent loops even with topology changes"
\* (nfp-routing-protocol.h:144): what the FIBs hold, when one node anchors the
\* prefix, never forms a cycle.
FibLoopFree ==
  \A S \in SUBSET Node : S # {} => \E n \in S : fib[n] \cap S = {}

-----------------------------------------------------------------------------
(* Liveness *)

\* The number of links between two nodes of a connected network.
Hops == [a \in Node |-> [n \in Node |->
  CHOOSE k \in 0..Nodes : n \in Within[k][a] /\ (k = 0 \/ n \notin Within[k - 1][a])]]

\* Every node knows the last seqnum of an anchor, its true distance, and as
\* nexthops all the neighbors that are one link closer.
ShortestPaths(a) ==
  \A n \in Node \ {a} :
    /\ rib[n][a].known /\ rib[n][a].seq = anchorSeqnum[a] - 1
    /\ rib[n][a].dist = Hops[a][n]
    /\ rib[n][a].next = {m \in Adjacent(n) : Hops[a][m] + 1 = Hops[a][n]}
    /\ fib[n] # {}

\* Nobody has a route to a node that no longer anchors the prefix.
Forgotten(a) == \A n \in Node : rib[n][a].next = {}

\* Triggered updates alone bring a network at rest to the shortest paths, all of
\* them, and a withdrawn prefix out of every RIB and FIB.
Converges ==
  <>[](/\ \A a \in Node : IF anchorRefs[a] > 0 THEN ShortestPaths(a) ELSE Forgotten(a)
       /\ (\A a \in Node : anchorRefs[a] = 0) => (\A n \in Node : fib[n] = {}))
=============================================================================
