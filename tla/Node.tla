-------------------------------- MODULE Node --------------------------------
(***************************************************************************)
(* A node with its applications: CCNxStandardLayer3, the message portals of*)
(* a CCNxConsumer and a CCNxProducer, and the Forwarder below them.        *)
(*                                                                         *)
(* The script starts the producer, then the consumer, and may stop them;   *)
(* the node has no routing protocol.  A behaviour is shorter than the      *)
(* lifetime of an Interest: the clock stands still.                        *)
(*                                                                         *)
(* The forwarder calls layer 3 back with a packet and connections; layer 3 *)
(* sends the packet on each of them, and the receive callback of a portal  *)
(* runs at once, up to the next packet the application sends.  The loop    *)
(* over the connections is taken one portal at a time (inbox); the node    *)
(* does nothing else until it is empty.  An application's loop over Recv   *)
(* always empties the queue of its portal, so no packet waits there.       *)
(***************************************************************************)
EXTENDS Forwarder

CONSTANTS
  Consumer,          \* the connection of the consumer's portal
  Producer,          \* the connection of the producer's portal
  RepositoryPrefix,  \* m_repositoryPrefix
  Repository,        \* the content objects of the CCNxContentRepository
  MaxRequests,       \* bound: the Interests the consumer sends
  MaxHeard           \* bound: the packets the node receives from its devices

ASSUME ApplicationsAssumption ==
  /\ Portals = {Consumer, Producer} /\ Consumer # Producer
  /\ RepositoryPrefix \in RoutePrefixes /\ Repository \subseteq Packets
  /\ Repository # {} /\ \A p \in Repository : p.name \in Names
\* Every Interest may be answered.
ASSUME NodeBoundsAssumption ==
  MaxRequests \in Nat /\ MaxHeard \in Nat /\ MaxPackets >= 2 * (MaxRequests + MaxHeard)

VARIABLES
  protocols,         \* m_protocols: the portals that are open
  started,           \* the applications that were started
  inbox,             \* what layer 3 still has to give to portals
  outstanding,       \* m_outstandingRequests of the consumer: names
  interestsSent,     \* m_goodInterestsSent of the consumer
  contentReceived,   \* m_goodContentReceived of the consumer
  heard,             \* packets received from the devices
  early,             \* history: one was received before the producer was started
  aborted            \* an assertion ended the program

consumerVars == <<outstanding, interestsSent, contentReceived>>
portalVars == <<protocols, started, inbox>>
deviceVars == <<heard, early>>
nodeVars == <<vars, portalVars, consumerVars, deviceVars, aborted>>

\* No event runs while another one is being handled.
Idle == inbox = {} /\ ~aborted

-----------------------------------------------------------------------------
(* Plausible bugs: each replaces the definition it names in a run that      *)
(* shows the properties can fail.                                          *)

\* Receivers: only the first connection is used, and devices come first.
FirstReceiver(connections) == IF connections \subseteq Portals THEN connections ELSE {}

-----------------------------------------------------------------------------
(* CCNxStandardLayer3 *)

\* SendFromLayer4: the assertion is that the portal is still registered.
SendFromLayer4(portal, item) ==
  IF portal \in protocols
  THEN Arrive(item) /\ UNCHANGED aborted
  ELSE aborted' = TRUE /\ UNCHANGED vars

\* RouteCallback sends on every connection.  What goes to a device is gone.
Receivers(connections) == connections \cap Portals

\* The connections the forwarder returns an item with, in the step that ends it.
Egress(item) ==
  Outputs(item, IF item \notin Items(pitQueue) THEN item.route
                   ELSE IF IsInterest(item) THEN {} ELSE pitResult'.egress)

RouteCallback ==
  LET finished == {item \in Pipeline : item.id \in returned' \ returned}
  IN  inbox' = UNION {[to : Receivers(Egress(item)), item : {item}] : item \in finished}

\* ReceiveFromLayer2
ReceiveFromLayer2(ingress) ==
  /\ Idle /\ heard < MaxHeard
  /\ heard' = heard + 1 /\ early' = (early \/ Producer \notin started)
  /\ RouteInput(ingress)
  /\ UNCHANGED <<portalVars, consumerVars, aborted>>

\* An event of the forwarder, in which it may call layer 3 back.
Forwarding(event) ==
  /\ Idle
  /\ event
  /\ RouteCallback
  /\ UNCHANGED <<protocols, started, consumerVars, deviceVars, aborted>>

\* AddProtocol makes the connection of a new portal.
AddProtocol(portal) ==
  /\ Idle
  /\ portal \notin started
  /\ started' = started \cup {portal} /\ protocols' = protocols \cup {portal}

\* UnregisterProtocol closes it, which is asserted to be there.
UnregisterProtocol(portal) ==
  /\ Idle
  /\ portal \in protocols
  /\ protocols' = protocols \ {portal}
  /\ UNCHANGED started

\* RegisterAnchor and UnregisterAnchor, by RegisterPrefix and UnregisterPrefix
RegisterAnchor(prefix, portal) == InnerAddRoute(prefix, {portal})
UnregisterAnchor(prefix, portal) == InnerRemoveRoute(prefix, {portal})

-----------------------------------------------------------------------------
(* CCNxContentRepository *)

GetContentObject(name) ==
  {p \in Repository : IsPrefix(RepositoryPrefix, name) /\ p.name = name}

\* What GetRandomName draws from.
RandomNames == {p.name : p \in Repository}

-----------------------------------------------------------------------------
(* CCNxConsumer *)

\* StartApplication: CreatePortal, and the timer of GenerateTraffic.  The script starts the
\* producer first.
StartConsumer ==
  /\ AddProtocol(Consumer)
  /\ Producer \in started
  /\ UNCHANGED <<vars, inbox, consumerVars, deviceVars, aborted>>

\* GenerateTraffic: the Interest has no lifetime header, and gets the PIT's default.
GenerateTraffic ==
  /\ Idle
  /\ Consumer \in protocols     \* StopApplication cancels the timer
  /\ interestsSent < MaxRequests
  /\ \E i \in Interests :
       /\ i.name \in RandomNames /\ i.lifetime > 0
       /\ SendFromLayer4(Consumer, InterestItem(arrived + 1, i, Consumer, NoConnection))
       /\ outstanding' = outstanding \cup {i.name}
  /\ interestsSent' = interestsSent + 1
  /\ UNCHANGED <<portalVars, contentReceived, deviceVars>>

\* ReceiveCallback counts whatever comes, and strikes a name out.
ConsumerReceives(item) ==
  /\ contentReceived' = contentReceived + 1
  /\ outstanding' = IF IsInterest(item) THEN outstanding ELSE outstanding \ {item.packet.name}
  /\ UNCHANGED <<vars, interestsSent, aborted>>

\* StopApplication, with CCNxMessagePortal::Close
StopConsumer ==
  /\ UnregisterProtocol(Consumer)
  /\ UNCHANGED <<vars, inbox, consumerVars, deviceVars, aborted>>

-----------------------------------------------------------------------------
(* CCNxProducer *)

\* StartApplication: CreatePortal, then RegisterAnchor.
StartProducer ==
  /\ AddProtocol(Producer)
  /\ RegisterAnchor(RepositoryPrefix, Producer)
  /\ UNCHANGED <<inbox, consumerVars, deviceVars, aborted>>

\* ReceiveCallback answers an Interest with the object of its name, if there is one.
ProducerReceives(item) ==
  LET found == IF IsInterest(item) THEN GetContentObject(item.interest.name) ELSE {} IN
  /\ IF found = {} THEN UNCHANGED <<vars, aborted>>
     ELSE \E p \in found :
            SendFromLayer4(Producer, ContentItem(arrived + 1, p, Producer))
  /\ UNCHANGED consumerVars

\* StopApplication: UnregisterAnchor, then Close.
StopProducer ==
  /\ UnregisterProtocol(Producer)
  /\ UnregisterAnchor(RepositoryPrefix, Producer)
  /\ UNCHANGED <<inbox, consumerVars, deviceVars, aborted>>

-----------------------------------------------------------------------------

\* CCNxMessagePortal::ReceiveFromLayer3, the callback of the connection: closing the
\* portal does not take it away.
Deliver ==
  /\ ~aborted
  /\ \E d \in inbox :
       /\ inbox' = inbox \ {d}
       /\ IF d.to = Consumer THEN ConsumerReceives(d.item) ELSE ProducerReceives(d.item)
  /\ UNCHANGED <<protocols, started, deviceVars>>

NodeInit ==
  /\ Init
  /\ protocols = {} /\ started = {}
  /\ inbox = {} /\ outstanding = {} /\ interestsSent = 0 /\ contentReceived = 0
  /\ heard = 0 /\ early = FALSE /\ aborted = FALSE

ForwarderWorks ==
  \/ Forwarding(ServiceInputQueue)
  \/ Forwarding(PitReceiveInterest) \/ Forwarding(PitSatisfyInterest)
  \/ Forwarding(CsMatchInterest) \/ Forwarding(CsAddContentObject)
  \/ Forwarding(FibLookup)

NodeNext ==
  \/ \E c \in Connections \ Portals : ReceiveFromLayer2(c)
  \/ ForwarderWorks
  \/ Deliver
  \/ StartConsumer \/ GenerateTraffic \/ StopConsumer
  \/ StartProducer \/ StopProducer

NodeSpec == NodeInit /\ [][NodeNext]_nodeVars

\* The simulator expires every timer of a server, and callbacks return.
FairSpec ==
  /\ NodeSpec
  /\ WF_nodeVars(Deliver)
  /\ WF_nodeVars(Forwarding(ServiceInputQueue))
  /\ WF_nodeVars(Forwarding(PitReceiveInterest)) /\ WF_nodeVars(Forwarding(PitSatisfyInterest))
  /\ WF_nodeVars(Forwarding(CsMatchInterest)) /\ WF_nodeVars(Forwarding(CsAddContentObject))
  /\ WF_nodeVars(Forwarding(FibLookup))

-----------------------------------------------------------------------------
(* Properties *)

\* The consumer's statistics print interestsSent - contentReceived, of unsigned numbers,
\* as the missing Interests: no mixture of retransmissions, Interests of neighbors, cached
\* and unsolicited content brings the consumer more objects than it asked for.
ReceivedWithinSent == contentReceived <= interestsSent

\* The stages a request passes: an Interest not yet filed or filed in the PIT, and
\* content for the consumer that leaves the content store or layer 3.
Tracked(name) ==
  \/ \E item \in Items(inputQueue) \cup Items(pitQueue) :
       IsInterest(item) /\ item.ingress = Consumer /\ item.interest.name = name
  \/ Consumer \in P!LiveRoutes(pit[name])
  \/ \E item \in Items(csQueue) : Consumer \in item.route /\ item.packet.name = name
  \/ \E d \in inbox : d.to = Consumer /\ d.item.packet.name = name

\* A request the consumer counts as outstanding is known to the node: it is on its way to
\* the PIT, pending there, or being answered.  Otherwise it would stay outstanding whatever
\* content arrives.
OutstandingIsTracked == ~aborted => \A name \in outstanding : Tracked(name)

\* While the producer runs, every request of the consumer for its content is answered:
\* "All interest expressed by consumer have been honored by the network"
\* (CCNxConsumer::StopApplication).  An Interest of a neighbor that came before the producer
\* was started found no route and stays in the PIT; a request behind it is not answered.
RequestsHonored ==
  \A name \in Names : name \in outstanding ~>
    (name \notin outstanding \/ Producer \notin protocols \/ early)

\* Asserted in SendFromLayer4, and not so: a protocol that sends is registered.  An Interest
\* whose FIB lookup had begun is delivered to the producer after it has stopped (the TODO of
\* UnregisterProtocol), and the producer answers it.
NeverAborts == ~aborted
=============================================================================
