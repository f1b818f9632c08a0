------------------------------- MODULE Stack -------------------------------
(***************************************************************************)
(* The script of a simulation: CCNxStackHelper and the helpers under it    *)
(* put the objects of a node together, and then the nodes of Path run.     *)
(*                                                                         *)
(* A node is the set of what it has: the objects that are aggregated to    *)
(* it, and the pointers and tables they have been given.  Each step of a   *)
(* helper needs some of it, by an assertion or by a pointer it uses, and   *)
(* adds to it.  The commands of a script come in any order; a command that *)
(* misses what it needs ends the program.                                  *)
(*                                                                         *)
(* The factories make the standard PIT, FIB and layer 3, the routing       *)
(* helper that of NFP.  A script gives a device to AddInterfaces once.     *)
(***************************************************************************)
EXTENDS Path

VARIABLES
  created,     \* the nodes 1 .. created exist (NodeList)
  known,       \* the nodes m_traceFilters has reserved memory for, or NoHelper
  routing,     \* m_routingHelper is set
  has,         \* has[n]: the parts of node n
  interfaces,  \* interfaces[n]: m_interfaces of the node's NFP
  filters,     \* the nodes whose trace is enabled
  printing,    \* the table that all nodes print, whether each prints it again and again,
               \* and the nodes with a pending event
  running,     \* Simulator::Run has been called
  ended        \* the command that ended the program, or None

builtVars == <<created, known, routing, has, interfaces, filters>>
stackVars == <<vars, builtVars, printing, running, ended>>

NoHelper == Hops + 2
None == <<"None", 0>>
NotPrinting == [table |-> "None", again |-> FALSE, events |-> {}]
NoLoad == [requests |-> {}, queue |-> <<>>, flaps |-> 0]

\* Aggregated objects, and what they refer to.
Objects == {"Layer3", "Forwarder", "PortalFactory", "NFP"}
Parts == Objects \cup
  {"Layer3.node", "Layer3.forwarder", "Layer3.routingProtocol", "Forwarder.ccnx", "Forwarder.fib",
   "Forwarder.routeCallback", "PortalFactory.ccnx", "NFP.ccnx", "NFP.portal", "NFP.route"}

\* What the helpers print of a node.
ForwardingTables == {"ForwardingTable", "ForwardingStatistics"}
RoutingTables == {"RoutingTable", "NeighborTable"}

\* What has ended in the middle of a command.
Failed == {"failed"}

-----------------------------------------------------------------------------
(* The steps of the helpers                                                *)

Step(node, needs, adds) ==
  IF node = Failed \/ ~(needs \subseteq node) THEN Failed ELSE node \cup adds

\* Object::AggregateObject asserts that there is no object of that type.
Aggregate(node, object) ==
  IF object \in node THEN Failed ELSE Step(node, {}, {object})

\* CCNxStandardLayer3Helper::Install
InstallLayer3(node) == Step(Aggregate(node, "Layer3"), {"Layer3"}, {"Layer3.node"})

\* CCNxStandardForwarderHelper::Install: SetNode, SetForwarder, Initialize
InstallForwarder(node) ==
  LET aggregated == Aggregate(node, "Forwarder")
      node1 == Step(aggregated, {"Layer3", "Forwarder"}, {"Forwarder.ccnx"})
      node2 == Step(node1, {}, {"Layer3.forwarder", "Forwarder.routeCallback"})
  IN  Step(node2, {}, {"Forwarder.fib"})

\* The portal factory and its SetCCNx
InstallPortalFactory(node) ==
  Step(Aggregate(node, "PortalFactory"), {"Layer3", "PortalFactory"}, {"PortalFactory.ccnx"})

\* CCNxPortal::CreatePortal and CCNxMessagePortalFactory::CreatePortal
CreatePortal(node, portal) ==
  Step(node, {"PortalFactory", "PortalFactory.ccnx", "Layer3"}, {portal})

\* RegisterPrefix of a portal, with the forwarder's AddRoute
RegisterPrefix(node, portal, route) ==
  Step(node, {portal, "Layer3.forwarder", "Forwarder.fib"}, {route})

\* NfpRoutingHelper::Create: SetNode, AggregateObject, and DoInitialize
CreateNfp(node) ==
  LET node1 == Aggregate(Step(node, {"Layer3"}, {"NFP.ccnx"}), "NFP")
  IN  RegisterPrefix(CreatePortal(node1, "NFP.portal"), "NFP.portal", "NFP.route")

\* Plausible bug: the routing protocol comes before the portal factory.
InstalledRoutingFirst(node) ==
  LET node1 == InstallForwarder(InstallLayer3(node))
      node2 == IF routing THEN CreateNfp(node1) ELSE node1
      node3 == InstallPortalFactory(node2)
  IN  IF routing THEN Step(node3, {}, {"Layer3.routingProtocol"}) ELSE node3

\* CCNxStackHelper::Install of one node
Installed(node) ==
  LET node1 == InstallPortalFactory(InstallForwarder(InstallLayer3(node)))
  IN  IF routing THEN Step(CreateNfp(node1), {}, {"Layer3.routingProtocol"}) ELSE node1

-----------------------------------------------------------------------------
StackInit ==
  /\ load = NoLoad /\ Quiet
  /\ up = {}
  /\ neighbors = [n \in Nodes |-> {}]
  /\ created = 0 /\ known = NoHelper /\ routing = FALSE
  /\ has = [n \in Nodes |-> {}]
  /\ interfaces = [n \in Nodes |-> {}]
  /\ filters = {}
  /\ printing = NotPrinting
  /\ running = FALSE /\ ended = None

Scripting == ~running /\ ended = None

\* NodeContainer::Create
CreateNode ==
  /\ Scripting
  /\ created < Hops + 1
  /\ created' = created + 1
  /\ UNCHANGED <<vars, known, routing, has, interfaces, filters, printing, running, ended>>

\* m_traceFilters has no elements, only memory reserved for some: where it is indexed, a
\* library that checks the index ends the program.
EndedByIndex(command, n) == ended' \in {None, <<command, n>>}

\* The constructor of CCNxStackHelper reserves memory for the nodes there are, and indexes
\* m_traceFilters for each.
ConstructHelper ==
  /\ Scripting
  /\ known = NoHelper
  /\ known' = created
  /\ IF created = 0 THEN UNCHANGED ended ELSE EndedByIndex("ConstructHelper", 1)
  /\ UNCHANGED <<vars, created, routing, has, interfaces, filters, printing, running>>

SetRoutingHelper ==
  /\ Scripting
  /\ known # NoHelper
  /\ routing' = TRUE
  /\ UNCHANGED <<vars, created, known, has, interfaces, filters, printing, running, ended>>

Install(n) ==
  /\ Scripting
  /\ known # NoHelper /\ n <= created
  /\ IF Installed(has[n]) = Failed
     THEN ended' = <<"Install", n>> /\ UNCHANGED has
     ELSE has' = [has EXCEPT ![n] = Installed(@)] /\ UNCHANGED ended
  /\ UNCHANGED <<vars, created, known, routing, interfaces, filters, printing, running>>

\* Plausible bug: SetDown tells nobody.
NotifyInterfacesUp(raised, lowered) ==
  interfaces' = [n \in Nodes |-> IF "NFP" \in has[n]
                                 THEN interfaces[n] \cup (DevicesOf(n) \cap raised)
                                 ELSE interfaces[n]]

\* SetUp and SetDown of CCNxL3Interface tell the routing protocol that is aggregated to
\* the node of their one interface, and NFP adds it to m_interfaces or erases it.
NotifyInterfaces(raised, lowered) ==
  interfaces' = [n \in Nodes |-> IF "NFP" \in has[n]
                                 THEN (interfaces[n] \cup (DevicesOf(n) \cap raised)) \ lowered
                                 ELSE interfaces[n]]

\* Plausible bug: only the first device of the container gets its interface.
AddInterfacesFirst(n) ==
  /\ Scripting
  /\ known # NoHelper /\ n < created
  /\ <<n, 1>> \notin up
  /\ {"Layer3", "Layer3.node"} \subseteq has[n]
  /\ up' = up \cup {<<n, 1>>}
  /\ neighbors' = [neighbors EXCEPT ![n] = @ \cup {BroadcastConnection(<<n, 1>>)}]
  /\ NotifyInterfaces({<<n, 1>>}, {})
  /\ UNCHANGED <<load, held, link, pit, queue, seqnum, sent, heard, stats, unmatched, flaps, aborted,
                 created, known, routing, has, filters, printing, running, ended>>

\* AddInterfaces for the devices at both ends of a link: AddInterface makes the broadcast
\* connection, and SetUp is called twice.
AddInterfaces(n) ==
  LET devices == {<<n, 1>>, <<n + 1, -1>>} IN
  /\ Scripting
  /\ known # NoHelper /\ n < created
  /\ <<n, 1>> \notin up
  /\ IF \E d \in devices : Step(has[d[1]], {"Layer3", "Layer3.node"}, {}) = Failed
     THEN ended' = <<"AddInterfaces", n>> /\ UNCHANGED <<up, neighbors, interfaces>>
     ELSE /\ up' = up \cup devices
          /\ neighbors' = [m \in Nodes |->
               neighbors[m] \cup {BroadcastConnection(d) : d \in devices \cap DevicesOf(m)}]
          /\ NotifyInterfaces(devices, {})
          /\ UNCHANGED ended
  /\ UNCHANGED <<load, held, link, pit, queue, seqnum, sent, heard, stats, unmatched, flaps, aborted,
                 created, known, routing, has, filters, printing, running>>

\* EnableAsciiCCNx for one node.  If the index does not end the program, the filter is in
\* the reserved memory, or lost: beyond it anything may happen.  Bound: a script that
\* prints traces nothing.
EnableAsciiCCNx(n) ==
  /\ Scripting
  /\ known # NoHelper /\ n <= created
  /\ printing = NotPrinting
  /\ EndedByIndex("EnableAsciiCCNx", n)
  /\ filters' = IF ended' = None /\ n <= known THEN filters \cup {n} ELSE filters
  /\ UNCHANGED <<vars, created, known, routing, has, interfaces, printing, running>>

\* NfpRoutingHelper::GetStats, GetComputationCost and SetSteams of one node.
AskNfp(n) ==
  /\ Scripting
  /\ n <= created /\ "NFP" \notin has[n]
  /\ ended' = <<"AskNfp", n>>
  /\ UNCHANGED <<vars, builtVars, printing, running>>

\* The constructor of CCNxStaticRoutingHelper names a type that is not registered:
\* "staticRoutingProtocol" for "StaticRoutingProtocol".
ConstructStaticRoutingHelper ==
  /\ Scripting
  /\ ended' = <<"StaticRouting", 0>>
  /\ UNCHANGED <<vars, builtVars, printing, running>>

\* One event for each node there is.  Bound: a script prints one table and traces nothing.
PrintAllNodes(table, again) ==
  /\ Scripting
  /\ printing = NotPrinting /\ filters = {}
  /\ printing' = [table |-> table, again |-> again, events |-> 1 .. created]
  /\ UNCHANGED <<vars, builtVars, running, ended>>

\* CCNxForwardingHelper: Print...AllNodesWithDelay and Print...AllNodesWithInterval
PrintForwardingAllNodes ==
  \E table \in ForwardingTables, again \in BOOLEAN : PrintAllNodes(table, again)

\* CCNxRoutingHelper: Print...AllNodesWithDelay and Print...AllNodesWithInterval
PrintRoutingAllNodes ==
  \E table \in RoutingTables, again \in BOOLEAN : PrintAllNodes(table, again)

\* NfpRoutingHelper::PrintComputationCostAllNodesWithDelay
PrintCostAllNodes == PrintAllNodes("ComputationCost", FALSE)

\* The script has set up the whole path.
Complete ==
  /\ \A n \in Nodes : has[n] = Parts
  /\ \A n \in 1 .. Hops : <<n, 1>> \in up

\* Bound: packets are sent only in the simulations of scripts that neither trace nor print,
\* which do not meet packets.
LoadsOfScript ==
  IF Complete /\ filters = {} /\ printing = NotPrinting /\ known = Hops + 1
  THEN Loads ELSE {NoLoad}

\* Simulator::Run
Run ==
  /\ Scripting
  /\ running' = TRUE
  /\ load' \in LoadsOfScript
  /\ queue' = load'.queue
  /\ UNCHANGED <<held, link, up, neighbors, pit, seqnum, sent, heard, stats, unmatched, flaps, aborted,
                 builtVars, printing, ended>>

-----------------------------------------------------------------------------
\* A step of the path.  A change of an interface is told to NFP.
PathStep ==
  /\ running
  /\ Next
  /\ NotifyInterfaces(up' \ up, up \ up')
  /\ UNCHANGED <<created, known, routing, has, filters, printing, running, ended>>

\* The print event of a node, for one of tables.  Print...Interval schedules the next.  A
\* node without the object that prints says so.  The intervals, and the order the
\* simulator gives to events of one instant, are left open: any event may be the next.
PrintOneOf(tables) ==
  /\ running
  /\ printing.table \in tables
  /\ \E n \in printing.events :
       printing' = [printing EXCEPT !.events = IF printing.again THEN @ ELSE @ \ {n}]
  /\ UNCHANGED <<vars, builtVars, running, ended>>

PrintForwarding == PrintOneOf(ForwardingTables)
PrintRouting == PrintOneOf(RoutingTables)
PrintComputationCost == PrintOneOf({"ComputationCost"})

StackNext ==
  \/ CreateNode \/ ConstructHelper \/ SetRoutingHelper \/ ConstructStaticRoutingHelper
  \/ \E n \in Nodes : Install(n) \/ AddInterfaces(n) \/ EnableAsciiCCNx(n) \/ AskNfp(n)
  \/ PrintForwardingAllNodes \/ PrintRoutingAllNodes \/ PrintCostAllNodes
  \/ Run
  \/ PathStep
  \/ PrintForwarding \/ PrintRouting \/ PrintComputationCost

StackSpec == StackInit /\ [][StackNext]_stackVars

-----------------------------------------------------------------------------
\* A script that installs the stack on a node once, adds only devices of nodes with a stack,
\* asks only nodes with a routing protocol for its statistics, and leaves the helper of
\* static routing alone, is never ended by an assertion or a null pointer: each helper
\* finds what those before it have set up.  Nothing is claimed of what indexes
\* m_traceFilters: it may end any script.
EndsOnlyIfMisused ==
  LET n == ended[2] IN
  CASE ended[1] = "Install"         -> "Layer3" \in has[n]
    [] ended[1] = "AddInterfaces"   -> "Layer3" \notin has[n] \cap has[n + 1]
    [] ended[1] = "AskNfp"          -> "Layer3.routingProtocol" \notin has[n]
    [] OTHER -> ended[1] \in {"None", "StaticRouting", "ConstructHelper", "EnableAsciiCCNx"}

\* NFP knows the interfaces that are up, whatever the order in which the script builds the
\* nodes and however interfaces go down and up again: it is told of each change, and no
\* interface is older than the routing protocol of its node.
NfpKnowsTheInterfaces ==
  \A n \in Nodes : "NFP" \in has[n] => interfaces[n] = DevicesOf(n) \cap up

\* When a script that has set up the path starts the simulation, the nodes are those that
\* Path begins with.
StartsAsPath == [][~running /\ running' /\ Complete => (Quiet /\ Assembled)']_stackVars
=============================================================================
