------------------------------ MODULE Examples ------------------------------
(***************************************************************************)
(* The scripts of src/examples.  A script is the order of its commands;    *)
(* the links of its nodes; what it sends through portals of its own, and   *)
(* the applications it starts and stops.  Times are tenths of seconds.     *)
(*                                                                         *)
(* The steps of the commands are in Stack, the applications in Node.       *)
(* Command line values are those a script begins with.                     *)
(***************************************************************************)
EXTENDS Messages

Named(byte) == [type |-> 0, value |-> <<byte>>]
FooSink == <<Named(102), Named(115)>>
Kitchen(number) == FooSink \o <<Named(number)>>

\* A buffer that is told to set its bytes to 0.
Zeros(size) == [i \in 1 .. size |-> 0]

Lasting(time) == <<[type |-> T_INT_LIFE, time |-> time], [type |-> T_CACHE_TIME, time |-> time]>>

Made(message, perHop) == [message |-> message, perHop |-> perHop]

\* GenerateTraffic sends a packet each half second, and closes the portal with the last one.
Sends(node, at, packets) == [node |-> node, at |-> at, packets |-> packets]
LastAt(sends) == sends.at + 5 * (Len(sends.packets) - 1)

\* GenerateTraffic of a size: the sizes go down by 50 to 0, which they would miss if the
\* size were no multiple of 50.
CountDown(size) == [i \in 1 .. (size \div 50) + 1 |-> size - 50 * (i - 1)]
\* GenerateTraffic of a number of packets, which are named after what is left of it.
Numbered(count) == [i \in 1 .. count |-> count - i + 1]

Asking(name, size, perHop) == Made(NewInterest(name, {Zeros(size)}), perHop)
AskingFoo(perHop) ==
  LET sizes == CountDown(500) IN [i \in DOMAIN sizes |-> Asking(FooSink, sizes[i], perHop)]

\* The application of a node runs from start to stop; the first of its repositories is 1.
Runs(node, repositories, start, stop) ==
  [node |-> node, repositories |-> 1 .. repositories, start |-> start, stop |-> stop]

-----------------------------------------------------------------------------
(* The commands that scripts share                                         *)

StackOnly == <<"Create", "Helper", "Install">>
WithNfp == <<"Create", "Helper", "SetRoutingHelper", "Install", "AddInterfaces">>
WithForwarder == <<"Create", "Helper", "SetForwardingHelper">> \o Tail(Tail(WithNfp))
StaticRoute == <<"AddInterfaces", "AddNeighbor", "AddRoute">>
Portals == <<"CreatePortal", "RegisterPrefix", "Send", "Run">>
PrintedNfp == <<"Create", "PrintRouting">> \o Tail(WithNfp)
  \o <<"CreatePortal", "RegisterAnchor", "Send", "Stop", "Run">>
Applications == <<"Applications", "Stop", "Run">>

\* A script without applications ends with its last event unless it says when to stop.
Script(commands, nodes, links, sink, sends) ==
  [commands |-> commands, nodes |-> 0 .. nodes - 1, links |-> links, sink |-> sink,
   sends |-> sends, routes |-> {}, producers |-> {}, consumers |-> {}, stop |-> {}]

\* Static routes are node 1's, to node 0.
StaticScript(commands, sends) ==
  [Script(commands, 2, {{0, 1}}, {0}, sends) EXCEPT !.routes = {<<1, 0>>}]

RoutedScript(nodes, links, source) ==
  [Script(PrintedNfp, nodes, links, {0},
          {Sends(source, 5, [i \in DOMAIN CountDown(500) |-> Made(NewInterest(FooSink, {}), <<>>)])})
     EXCEPT !.stop = {100}]

ApplicationScript(commands, nodes, links, producers, consumers, stop) ==
  [Script(commands \o Applications, nodes, links, {}, {})
     EXCEPT !.producers = producers, !.consumers = consumers, !.stop = {stop}]

-----------------------------------------------------------------------------
(* The scripts                                                             *)

TwoNode(perHop) ==
  LET left == Numbered(3)
      asks == [i \in DOMAIN left |-> Asking(Kitchen(left[i]), 500, perHop)]
      answers == [i \in DOMAIN left |->
                    Made(NewContentObject(Kitchen(left[i]), {Zeros(1500)}), <<>>)]
  IN  StaticScript(StackOnly \o StaticRoute \o Portals, {Sends(1, 0, asks), Sends(0, 1, answers)})

ccnx_2node == TwoNode(<<>>)
ccnx_2node_withperhopheaders == TwoNode(Lasting(3600))

ccnx_csma_simple ==
  StaticScript(StackOnly \o StaticRoute \o Portals, {Sends(1, 0, AskingFoo(<<>>))})
ccnx_tracing ==
  StaticScript(StackOnly \o <<"EnableAsciiCCNx">> \o StaticRoute \o Portals,
    {Sends(1, 0, AskingFoo(Lasting(3600)))})
ccnx_simple ==
  Script(StackOnly \o Portals, 1, {}, {0}, {Sends(0, 0, AskingFoo(<<>>))})

ccnx_nfp_routing == RoutedScript(4, {{0, 1}, {1, 2, 3}}, 3)
ccnx_nfp_routing_12node ==
  RoutedScript(12,
    {{0, 1}, {1, 2, 3}, {1, 4}, {2, 5}, {3, 6}, {3, 7}, {3, 8}, {4, 5}, {5, 6}, {6, 7}, {6, 8},
     {6, 11}, {7, 8}, {7, 9}, {8, 9}, {9, 10}, {9, 11}}, 10)

ccnx_consumer_producer ==
  ApplicationScript(WithForwarder, 2, {{0, 1}}, {Runs(0, 1, 0, 130)}, {Runs(1, 1, 20, 120)}, 140)
ccnx_content_store == ccnx_consumer_producer
ccnx_csma_consumer_producer ==
  ApplicationScript(WithForwarder, 2, {{0, 1}}, {Runs(0, 1, 0, 120)}, {Runs(1, 1, 20, 100)}, 130)
ccnx_layer_delays ==
  ApplicationScript(<<"Create", "Helper", "PrintForwarding">> \o Tail(Tail(WithForwarder)), 2,
    {{0, 1}}, {Runs(0, 1, 10, 100)}, {Runs(1, 1, 20, 100)}, 120)
ccnx_lossy_link ==
  ApplicationScript(WithForwarder, 3, {{0, 1}, {1, 2}},
    {Runs(0, 1, 0, 120)}, {Runs(2, 1, 10, 110)}, 130)
ccnx_4node_topo ==
  ApplicationScript(WithForwarder, 4, {{0, 2}, {1, 2}, {3, 2}},
    {Runs(p, 2, 0, 1010) : p \in {0, 1}}, {Runs(3, 2, 10, 1000)}, 1020)
ccnx_6node_topo ==
  ApplicationScript(WithForwarder, 6, {{0, 2}, {1, 2}, {4, 3}, {5, 3}, {3, 2}},
    {Runs(p, 5, 0, 1200) : p \in {0, 1}}, {Runs(4, 5, 50, 1050), Runs(5, 5, 20, 1020)}, 1220)
\* The consumer of each repository starts a second after that of the last one.
ccnx_multi_prefix_producer_consumer ==
  ApplicationScript(WithForwarder, 2, {{0, 1}}, {Runs(0, 4, 0, 1050)},
    {[Runs(1, 4, 10 * i, 1000) EXCEPT !.repositories = {i}] : i \in 1 .. 4}, 1100)

=============================================================================
