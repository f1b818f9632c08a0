------------------------------- MODULE Routes -------------------------------
(***************************************************************************)
(* CCNxRoute and CCNxRouteEntry (model/node), and what NFP does with them  *)
(* to the FIB of its node.                                                 *)
(*                                                                         *)
(* The prefix of a route never changes and is the same in all its entries, *)
(* so a route is the cost of each of its connections.                      *)
(***************************************************************************)
EXTENDS Naturals, FiniteSets

Route(Connections) == UNION {[S -> Nat] : S \in SUBSET Connections}

RouteEntry(Connections) == [connection : Connections, cost : Nat]

\* GetNexthops, without their order
Nexthops(route) == DOMAIN route

\* AddNexthop: of two entries with one connection the cheaper is kept.
AddNexthop(route, entry) ==
  [c \in DOMAIN route \cup {entry.connection} |->
     IF c # entry.connection \/ (c \in DOMAIN route /\ route[c] <= entry.cost)
     THEN route[c] ELSE entry.cost]

\* AddRoute: AddNexthop of every entry of the other route.
AddRoute(route, other) ==
  [c \in DOMAIN route \cup DOMAIN other |->
     IF c \notin DOMAIN other \/ (c \in DOMAIN route /\ route[c] <= other[c])
     THEN route[c] ELSE other[c]]

RemoveNexthop(route, connection) ==
  [c \in DOMAIN route \ {connection} |-> route[c]]

\* Equals: as many entries, and every entry of the one is in the other.
Equals(route, other) ==
  /\ Cardinality(DOMAIN route) = Cardinality(DOMAIN other)
  /\ \A c \in DOMAIN route : c \in DOMAIN other /\ route[c] = other[c]

\* NfpRoutingProtocol::AddAnchorToFib and RemoveAnchorFromFib, for the connections of
\* one prefix in the FIB: those of "model", the route NFP last put there, are taken out,
\* and those of "current" put in, but for the local host (InnerAddRoute).
Refreshed(connections, model, current, localHost) ==
  (connections \ Nexthops(model)) \cup (Nexthops(current) \ {localHost})
=============================================================================
