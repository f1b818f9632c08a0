-------------------------------- MODULE Fib --------------------------------
(***************************************************************************)
(* CCNxStandardFib and CCNxStandardFibEntry (model/forwarding/standard):   *)
(* the routes of a node, and the lookup of the routes of a name.           *)
(*                                                                         *)
(* A name is a sequence of segments.  An entry that would have no          *)
(* connection is erased, so a prefix has an entry if it has a connection.  *)
(* Lookup puts the Interest in a DelayQueue; PerformLookup runs when its   *)
(* service begins.                                                         *)
(***************************************************************************)
EXTENDS Naturals, Sequences

CONSTANTS
  RoutePrefixes,  \* the names routes are added for
  Connections     \* the connections routes lead to

VARIABLE
  fib          \* fib: the connections of each prefix

Prefix(name, i) == SubSeq(name, 1, i)
HasEntry(name)  == name \in RoutePrefixes /\ fib[name] # {}

-----------------------------------------------------------------------------
(* Plausible bug: replaces BestMatch in a run that shows the properties can *)
(* fail.                                                                    *)

\* BestMatch: the first match ends the loop.
BestMatchFirst(name) ==
  LET matches == {i \in 1..Len(name) : HasEntry(Prefix(name, i))}
  IN  IF matches = {} THEN 0 ELSE CHOOSE i \in matches : \A j \in matches : i <= j

-----------------------------------------------------------------------------

Init == fib = [p \in RoutePrefixes |-> {}]

\* Of one connection, or of all nexthops of a CCNxRoute: its costs are lost.
AddRoute(prefix, connections) ==
  fib' = [fib EXCEPT ![prefix] = @ \cup connections]

\* CCNxStandardFibEntry::RemoveConnection goes on with an iterator it has erased, up to the
\* former end.  A connection is in an entry once, so that where iterators are not checked
\* this looks at the last one a second time, and removes what it should.
DeleteRoute(prefix, connections) ==
  fib' = [fib EXCEPT ![prefix] = @ \ connections]

\* RemoveConnection, of all entries
RemoveConnection(connection) ==
  fib' = [p \in RoutePrefixes |-> fib[p] \ {connection}]

\* The loop of PerformLookup over the segments of a name: the length of the best
\* match so far, and whether the loop was left because a match was followed by a
\* prefix that has no entry.
BestMatch(name) ==
  LET scan[i \in 0..Len(name)] ==
        IF i = 0 THEN [best |-> 0, left |-> FALSE]
        ELSE IF scan[i - 1].left THEN scan[i - 1]
        ELSE IF HasEntry(Prefix(name, i)) THEN [best |-> i, left |-> FALSE]
        ELSE [best |-> scan[i - 1].best, left |-> scan[i - 1].best # 0]
  IN  scan[Len(name)].best

\* PerformLookup: the connections of the best match, but the one the Interest came from.
Lookup(name, ingress) ==
  IF BestMatch(name) = 0 THEN {} ELSE fib[Prefix(name, BestMatch(name))] \ {ingress}

-----------------------------------------------------------------------------

\* A prefix leads to connections of the node.
TypeOK == fib \in [RoutePrefixes -> SUBSET Connections]

\* The lengths of the prefixes of a name that have an entry.
Matches(name) == {i \in 1..Len(name) : HasEntry(Prefix(name, i))}

\* A lookup returns the routes of the longest prefix, if no shorter match is
\* followed by a prefix without an entry; and it finds a route if there is any.
LongestMatch(name) ==
  LET m == BestMatch(name) IN
  /\ m \in Matches(name) \cup {0}
  /\ Matches(name) # {} => m # 0
  /\ (\A i, j \in Matches(name) : i..j \subseteq Matches(name)) => \A i \in Matches(name) : i <= m
=============================================================================
