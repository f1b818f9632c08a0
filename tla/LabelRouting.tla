---------------------------- MODULE LabelRouting ----------------------------
(***************************************************************************)
(* What a loop-free distance vector protocol promises, with no messages and*)
(* no tables: every node has, for each anchor, a label (seq, dist) and a   *)
(* set of successors.  A label only improves (newer sequence number, or the*)
(* same one and a smaller distance), and a node takes as a new successor   *)
(* only a node whose label is better than its own.  NfpRouting implements  *)
(* it.                                                                     *)
(***************************************************************************)
EXTENDS Naturals

CONSTANT Node   \* the routers

VARIABLES
  label,    \* label[n][a]: what n knows of anchor a, if anything
  succ      \* succ[n][a]: where n forwards for anchor a

vars == <<label, succ>>

Label   == [seq : Nat, dist : Nat, known : BOOLEAN]
NoLabel == [seq |-> 0, dist |-> 0, known |-> FALSE]

\* k is strictly better than l.
Better(k, l) ==
  /\ k.known
  /\ ~l.known \/ k.seq > l.seq \/ (k.seq = l.seq /\ k.dist < l.dist)

Init ==
  /\ label = [n \in Node |-> [a \in Node |-> NoLabel]]
  /\ succ = [n \in Node |-> [a \in Node |-> {}]]

\* The nodes n may forward to under label l.
Closer(n, a, l) == {m \in Node \ {n} : Better(label[m][a], l)}

\* n takes a better label, and forwards to closer nodes only.
Improve(n, a) ==
  /\ label'[n][a] \in Label /\ Better(label'[n][a], label[n][a])
  /\ succ'[n][a] \subseteq Closer(n, a, label'[n][a])
  /\ label' = [label EXCEPT ![n][a] = label'[n][a]]
  /\ succ' = [succ EXCEPT ![n][a] = succ'[n][a]]

\* n keeps its label, forgets some successors and finds closer ones.
Reselect(n, a) ==
  /\ label[n][a].known
  /\ succ'[n][a] \subseteq succ[n][a] \cup Closer(n, a, label[n][a])
  /\ succ' = [succ EXCEPT ![n][a] = succ'[n][a]]
  /\ UNCHANGED label

Next == \E n, a \in Node : Improve(n, a) \/ Reselect(n, a)

Spec == Init /\ [][Next]_vars

-----------------------------------------------------------------------------

\* Type invariant: labels are numbers, successors are nodes.
TypeOK ==
  /\ label \in [Node -> [Node -> Label]]
  /\ succ \in [Node -> [Node -> SUBSET Node]]

\* Every successor has a better label: the order that makes the successor graph
\* of each anchor acyclic.
Descending ==
  \A n, a \in Node : \A m \in succ[n][a] :
    label[n][a].known /\ Better(label[m][a], label[n][a])

\* No nonempty set of nodes keeps a packet among themselves: in every set some
\* node has no successor in it.  Over a finite set this is acyclicity.
LoopFree ==
  \A a \in Node : \A S \in SUBSET Node :
    S # {} => \E n \in S : succ[n][a] \cap S = {}
=============================================================================
