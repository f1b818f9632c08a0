------------------------------- MODULE MCNode -------------------------------
(***************************************************************************)
(* Names and content objects for the runs of Node.  The assumptions at the *)
(* end check what is counted of costs and latencies, on small numbers.     *)
(***************************************************************************)
EXTENDS Node, Statistics

CONSTANTS a, b

NoSegments == <<>>
Prefix     == <<a>>
OnePrefix  == {Prefix}
Name       == <<a, b>>
OneName    == {Name}
Objects    == {[name |-> Name, hash |-> NullHash, until |-> 0]}
OneRequest == {[name |-> Name, hash |-> NullHash, lifetime |-> 1]}

-----------------------------------------------------------------------------

SomeCosts ==
  {IncrementLoopIterations(IncrementEvents(NoCost), count) : count \in 0 .. 2} \cup {NoCost}
SomePrefixes == {[own |-> c, anchors |-> <<d, NoCost>>] : c, d \in SomeCosts}

\* The cost of a protocol counts each part of it once, in any order of its maps.
ASSUME CostsAddUp ==
  /\ \A own, neighbor \in SomeCosts : \A p, q \in SomePrefixes :
       LET cost == ProtocolCost(own, <<p, q>>, <<neighbor>>)
       IN  /\ cost = ProtocolCost(own, <<q, p>>, <<neighbor>>)
           /\ TotalCost(cost) = TotalCost(own) + TotalCost(neighbor)
                                + TotalCost(PrefixCost(p)) + TotalCost(PrefixCost(q))

\* Latencies of at most five answers to at most seven requests.
Answered(answers) == FoldLeft(AddLatency, NoLatencies, answers)
SomeLatencies ==
  {[Answered(answers) EXCEPT !.count = Len(answers) + missing] :
     answers \in SeqOf(0 .. 4, 5), missing \in 0 .. 2}

\* ShowStatistics takes no root of a negative number, however it rounds and whatever
\* requests have no answer yet; equal latencies, all answered, deviate by 0; but
\* m_count / (m_count - 1) is 1 for every number of requests.
ASSUME DeviationsAreNumbers ==
  /\ \A l \in SomeLatencies : Variance(l) >= 0
  /\ \A latency \in 0 .. 9, count \in 3 .. 9 :
       Variance([count |-> count, sum |-> count * latency,
                 sumSquare |-> count * latency * latency]) = 0
  /\ \A count \in 3 .. 99 : CorrectionSquare([NoLatencies EXCEPT !.count = count]) = 1

=============================================================================
