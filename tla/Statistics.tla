----------------------------- MODULE Statistics -----------------------------
(***************************************************************************)
(* What nodes count for their users: NfpComputationCost, which the helper  *)
(* of NFP prints, and the latencies of CCNxConsumer::ShowStatistics.  The  *)
(* counts of payloads and messages (NfpStats) are in Path.                 *)
(*                                                                         *)
(* Numbers are far below 2^64.                                             *)
(***************************************************************************)
EXTENDS Integers, SequencesExt

(* NfpComputationCost *)

NoCost == [events |-> 0, loopIterations |-> 0]

\* operator + and operator +=
SumCost(a, b) ==
  [events |-> a.events + b.events, loopIterations |-> a.loopIterations + b.loopIterations]

IncrementEvents(cost) == SumCost(cost, [NoCost EXCEPT !.events = 1])
IncrementLoopIterations(cost, count) == SumCost(cost, [NoCost EXCEPT !.loopIterations = count])

TotalCost(cost) == cost.loopIterations + cost.events

\* NfpPrefix::GetComputationCost: its own and that of its anchors.
PrefixCost(prefix) == FoldLeft(SumCost, prefix.own, prefix.anchors)

\* NfpRoutingProtocol::GetComputationCost: its own, then the prefixes and the neighbors.
ProtocolCost(own, prefixes, neighbors) ==
  LET costs == [i \in 1 .. Len(prefixes) |-> PrefixCost(prefixes[i])]
  IN FoldLeft(SumCost, own, costs \o neighbors)

-----------------------------------------------------------------------------
(* The latencies of a consumer: m_count, m_sum and m_sumSquare.            *)

NoLatencies == [count |-> 0, sum |-> 0, sumSquare |-> 0]

\* GenerateTraffic counts a request, RemoveOutStandingInterest adds up an answer.
CountRequest(latencies) == [latencies EXCEPT !.count = @ + 1]
AddLatency(latencies, latency) ==
  [latencies EXCEPT !.sum = @ + latency, !.sumSquare = @ + latency * latency]

\* ShowStatistics divides integers by integers.  The standard deviation is the root of
\* CorrectionSquare times that of Variance.
Average(latencies) == IF latencies.count > 0 THEN latencies.sum \div latencies.count ELSE 0
CorrectionSquare(latencies) ==
  IF latencies.count > 2 THEN latencies.count \div (latencies.count - 1) ELSE 0
Variance(latencies) ==
  IF latencies.count > 2
  THEN (latencies.sumSquare \div latencies.count) - Average(latencies) * Average(latencies)
  ELSE 0

=============================================================================
