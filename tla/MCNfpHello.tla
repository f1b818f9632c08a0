----------------------------- MODULE MCNfpHello -----------------------------
(***************************************************************************)
(* The two models of NFP in real time for TLC: NfpHello, what neighbors    *)
(* hear of each other, and NfpTimers, how routes are kept alive.  They     *)
(* share the clock and no other state; a behaviour is one of either.       *)
(*                                                                         *)
(* No guard reads a time or a sequence number, only how far apart two of   *)
(* them are, and none tells the two links of NfpHello apart: states that   *)
(* differ by a shift of time, by a shift of the sequence numbers or by an  *)
(* exchange of the links are one state here, and the behaviours have no    *)
(* last instant.                                                           *)
(***************************************************************************)
EXTENDS NfpHello, NfpTimers, FiniteSetsExt

VARIABLE model  \* the one this behaviour is of

helloVars == <<senderVars, network, receiverVars, counters>>

ASSUME RoutesAssumption == RouteTimersAssumption

MCInit == model \in {"hello", "routes"} /\ Init /\ RoutesInit

MCNext ==
  /\ UNCHANGED model
  /\ \/ model = "hello" /\ Next /\ UNCHANGED routeVars
     \/ model = "routes" /\ RoutesNext /\ UNCHANGED helloVars

MCSpec == MCInit /\ [][MCNext]_<<vars, routeVars, model>>

-----------------------------------------------------------------------------
(* Views *)

Since(t)  == IF t = Never THEN Never ELSE now - t
Until(t)  == IF t = Never THEN Never ELSE t - now
Behind(n) == (nextSeqnum - n) % (2 * Half16)

InFlight(l) == {<<Behind(c.seqnum), Since(c.sent)>> : c \in {d \in network : d.link = l}}

\* An entry older than every copy on its way is as old as one that is older still.
Cut(n, copies) == Min({n, 1 + Max({0} \cup {c[1] : c \in copies})})

\* newest is what the entry's seqnum was cut from, and is not read once it is erased, ...
ShiftedEntry(entry, copies) ==
  IF entry = NoEntry THEN <<"none">>
  ELSE <<entry.state, Cut(Behind(entry.seqnum), copies), Until(entry.expiry), Until(entry.timer)>>

\* ... nor what an expired PIT entry holds.
ShiftedLink(l) ==
  LET copies == InFlight(l)
  IN <<l \in interfaces, l \in P!LiveRoutes(pit), ShiftedEntry(neighbor[l], copies), copies>>

\* One member in the set stands for two links in the same state.
ShiftedHello ==
  <<Since(lastBroadcast), Until(helloTimer), Until(workTimer),
    IF P!IsExpired(pit) THEN Never ELSE Until(pit.expiry),
    {ShiftedLink(l) : l \in Links}, worked, faults>>

Older(n) == anchorSeqnum - n

ShiftedRow(row) ==
  IF row.known THEN <<Older(row.seqnum), row.expiry - now>> ELSE <<"unknown">>

ShiftedPayload(payload) ==
  <<now - payload.sent,
    [p \in DOMAIN payload.messages |->
       LET m == payload.messages[p] IN IF m.advertise THEN Older(m.seqnum) ELSE 0]>>

\* A key whose entry was popped is not read.
ShiftedRouter(n) ==
  <<[p \in Pairs |-> ShiftedRow(rows[n][p])],
    {<<e.pair, e.time - now, e.valid>> : e \in heap[n]},
    {p \in Pairs : TimerEntry(p, keys[n][p]) \in heap[n]},
    workQueue[n], Until(queueTimer[n]), advertiseTimer[n] - now,
    [i \in DOMAIN links[n] |-> ShiftedPayload(links[n][i])],
    [p \in Pairs |-> Since(lastSent[n][p])]>>

ShiftedRoutes == <<anchored, anchorTimer - now, [n \in Router |-> ShiftedRouter(n)]>>

Shifted == IF model = "hello" THEN ShiftedHello ELSE ShiftedRoutes
=============================================================================
