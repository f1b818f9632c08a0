------------------------------ MODULE PitProofs ------------------------------
(***************************************************************************)
(* What the PIT guarantees for any names, hashes, connections, lifetimes   *)
(* and any length of time.                                                 *)
(*                                                                         *)
(* The inductive invariant relates the table to the history of Interests:  *)
(* an unanswered Interest that is alive is a reverse route of an entry     *)
(* that lives at least as long, and a reverse route was asked for.         *)
(***************************************************************************)
EXTENDS Pit, TLAPS

RoutesAreAsked ==
  \A k \in Keys : \A c \in table[k].routes : asked[k][c] # Never

AskedAreRoutes ==
  \A k \in Keys : \A c \in Connections :
    asked[k][c] > now => c \in table[k].routes /\ asked[k][c] <= table[k].expiry

IInv == TypeOK /\ RoutesAreAsked /\ AskedAreRoutes /\ RoutesBehindForwarded

\* An entry keeps its type through the operators of CCNxStandardPitEntry.
LEMMA EntryTypes ==
  ASSUME NEW entry \in Entry, NEW expiry \in Nat, NEW ingress, now \in Nat
  PROVE  /\ NewEntry \in Entry
         /\ Extend(entry, expiry) \in Entry
         /\ Cleaned(entry) \in Entry
         /\ Removed(entry) \in Entry
         /\ Satisfied(entry, ingress) \in Entry
<1>1. NewEntry \in Entry
  BY DEF NewEntry, Entry, Time, Never
<1>2. Later(entry.expiry, expiry) \in Time
  BY DEF Entry, Later, Time
<1>3. Extend(entry, expiry) \in Entry
  BY <1>2 DEF Extend, Entry
<1>4. Satisfied(entry, ingress) \in Entry
  BY DEF Satisfied, Entry
<1> QED
  BY <1>1, <1>3, <1>4 DEF Cleaned, Removed

\* What ReceiveInterest leaves of an entry before it adds the reverse route: its
\* routes, if it will live on, and an expiry time no earlier than the old and the
\* new one, if either is still to come.
LEMMA ExtendKeepsLive ==
  ASSUME NEW entry \in Entry, NEW expiry \in Nat, now \in Nat
  PROVE  LET e == Cleaned(Extend(entry, expiry)) IN
         /\ e.routes \subseteq entry.routes
         /\ \A t \in Time : t > now /\ (t <= entry.expiry \/ t <= expiry)
              => t <= e.expiry /\ e.routes = entry.routes
<1> DEFINE x == Extend(entry, expiry)
<1>1. x = [expiry |-> Later(entry.expiry, expiry), routes |-> entry.routes]
  BY DEF Extend, Entry
<1>2. entry.expiry \in Int /\ expiry \in Int /\ now \in Int /\ \A t \in Time : t \in Int
  BY DEF Entry, Time, Never
<1>3. Cleaned(x) = IF Later(entry.expiry, expiry) <= now THEN NewEntry ELSE x
  BY <1>1 DEF Cleaned, IsExpired
<1>4. Cleaned(x).routes \subseteq entry.routes
  BY <1>1, <1>3 DEF NewEntry
<1>5. ASSUME NEW t \in Time, t > now, t <= entry.expiry \/ t <= expiry
      PROVE  t <= Cleaned(x).expiry /\ Cleaned(x).routes = entry.routes
  BY <1>1, <1>2, <1>3, <1>5 DEF Later
<1> QED
  BY <1>4, <1>5

LEMMA InitIInv == Init => IInv
<1> SUFFICES ASSUME Init PROVE IInv
  OBVIOUS
<1> USE DEF Init
<1>1. TypeOK
  BY DEF TypeOK, NewEntry, Entry, Quiet, Time, Never
<1>2. RoutesAreAsked /\ AskedAreRoutes /\ RoutesBehindForwarded
  BY DEF RoutesAreAsked, AskedAreRoutes, RoutesBehindForwarded, NewEntry, Never
<1> QED
  BY <1>1, <1>2 DEF IInv

LEMMA TickIInv == ASSUME IInv, Tick PROVE IInv'
<1> USE DEF IInv, Tick
<1>1. TypeOK'
  BY DEF TypeOK, Quiet
<1>2. RoutesAreAsked' /\ RoutesBehindForwarded'
  BY DEF RoutesAreAsked, RoutesBehindForwarded
<1>3. AskedAreRoutes'
  <2> SUFFICES ASSUME NEW k \in Keys, NEW c \in Connections, asked[k][c] > now + 1
               PROVE  c \in table[k].routes /\ asked[k][c] <= table[k].expiry
    BY DEF AskedAreRoutes
  <2>1. asked[k][c] \in Int /\ now \in Int
    BY DEF TypeOK, Time, Never
  <2> QED
    BY <2>1 DEF AskedAreRoutes
<1> QED
  BY <1>1, <1>2, <1>3

LEMMA ReceiveIInv ==
  ASSUME IInv, NEW key \in Keys, NEW keyid \in BOOLEAN, NEW ingress \in Connections,
         NEW lifetime \in Lifetimes, ReceiveInterest(key, keyid, ingress, lifetime)
  PROVE  IInv'
<1> DEFINE expiry  == now + lifetime
           old     == EntryFor(key, keyid)
           entry   == Cleaned(Extend(old, expiry))
           verdict == Verdict(entry, ingress)
           new     == [entry EXCEPT !.routes = @ \cup {ingress}]
           others  == IF keyid THEN [c \in Connections |-> Never] ELSE asked[key]
<1> USE DEF IInv
<1>1. /\ table' = [table EXCEPT ![key] = new]
      /\ callback' = [verdict |-> verdict, key |-> key, ingress |-> ingress, egress |-> {}]
      /\ asked' = [asked EXCEPT ![key] = [others EXCEPT ![ingress] = Later(@, expiry)]]
      /\ forwarded' = IF verdict = "Forward" THEN forwarded \cup {key} ELSE forwarded
      /\ now' = now /\ (keyid => key \in KeyIdNames)
  BY DEF ReceiveInterest
<1>2. expiry \in Nat /\ now \in Nat
  BY TimeAssumption DEF TypeOK
<1>3. table[key] \in Entry /\ old \in Entry
  BY <1>2, EntryTypes DEF EntryFor, TypeOK
<1>4. entry \in Entry
  <2>1. Extend(old, expiry) \in Entry
    BY <1>2, <1>3, EntryTypes
  <2> QED
    BY <1>2, <2>1, EntryTypes
<1>5. /\ entry.routes \subseteq old.routes
      /\ \A t \in Time : t > now /\ (t <= old.expiry \/ t <= expiry)
           => t <= entry.expiry /\ entry.routes = old.routes
  BY <1>2, <1>3, ExtendKeepsLive
<1>6. /\ new \in Entry /\ new.routes = entry.routes \cup {ingress}
      /\ new.expiry = entry.expiry
  BY <1>4 DEF Entry
<1>7. old.routes \subseteq table[key].routes
  BY DEF EntryFor, NewEntry
<1>8. /\ others \in [Connections -> Time]
      /\ Later(others[ingress], expiry) \in Nat
  <2>1. others \in [Connections -> Time]
    BY DEF TypeOK, Time
  <2> QED
    BY <1>2, <2>1 DEF Later, Time, Never
<1>a. /\ asked'[key][ingress] = Later(others[ingress], expiry)
      /\ \A c \in Connections : c # ingress => asked'[key][c] = others[c]
      /\ \A k \in Keys : k # key => asked'[k] = asked[k]
  BY <1>1, <1>8 DEF TypeOK
<1>c. \A c \in old.routes : ~keyid /\ others[c] = asked[key][c]
  BY DEF EntryFor, NewEntry
<1>d. \A c \in Connections :
        others[c] > now => c \in old.routes /\ others[c] <= old.expiry
  <2> SUFFICES ASSUME NEW c \in Connections, others[c] > now
               PROVE  c \in old.routes /\ others[c] <= old.expiry
    OBVIOUS
  <2>1. ~keyid
    BY <1>2 DEF Never
  <2> QED
    BY <2>1 DEF EntryFor, AskedAreRoutes
<1>b. table'[key] = new /\ \A k \in Keys : k # key => table'[k] = table[k]
  BY <1>1 DEF TypeOK
<1>9. TypeOK'
  <2>1. table' \in [Keys -> Entry]
    BY <1>1, <1>6 DEF TypeOK
  <2>2. asked' \in [Keys -> [Connections -> Time]]
    BY <1>1, <1>8 DEF TypeOK, Time
  <2>3. callback' \in [verdict : {"none", "Forward", "Aggregate", "Satisfy"},
                       key : Keys \cup {NoName}, ingress : Connections \cup {NoConnection},
                       egress : SUBSET Connections]
    BY <1>1 DEF Verdict
  <2>4. forwarded' \subseteq Keys /\ now' \in Nat
    BY <1>1 DEF TypeOK
  <2> QED
    BY <2>1, <2>2, <2>3, <2>4 DEF TypeOK
<1>10. RoutesAreAsked'
  <2> SUFFICES ASSUME NEW k \in Keys, NEW c \in table'[k].routes
               PROVE  asked'[k][c] # Never
    BY DEF RoutesAreAsked
  <2>1. c \in Connections
    BY <1>9 DEF TypeOK, Entry
  <2>2. CASE k = key /\ c = ingress
    BY <2>2, <1>a, <1>8 DEF Never
  <2>3. CASE k = key /\ c # ingress
    <3>1. c \in old.routes
      BY <2>3, <1>b, <1>5, <1>6
    <3> QED
      BY <3>1, <2>1, <2>3, <1>a, <1>c, <1>7 DEF RoutesAreAsked
  <2>4. CASE k # key
    BY <2>4, <2>1, <1>a, <1>b DEF RoutesAreAsked
  <2> QED
    BY <2>2, <2>3, <2>4
<1>11. AskedAreRoutes'
  <2> SUFFICES ASSUME NEW k \in Keys, NEW c \in Connections, asked'[k][c] > now
               PROVE  c \in table'[k].routes /\ asked'[k][c] <= table'[k].expiry
    BY <1>1 DEF AskedAreRoutes
  <2>1. CASE k # key
    BY <2>1, <1>a, <1>b DEF AskedAreRoutes
  <2>2. CASE k = key
    <3>2. others[c] \in Time /\ asked'[k][c] \in Time
      BY <1>8, <1>9 DEF TypeOK
    <3>3. CASE c = ingress
      <4>1. asked'[k][c] = others[c] \/ asked'[k][c] = expiry
        BY <2>2, <3>3, <1>a DEF Later
      <4>2. asked'[k][c] <= old.expiry \/ asked'[k][c] <= expiry
        <5>1. expiry <= expiry
          BY <1>2
        <5> QED
          BY <1>d, <4>1, <5>1
      <4> QED
        BY <2>2, <3>2, <3>3, <4>2, <1>b, <1>5, <1>6
    <3>4. CASE c # ingress
      <4>1. asked'[k][c] = others[c]
        BY <2>2, <3>4, <1>a
      <4>2. c \in old.routes /\ asked'[k][c] <= old.expiry
        BY <4>1, <1>d
      <4> QED
        BY <2>2, <3>2, <4>2, <1>b, <1>5, <1>6
    <3> QED
      BY <3>3, <3>4
  <2> QED
    BY <2>1, <2>2
<1>12. RoutesBehindForwarded'
  <2> SUFFICES ASSUME NEW k \in Keys, table'[k].routes # {}
               PROVE  k \in forwarded'
    BY DEF RoutesBehindForwarded
  <2>1. CASE k # key
    BY <2>1, <1>1, <1>b DEF RoutesBehindForwarded
  <2>2. CASE k = key /\ verdict = "Forward"
    BY <2>2, <1>1
  <2>3. CASE k = key /\ verdict # "Forward"
    <3>1. table[key].routes # {}
      BY <2>3, <1>5, <1>7 DEF Verdict
    <3> QED
      BY <2>3, <3>1, <1>1 DEF RoutesBehindForwarded
  <2> QED
    BY <2>1, <2>2, <2>3
<1> QED
  BY <1>9, <1>10, <1>11, <1>12

LEMMA SatisfyIInv ==
  ASSUME IInv, NEW name \in Names \cup {NoName}, NEW hash \in Hashes \cup {NullHash},
         NEW ingress \in Connections \cup {NoConnection}, SatisfyInterest(name, hash, ingress)
  PROVE  IInv'
<1> DEFINE keys == ContentKeys(name, hash)
           after(k) == Removed(Satisfied(table[k], ingress))
<1> USE DEF IInv
<1>1. /\ callback' = [verdict |-> "Satisfy", key |-> name, ingress |-> ingress,
                      egress  |-> UNION {Answer(table[k], ingress) : k \in keys}]
      /\ table' = [k \in Keys |-> IF k \in keys THEN after(k) ELSE table[k]]
      /\ asked' = [k \in Keys |-> IF k \in {name, hash} THEN [c \in Connections |-> Never]
                                                        ELSE asked[k]]
      /\ forwarded' = forwarded \ {name, hash}
      /\ now' = now
  BY DEF SatisfyInterest
<1>2. \A k \in Keys : k \in keys <=> k \in {name, hash}
  BY DEF ContentKeys
<1>3. \A k \in Keys : after(k) = NewEntry
  <2> SUFFICES ASSUME NEW k \in Keys PROVE after(k) = NewEntry
    OBVIOUS
  <2>1. table[k] \in Entry
    BY DEF TypeOK
  <2>2. LiveRoutes(Satisfied(table[k], ingress)) = {}
    BY <2>1 DEF LiveRoutes, Satisfied, IsExpired, Entry
  <2> QED
    BY <2>2 DEF Removed
<1>4. TypeOK'
  <2>1. table' \in [Keys -> Entry]
    BY <1>1, <1>3 DEF TypeOK, NewEntry, Entry, Time, Never
  <2>2. asked' \in [Keys -> [Connections -> Time]]
    BY <1>1 DEF TypeOK, Time, Never
  <2>3. \A k \in keys : Answer(table[k], ingress) \subseteq Connections
    BY DEF Answer, LiveRoutes, ContentKeys, TypeOK, Entry
  <2>4. UNION {Answer(table[k], ingress) : k \in keys} \subseteq Connections
    BY <2>3
  <2>5. name \in Keys \cup {NoName}
    BY DEF Keys
  <2>6. callback' \in [verdict : {"none", "Forward", "Aggregate", "Satisfy"},
                       key : Keys \cup {NoName}, ingress : Connections \cup {NoConnection},
                       egress : SUBSET Connections]
    BY <1>1, <2>4, <2>5
  <2>7. forwarded' \subseteq Keys /\ now' \in Nat
    BY <1>1 DEF TypeOK
  <2> QED
    BY <2>1, <2>2, <2>6, <2>7 DEF TypeOK
<1>5. RoutesAreAsked'
  BY <1>1, <1>2, <1>3 DEF RoutesAreAsked, NewEntry
<1>6. AskedAreRoutes'
  <2> SUFFICES ASSUME NEW k \in Keys, NEW c \in Connections, asked'[k][c] > now
               PROVE  c \in table'[k].routes /\ asked'[k][c] <= table'[k].expiry
    BY <1>1 DEF AskedAreRoutes
  <2>1. k \notin {name, hash}
    BY <1>1 DEF TypeOK, Never
  <2> QED
    BY <2>1, <1>1, <1>2 DEF AskedAreRoutes
<1>7. RoutesBehindForwarded'
  BY <1>1, <1>2, <1>3 DEF RoutesBehindForwarded, NewEntry
<1> QED
  BY <1>4, <1>5, <1>6, <1>7

LEMMA StepIInv == IInv /\ [Next]_vars => IInv'
<1> SUFFICES ASSUME IInv, [Next]_vars PROVE IInv'
  OBVIOUS
<1>1. CASE Tick
  BY <1>1, TickIInv
<1>2. CASE \E key \in Keys, keyid \in BOOLEAN, ingress \in Connections, lifetime \in Lifetimes :
             ReceiveInterest(key, keyid, ingress, lifetime)
  BY <1>2, ReceiveIInv
<1>3. CASE \E name \in Names \cup {NoName}, hash \in Hashes \cup {NullHash},
              ingress \in Connections \cup {NoConnection} : SatisfyInterest(name, hash, ingress)
  BY <1>3, SatisfyIInv
<1>4. CASE UNCHANGED vars
  BY <1>4 DEF vars, IInv, TypeOK, RoutesAreAsked, AskedAreRoutes, RoutesBehindForwarded
<1> QED
  BY <1>1, <1>2, <1>3, <1>4 DEF Next

LEMMA PitInvariant == Spec => []IInv
  BY InitIInv, StepIInv, PTL DEF Spec

-----------------------------------------------------------------------------
(* The results *)

\* The PIT's variables keep their types.
THEOREM PitTypeCorrect == Spec => []TypeOK
<1>1. IInv => TypeOK
  BY DEF IInv
<1> QED
  BY <1>1, PitInvariant, PTL

\* ReceiveInterest and SatisfyInterest never lose the reverse route of a live
\* Interest: expiry times only grow, and only content of its key removes an entry.
THEOREM PitRecordsLiveInterests == Spec => []LiveInterestsRecorded
<1>1. IInv => LiveInterestsRecorded
  <2> SUFFICES ASSUME IInv, NEW k \in Keys, NEW c \in Connections, asked[k][c] > now
               PROVE  c \in LiveRoutes(table[k])
    BY DEF LiveInterestsRecorded
  <2>1. c \in table[k].routes /\ asked[k][c] <= table[k].expiry
    BY DEF IInv, AskedAreRoutes
  <2>2. asked[k][c] \in Int /\ table[k].expiry \in Int /\ now \in Int
    BY DEF IInv, TypeOK, Entry, Time, Never
  <2> QED
    BY <2>1, <2>2 DEF LiveRoutes, IsExpired
<1> QED
  BY <1>1, PitInvariant, PTL

\* An Interest is aggregated only if one for its key was forwarded.
THEOREM PitRoutesBehindForwarded == Spec => []RoutesBehindForwarded
<1>1. IInv => RoutesBehindForwarded
  BY DEF IInv
<1> QED
  BY <1>1, PitInvariant, PTL

\* ServiceSatisfyInterest answers every live Interest it ends.
THEOREM PitAnswersLiveInterests == Spec => LiveInterestsAnswered
<1> DEFINE A == \A k \in Keys : \A c \in Connections :
                  callback'.verdict = "Satisfy" /\ asked[k][c] > now /\ asked'[k][c] = Never
                    => c \in callback'.egress \cup {callback'.ingress}
<1>1. IInv /\ [Next]_vars => [A]_vars
  <2> SUFFICES ASSUME IInv, Next, NEW k \in Keys, NEW c \in Connections,
                      callback'.verdict = "Satisfy", asked[k][c] > now, asked'[k][c] = Never
               PROVE  c \in callback'.egress \cup {callback'.ingress}
    OBVIOUS
  <2>0. /\ asked[k][c] \in Int /\ table[k].expiry \in Int /\ now \in Nat
        /\ c \in table[k].routes /\ asked[k][c] <= table[k].expiry
    BY DEF IInv, TypeOK, Entry, Time, Never, AskedAreRoutes
  <2>1. CASE Tick
    BY <2>1 DEF Tick, Quiet
  <2>2. ASSUME NEW key \in Keys, NEW keyid \in BOOLEAN, NEW ingress \in Connections,
               NEW lifetime \in Lifetimes, ReceiveInterest(key, keyid, ingress, lifetime)
        PROVE  FALSE
    <3>1. callback'.verdict \in {"Forward", "Aggregate"}
      BY <2>2 DEF ReceiveInterest, Verdict
    <3> QED
      BY <3>1
  <2>3. ASSUME NEW name \in Names \cup {NoName}, NEW hash \in Hashes \cup {NullHash},
               NEW ingress \in Connections \cup {NoConnection}, SatisfyInterest(name, hash, ingress)
        PROVE  c \in callback'.egress \cup {callback'.ingress}
    <3>1. k \in ContentKeys(name, hash)
      BY <2>3, <2>0 DEF SatisfyInterest, ContentKeys, Never
    <3>2. c \in Answer(table[k], ingress) \cup {ingress}
      BY <2>0 DEF Answer, LiveRoutes, IsExpired
    <3>3. /\ callback'.ingress = ingress
          /\ callback'.egress = UNION {Answer(table[j], ingress) : j \in ContentKeys(name, hash)}
      BY <2>3 DEF SatisfyInterest
    <3> QED
      BY <3>1, <3>2, <3>3
  <2> QED
    BY <2>1, <2>2, <2>3 DEF Next
<1> QED
  BY <1>1, PitInvariant, PTL DEF Spec, LiveInterestsAnswered

\* ServiceSatisfyInterest sends nothing to a connection that did not ask for it.
THEOREM PitAnswersOnce == Spec => OneAnswerPerInterest
<1> DEFINE A == callback'.egress \subseteq
                  {c \in Connections : \E k \in Keys : asked[k][c] # Never /\ asked'[k][c] = Never}
<1>1. IInv /\ [Next]_vars => [A]_vars
  <2> SUFFICES ASSUME IInv, Next, NEW c \in callback'.egress
               PROVE  c \in Connections /\ \E k \in Keys : asked[k][c] # Never /\ asked'[k][c] = Never
    OBVIOUS
  <2>1. CASE Tick
    BY <2>1 DEF Tick, Quiet
  <2>2. ASSUME NEW key \in Keys, NEW keyid \in BOOLEAN, NEW ingress \in Connections,
               NEW lifetime \in Lifetimes, ReceiveInterest(key, keyid, ingress, lifetime)
        PROVE  FALSE
    <3>1. callback'.egress = {}
      BY <2>2 DEF ReceiveInterest
    <3> QED
      BY <3>1
  <2>3. ASSUME NEW name \in Names \cup {NoName}, NEW hash \in Hashes \cup {NullHash},
               NEW ingress \in Connections \cup {NoConnection}, SatisfyInterest(name, hash, ingress)
        PROVE  c \in Connections /\ \E k \in Keys : asked[k][c] # Never /\ asked'[k][c] = Never
    <3>1. callback'.egress = UNION {Answer(table[k], ingress) : k \in ContentKeys(name, hash)}
      BY <2>3 DEF SatisfyInterest
    <3>2. PICK k \in ContentKeys(name, hash) : c \in Answer(table[k], ingress)
      BY <3>1
    <3>3. k \in Keys /\ k \in {name, hash}
      BY DEF ContentKeys
    <3>4. c \in table[k].routes /\ c \in Connections
      BY <3>2, <3>3 DEF Answer, LiveRoutes, IInv, TypeOK, Entry
    <3>5. asked[k][c] # Never
      BY <3>3, <3>4 DEF IInv, RoutesAreAsked
    <3>6. asked'[k][c] = Never
      BY <2>3, <3>3, <3>4 DEF SatisfyInterest
    <3> QED
      BY <3>3, <3>4, <3>5, <3>6
  <2> QED
    BY <2>1, <2>2, <2>3 DEF Next
<1> QED
  BY <1>1, PitInvariant, PTL DEF Spec, OneAnswerPerInterest

=============================================================================
