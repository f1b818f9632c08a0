-------------------------------- MODULE Pit --------------------------------
(***************************************************************************)
(* CCNxStandardPit and CCNxStandardPitEntry (model/forwarding/standard):   *)
(* the pending interest table of a node.                                   *)
(*                                                                         *)
(* An entry is found by the most restrictive part of an Interest: its hash *)
(* restriction if it has one, else its name.  The two tables m_tableByHash *)
(* and m_tableByName are one function here, on disjoint sets of keys.      *)
(* m_tableByNameAndKeyId is searched, but nothing is ever added to it.     *)
(*                                                                         *)
(* ReceiveInterest and SatisfyInterest put the work item in a DelayQueue;  *)
(* the table is read and written when the item has been served, and the    *)
(* lifetime counts from then.  One step here is one served item.  Items    *)
(* may be served in any order, which covers any number of servers.         *)
(***************************************************************************)
EXTENDS Integers, FiniteSets

CONSTANTS
  Names,        \* content names
  Hashes,       \* content object hashes an Interest may be restricted to
  KeyIdNames,   \* the names some Interests restrict to a key id
  Connections,  \* connections an Interest or a content object comes from
  NoConnection, \* the null ingress of content the content store supplies
  NullHash,     \* the hash of a content object nobody has set
  NoName,       \* the name of a nameless content object
  Lifetimes,    \* lifetimes Interests have, 0 included
  MaxTime       \* bound: the last instant of a behaviour

ASSUME KeysAssumption ==
  /\ Names \cap Hashes = {} /\ NoName \notin Names \cup Hashes
  /\ NullHash \notin Names \cup Hashes /\ KeyIdNames \subseteq Names
ASSUME ConnectionsAssumption == NoConnection \notin Connections
ASSUME TimeAssumption == Lifetimes \subseteq Nat /\ MaxTime \in Nat

VARIABLES
  now,       \* Simulator::Now ()
  table,     \* m_tableByName and m_tableByHash: the entry of each key
  callback,  \* the call of the forwarder's callback made by this step
  asked,     \* history: when the last Interest of a connection for a key expires, or
             \* Never: it was answered, or thrown away by one with a key id restriction
  forwarded  \* history: keys an Interest was forwarded for, since the last content

vars == <<now, table, callback, asked, forwarded>>

Keys  == Names \cup Hashes
Never == -1
Time  == Nat \cup {Never}

\* An entry as the constructor of CCNxStandardPitEntry leaves it; a key without
\* an entry behaves as if it had this one, and is given it.
NewEntry == [expiry |-> Never, routes |-> {}]
Entry    == [expiry : Time, routes : SUBSET Connections]

Quiet == [verdict |-> "none", key |-> NoName, ingress |-> NoConnection, egress |-> {}]

Later(a, b) == IF a < b THEN b ELSE a

-----------------------------------------------------------------------------
(* Plausible bugs: each replaces the definition it names in a run that      *)
(* shows the properties can fail.                                          *)

\* Extend: a later Interest does not move the expiry of the entry.
ExtendFirstOnly(entry, expiry) ==
  IF entry.expiry = Never THEN [entry EXCEPT !.expiry = expiry] ELSE entry

\* Satisfied: the connection the content came from stays in the entry.
SatisfiedKeepsIngress(entry, ingress) ==
  [entry EXCEPT !.routes = @ \cap {ingress}]

\* Satisfied: the reverse routes are not cleared.
SatisfiedNoClear(entry, ingress) == entry

\* ContentKeys: a named content object is looked up by its name only.
ContentKeysNameOnly(name, hash) == IF name # NoName THEN {name} ELSE {hash} \cap Keys

-----------------------------------------------------------------------------
(* CCNxStandardPitEntry *)

\* isExpired
IsExpired(entry) == entry.expiry <= now

\* The reverse routes size () counts: none once the entry has expired.
LiveRoutes(entry) == IF IsExpired(entry) THEN {} ELSE entry.routes

\* The first half of ReceiveInterest: never shrink the expiry time, ...
Extend(entry, expiry) == [entry EXCEPT !.expiry = Later(@, expiry)]

\* ... then drop the reverse routes if the entry has expired even so.
Cleaned(entry) == IF IsExpired(entry) THEN NewEntry ELSE entry

\* The verdict: the first Interest and a retransmission are forwarded.
Verdict(entry, ingress) ==
  IF entry.routes = {} \/ ingress \in entry.routes THEN "Forward" ELSE "Aggregate"

\* SatisfyInterest: the connections it returns, and the entry it leaves.
Answer(entry, ingress)    == LiveRoutes(entry) \ {ingress}
Satisfied(entry, ingress) == IF IsExpired(entry) THEN entry ELSE [entry EXCEPT !.routes = {}]

-----------------------------------------------------------------------------
(* CCNxStandardPit *)

\* LookupPitEntry, and AddPitEntry if it finds nothing.  An Interest with a key
\* id restriction is looked up in m_tableByNameAndKeyId, where nothing is, and
\* its new entry replaces the one its name has in m_tableByName.
EntryFor(key, keyid) == IF keyid THEN NewEntry ELSE table[key]

\* The tables ServiceSatisfyInterest searches for a content object.
ContentKeys(name, hash) == {name, hash} \cap Keys

\* RemovePitEntryByName or ByHash, if the entry's size () is now 0.
Removed(entry) == IF LiveRoutes(entry) = {} THEN NewEntry ELSE entry

Init ==
  /\ now = 0
  /\ table = [k \in Keys |-> NewEntry]
  /\ callback = Quiet
  /\ asked = [k \in Keys |-> [c \in Connections |-> Never]]
  /\ forwarded = {}

\* The simulator moves on to a later event.
Tick ==
  /\ now < MaxTime
  /\ now' = now + 1
  /\ callback' = Quiet
  /\ UNCHANGED <<table, asked, forwarded>>

\* ServiceReceiveInterest
ReceiveInterest(key, keyid, ingress, lifetime) ==
  /\ keyid => key \in KeyIdNames
  /\ LET expiry  == now + lifetime  \* CalculateInterestExpiryTime
         entry   == Cleaned(Extend(EntryFor(key, keyid), expiry))
         verdict == Verdict(entry, ingress)
         others  == IF keyid THEN [c \in Connections |-> Never] ELSE asked[key]
     IN  /\ table' = [table EXCEPT ![key] = [entry EXCEPT !.routes = @ \cup {ingress}]]
         /\ callback' = [verdict |-> verdict, key |-> key, ingress |-> ingress, egress |-> {}]
         /\ asked' = [asked EXCEPT ![key] = [others EXCEPT ![ingress] = Later(@, expiry)]]
         /\ forwarded' = IF verdict = "Forward" THEN forwarded \cup {key} ELSE forwarded
  /\ UNCHANGED now

\* ServiceSatisfyInterest: the union of what the entries of its name and of its
\* hash return.
SatisfyInterest(name, hash, ingress) ==
  LET keys == ContentKeys(name, hash) IN
  /\ callback' = [verdict |-> "Satisfy", key |-> name, ingress |-> ingress,
                  egress  |-> UNION {Answer(table[k], ingress) : k \in keys}]
  /\ table' = [k \in Keys |-> IF k \in keys THEN Removed(Satisfied(table[k], ingress))
                                           ELSE table[k]]
  /\ asked' = [k \in Keys |-> IF k \in {name, hash} THEN [c \in Connections |-> Never]
                                                    ELSE asked[k]]
  /\ forwarded' = forwarded \ {name, hash}
  /\ UNCHANGED now

Next ==
  \/ Tick
  \/ \E key \in Keys, keyid \in BOOLEAN, ingress \in Connections, lifetime \in Lifetimes :
       ReceiveInterest(key, keyid, ingress, lifetime)
  \/ \E name \in Names \cup {NoName}, hash \in Hashes \cup {NullHash},
        ingress \in Connections \cup {NoConnection} : SatisfyInterest(name, hash, ingress)

Spec == Init /\ [][Next]_vars

-----------------------------------------------------------------------------
(* Properties *)

\* The tables hold entries over the node's connections, with times that exist.
TypeOK ==
  /\ now \in Nat
  /\ table \in [Keys -> Entry]
  /\ callback \in [verdict : {"none", "Forward", "Aggregate", "Satisfy"},
                   key : Keys \cup {NoName}, ingress : Connections \cup {NoConnection},
                   egress : SUBSET Connections]
  /\ asked \in [Keys -> [Connections -> Time]]
  /\ forwarded \subseteq Keys

\* An Interest whose own lifetime has not run out is still answerable: its
\* connection is a reverse route of an entry that has not expired, whatever
\* shorter or longer Interests arrived for the key since (m_expiryTime is only
\* ever extended).  Only an Interest with a key id restriction throws away what is
\* pending, and only under its name; it is recorded itself, as are those that follow.
LiveInterestsRecorded ==
  \A k \in Keys : \A c \in Connections :
    asked[k][c] > now => c \in LiveRoutes(table[k])

\* An Interest is aggregated only behind one that was forwarded: a key with
\* reverse routes had an Interest forwarded since content last matched it.
\* Otherwise nobody would fetch the content that the routes wait for.
RoutesBehindForwarded == \A k \in Keys : table[k].routes # {} => k \in forwarded

\* Content goes only to connections that asked for it, by name or by hash, and
\* that were not answered since: one Interest brings at most one object.
OneAnswerPerInterest ==
  [][callback'.egress \subseteq
       {c \in Connections : \E k \in Keys : asked[k][c] # Never /\ asked'[k][c] = Never}]_vars

\* A content object that ends an Interest which is still alive is sent to its
\* connection (unless it came from there), whether the Interest is pending under
\* the name or under the hash of the object, and with or without a key id restriction.
LiveInterestsAnswered ==
  [][\A k \in Keys : \A c \in Connections :
       callback'.verdict = "Satisfy" /\ asked[k][c] > now /\ asked'[k][c] = Never
         => c \in callback'.egress \cup {callback'.ingress}]_vars

=============================================================================
