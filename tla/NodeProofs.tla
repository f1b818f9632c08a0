------------------------------ MODULE NodeProofs ------------------------------
(***************************************************************************)
(* What the forwarder, and a node with its forwarder and applications,     *)
(* guarantee for any connections, names, packets, Interests and routes,    *)
(* any number of servers and requests, and any length of time.             *)
(*                                                                         *)
(* The forwarder's steps are steps of its tables (TablesStep), so that the *)
(* theorems of PitProofs and ContentStoreProofs hold of them here.  On the *)
(* types of what the queues hold (Typed) rest four invariants, each        *)
(* inductive:                                                              *)
(*   Conserved, Balanced   where each packet is, and the statistics        *)
(*   Covered               what a connection waits for, and what is on its *)
(*                         way to it, is not more than it asked for        *)
(*   RoutesPursued         what the PIT waits for is asked for             *)
(*   KeptInOrder           what the content store was given first, it has  *)
(*                         before it serves what came after                *)
(* They count the items of the queues in sets (Number), so that a step is  *)
(* an item that leaves one queue and joins another (Moves), whatever       *)
(* order the servers end in; only KeptInOrder depends on the order.        *)
(*                                                                         *)
(* A step of the node is a step of its forwarder or leaves it alone, so    *)
(* that these invariants hold there too.  Three more are inductive:        *)
(*   Local      only the producer has a route, nobody asks for an egress,  *)
(*              and the consumer sends no content                          *)
(*   Accounted  what the consumer is owed, has received, and is about to   *)
(*              receive, is what it has sent                               *)
(*   Tracking   every outstanding request is at one of its stages          *)
(* As a packet is in one queue only (Conserved), the packets that layer 3  *)
(* is called back for in a step are the one that the step ends.            *)
(***************************************************************************)
EXTENDS Node, FiniteSetTheorems, SequenceTheorems, TLAPS

PP  == INSTANCE PitProofs WITH table <- pit, callback <- pitResult, KeyIdNames <- {},
                               Lifetimes <- {i.lifetime : i \in Interests}
CSP == INSTANCE ContentStoreProofs WITH MaxEntries <- MaxPackets

\* What PitProofs and ContentStoreProofs assume.
LEMMA PitAssumptions == PP!KeysAssumption /\ PP!ConnectionsAssumption /\ PP!TimeAssumption
BY TablesAssumption

LEMMA CsAssumptions ==
  /\ CSP!PacketsAssumption /\ CSP!NullAssumption /\ CSP!CapacityAssumption
  /\ CSP!BoundsAssumption
BY TablesAssumption

-----------------------------------------------------------------------------
(* Queues *)

\* How many items of a queue are in a set.
Number(q, S) == Cardinality({i \in DOMAIN q : q[i] \in S})

\* RemoveAt moves what follows one place forward.
LEMMA RemoveAtElements ==
  ASSUME NEW S, NEW s \in Seq(S), NEW k \in DOMAIN s
  PROVE  /\ RemoveAt(s, k) \in Seq(S)
         /\ Len(RemoveAt(s, k)) = Len(s) - 1
         /\ DOMAIN RemoveAt(s, k) = 1 .. Len(s) - 1
         /\ \A i \in 1 .. Len(s) - 1 : RemoveAt(s, k)[i] = IF i < k THEN s[i] ELSE s[i + 1]
BY CSP!RemoveAtElements, CsAssumptions DEF RemoveAt, CSP!RemoveAt

LEMMA NumberType ==
  ASSUME NEW T, NEW q \in Seq(T), NEW S
  PROVE  IsFiniteSet({i \in DOMAIN q : q[i] \in S}) /\ Number(q, S) \in Nat
<1>1. IsFiniteSet(1 .. Len(q)) /\ DOMAIN q = 1 .. Len(q)
  BY FS_Interval
<1>2. IsFiniteSet({i \in DOMAIN q : q[i] \in S})
  BY <1>1, FS_Subset
<1> QED
  BY <1>2, FS_CardinalityType DEF Number

LEMMA NumberEmpty ==
  ASSUME NEW S
  PROVE  Number(<<>>, S) = 0
<1>1. {i \in DOMAIN <<>> : <<>>[i] \in S} = {}
  OBVIOUS
<1> QED
  BY <1>1, FS_EmptySet DEF Number

\* Only which items are in the set counts.
LEMMA NumberSame ==
  ASSUME NEW p, NEW q, NEW S, DOMAIN p = DOMAIN q, \A i \in DOMAIN q : p[i] \in S <=> q[i] \in S
  PROVE  Number(p, S) = Number(q, S)
<1>1. {i \in DOMAIN p : p[i] \in S} = {i \in DOMAIN q : q[i] \in S}
  OBVIOUS
<1> QED
  BY <1>1 DEF Number

LEMMA NumberAppend ==
  ASSUME NEW T, NEW q \in Seq(T), NEW x \in T, NEW S
  PROVE  Number(Append(q, x), S) = Number(q, S) + (IF x \in S THEN 1 ELSE 0)
<1> DEFINE A == {i \in DOMAIN q : q[i] \in S}
           n == Len(q) + 1
           B == {i \in DOMAIN Append(q, x) : Append(q, x)[i] \in S}
<1>1. /\ DOMAIN Append(q, x) = DOMAIN q \cup {n} /\ n \notin DOMAIN q
      /\ Append(q, x)[n] = x /\ \A i \in DOMAIN q : Append(q, x)[i] = q[i]
  OBVIOUS
<1>2. B = IF x \in S THEN A \cup {n} ELSE A
  BY <1>1
<1>3. IsFiniteSet(A) /\ n \notin A /\ Cardinality(A) \in Nat
  BY <1>1, NumberType, FS_CardinalityType
<1> HIDE DEF A, B, n
<1>4. Cardinality(A \cup {n}) = Cardinality(A) + 1
  BY <1>3, FS_AddElement
<1>5. Number(q, S) = Cardinality(A) /\ Number(Append(q, x), S) = Cardinality(B)
  BY Zenon DEF Number, A, B
<1> QED
  BY <1>2, <1>3, <1>4, <1>5

LEMMA NumberRemove ==
  ASSUME NEW T, NEW q \in Seq(T), NEW k \in DOMAIN q, NEW S
  PROVE  Number(RemoveAt(q, k), S) = Number(q, S) - (IF q[k] \in S THEN 1 ELSE 0)
<1> DEFINE r == RemoveAt(q, k)
           A == {i \in DOMAIN q : q[i] \in S}
           B == {i \in DOMAIN r : r[i] \in S}
           f == [i \in B |-> IF i < k THEN i ELSE i + 1]
<1>1. /\ r \in Seq(T) /\ DOMAIN r = 1 .. Len(q) - 1 /\ k \in 1 .. Len(q) /\ Len(q) \in Nat
      /\ DOMAIN q = 1 .. Len(q)
      /\ \A i \in 1 .. Len(q) - 1 : r[i] = IF i < k THEN q[i] ELSE q[i + 1]
  BY RemoveAtElements
<1>2. IsFiniteSet(A) /\ Cardinality(A) \in Nat /\ IsFiniteSet(B)
  BY <1>1, NumberType, FS_CardinalityType
<1> HIDE DEF r
<1>3. f \in [B -> A \ {k}]
  <2> SUFFICES ASSUME NEW i \in B PROVE (IF i < k THEN i ELSE i + 1) \in A \ {k}
    OBVIOUS
  <2>1. i \in 1 .. Len(q) - 1 /\ r[i] \in S
    BY <1>1
  <2> QED
    BY <2>1, <1>1
<1>4. \A i, j \in B : f[i] = f[j] => i = j
  BY <1>1
<1>5. \A j \in A \ {k} : \E i \in B : f[i] = j
  <2> SUFFICES ASSUME NEW j \in A \ {k} PROVE \E i \in B : f[i] = j
    OBVIOUS
  <2>1. j \in 1 .. Len(q) /\ q[j] \in S /\ j # k
    BY <1>1
  <2>2. CASE j < k
    <3>1. j \in B
      BY <2>1, <2>2, <1>1
    <3> QED
      BY <3>1, <2>2
  <2>3. CASE j > k
    <3>1. j - 1 \in B /\ ~(j - 1 < k) /\ j - 1 + 1 = j
      BY <2>1, <2>3, <1>1
    <3> QED
      BY <3>1
  <2> QED
    BY <2>1, <2>2, <2>3, <1>1
<1> HIDE DEF f
<1>6. ExistsBijection(B, A \ {k})
  BY <1>3, <1>4, <1>5 DEF ExistsBijection, Bijection, Injection, IsInjective, Surjection
<1> HIDE DEF A, B
<1>7. Cardinality(B) = Cardinality(A \ {k})
  BY <1>2, <1>6, FS_Bijection
<1>8. Cardinality(A \ {k}) = IF k \in A THEN Cardinality(A) - 1 ELSE Cardinality(A)
  BY <1>2, FS_RemoveElement
<1>9. k \in A <=> q[k] \in S
  BY DEF A
<1> QED
  BY <1>2, <1>7, <1>8, <1>9 DEF Number, A, B, r

LEMMA NumberConcat ==
  ASSUME NEW T, NEW p \in Seq(T), NEW q \in Seq(T), NEW S
  PROVE  Number(p \o q, S) = Number(p, S) + Number(q, S)
<1> DEFINE A == {i \in DOMAIN p : p[i] \in S}
           B == {i \in DOMAIN q : q[i] \in S}
           C == {i \in DOMAIN (p \o q) : (p \o q)[i] \in S}
           D == C \ A
           f == [i \in B |-> i + Len(p)]
<1>1. /\ DOMAIN (p \o q) = 1 .. Len(p) + Len(q) /\ Len(p) \in Nat /\ Len(q) \in Nat
      /\ DOMAIN p = 1 .. Len(p) /\ DOMAIN q = 1 .. Len(q)
      /\ \A i \in 1 .. Len(p) + Len(q) : (p \o q)[i] = IF i <= Len(p) THEN p[i] ELSE q[i - Len(p)]
  OBVIOUS
<1>2. IsFiniteSet(A) /\ IsFiniteSet(B) /\ Cardinality(A) \in Nat /\ Cardinality(B) \in Nat
  BY NumberType, FS_CardinalityType
<1>3. \A i : i \in D <=> i \in 1 .. Len(p) + Len(q) /\ i > Len(p) /\ q[i - Len(p)] \in S
  BY <1>1
<1>4. C = A \cup D /\ A \cap D = {}
  BY <1>1
<1> HIDE DEF D, A, C
<1>5. f \in [B -> D] /\ \A i, j \in B : f[i] = f[j] => i = j
  BY <1>1, <1>3
<1>6. \A j \in D : \E i \in B : f[i] = j
  <2> SUFFICES ASSUME NEW j \in D PROVE \E i \in B : f[i] = j
    OBVIOUS
  <2>1. j - Len(p) \in B /\ j - Len(p) + Len(p) = j
    BY <1>1, <1>3
  <2> QED
    BY <2>1
<1> HIDE DEF f
<1>7. ExistsBijection(B, D)
  BY <1>5, <1>6 DEF ExistsBijection, Bijection, Injection, IsInjective, Surjection
<1> HIDE DEF B
<1>8. IsFiniteSet(D) /\ Cardinality(D) = Cardinality(B)
  BY <1>2, <1>7, FS_Bijection
<1>9. Cardinality(C) = Cardinality(A) + Cardinality(D) - Cardinality(A \cap D)
  BY <1>2, <1>4, <1>8, FS_Union
<1>10. Cardinality(A \cap D) = 0
  BY <1>4, FS_EmptySet
<1>11. Number(p, S) = Cardinality(A) /\ Number(q, S) = Cardinality(B) /\ Number(p \o q, S) = Cardinality(C)
  BY Zenon DEF Number, A, B, C
<1> QED
  BY <1>2, <1>8, <1>9, <1>10, <1>11

-----------------------------------------------------------------------------
(* The lookup of the FIB *)

\* Every set of naturals has a least member.
LEMMA LeastMember ==
  ASSUME NEW T \in SUBSET Nat, T # {}
  PROVE  \E m \in T : \A k \in T : m <= k
<1> DEFINE Less == {ss \in Nat \X Nat : ss[1] < ss[2]}
<1>1. IsWellFoundedOn(Less, Nat)
  BY NatLessThanWellFounded DEF OpToRel
<1>2. \A k, m \in Nat : <<k, m>> \in Less <=> k < m
  OBVIOUS
<1> HIDE DEF Less
<1>3. PICK m \in T : \A k \in T : ~(<<k, m>> \in Less)
  BY <1>1, WFMin
<1>4. \A k \in T : m <= k
  <2> SUFFICES ASSUME NEW k \in T PROVE m <= k
    OBVIOUS
  <2>1. ~(k < m) /\ k \in Nat /\ m \in Nat
    BY <1>2, <1>3
  <2> QED
    BY <2>1
<1> QED
  BY <1>4

\* The loop of PerformLookup stops at the first prefix without an entry that follows one
\* with an entry: g, or one more than the length of the name.
LEMMA BestMatchIsBeforeGap ==
  ASSUME NEW name, Len(name) \in Nat
  PROVE  \E g \in 1 .. Len(name) + 1 :
           /\ \A i \in 1 .. Len(name) : i < g /\ i - 1 \in F!Matches(name) => i \in F!Matches(name)
           /\ g <= Len(name) => g \notin F!Matches(name) /\ g - 1 \in F!Matches(name)
           /\ F!BestMatch(name) = IF g <= Len(name) THEN g - 1
                                  ELSE IF Len(name) \in F!Matches(name) THEN Len(name) ELSE 0
<1> DEFINE n == Len(name)
           M == F!Matches(name)
           T == {i \in 1 .. n : i \notin M /\ i - 1 \in M} \cup {n + 1}
<1>1. PICK g \in T : \A i \in T : g <= i
  <2>1. T \in SUBSET Nat /\ T # {}
    OBVIOUS
  <2> HIDE DEF T
  <2> QED
    BY <2>1, LeastMember
<1>2. /\ n \in Nat /\ g \in 1 .. n + 1 /\ M \subseteq 1 .. n
      /\ \A i \in 1 .. n : i < g /\ i - 1 \in M => i \in M
      /\ g <= n => g \notin M /\ g - 1 \in M
      /\ \A i \in 1 .. n : i \in M <=> F!HasEntry(F!Prefix(name, i))
  BY <1>1 DEF F!Matches
<1> HIDE DEF M, T
<1> DEFINE f == [i \in 0 .. n |-> IF i < g THEN [best |-> IF i \in M THEN i ELSE 0, left |-> FALSE]
                                  ELSE [best |-> g - 1, left |-> TRUE]]
           Next1(h, i) == IF i = 0 THEN [best |-> 0, left |-> FALSE]
                          ELSE IF h[i - 1].left THEN h[i - 1]
                          ELSE IF F!HasEntry(F!Prefix(name, i)) THEN [best |-> i, left |-> FALSE]
                          ELSE [best |-> h[i - 1].best, left |-> h[i - 1].best # 0]
           h == CHOOSE h : h = [i \in 0 .. n |-> Next1(h, i)]
<1>3. \A i \in 0 .. n : f[i] = Next1(f, i)
  <2> SUFFICES ASSUME NEW i \in 0 .. n PROVE f[i] = Next1(f, i)
    OBVIOUS
  <2>1. CASE i = 0
    BY <2>1, <1>2
  <2>2. CASE i # 0 /\ i - 1 >= g
    BY <2>2, <1>2
  <2>3. CASE i # 0 /\ i = g
    <3>1. f[i - 1] = [best |-> i - 1, left |-> FALSE] /\ i - 1 # 0
      BY <2>3, <1>2
    <3>2. f[i] = [best |-> i - 1, left |-> TRUE] /\ ~F!HasEntry(F!Prefix(name, i))
      BY <2>3, <1>2
    <3> HIDE DEF f
    <3>3. (f[i - 1].left <=> FALSE) /\ f[i - 1].best = i - 1 /\ (f[i - 1].best # 0 <=> TRUE)
      BY <3>1
    <3>4. [best |-> f[i - 1].best, left |-> f[i - 1].best # 0] = [best |-> i - 1, left |-> TRUE]
      BY <3>3, Zenon
    <3> QED
      BY <3>2, <3>3, <3>4, <2>3, Zenon
  <2>4. CASE i # 0 /\ i < g
    <3>1. f[i - 1] = [best |-> IF i - 1 \in M THEN i - 1 ELSE 0, left |-> FALSE]
      BY <2>4, <1>2
    <3>2. f[i] = [best |-> IF i \in M THEN i ELSE 0, left |-> FALSE]
      BY <2>4, <1>2
    <3>3. i \in M <=> F!HasEntry(F!Prefix(name, i))
      BY <2>4, <1>2
    <3>4. i - 1 \in M => i \in M
      BY <2>4, <1>2
    <3> HIDE DEF f
    <3>5. ~f[i - 1].left /\ f[i - 1].best = IF i - 1 \in M THEN i - 1 ELSE 0
      BY <3>1
    <3>6. CASE i \in M
      BY <3>2, <3>3, <3>5, <3>6, <2>4, Zenon
    <3>7. CASE i \notin M
      <4>1. f[i - 1].best = 0
        BY <3>4, <3>5, <3>7
      <4>2. [best |-> f[i - 1].best, left |-> f[i - 1].best # 0] = [best |-> 0, left |-> FALSE]
        BY <4>1, Zenon
      <4> QED
        BY <3>2, <3>3, <3>5, <3>7, <4>2, <2>4, Zenon
    <3> QED
      BY <3>6, <3>7
  <2> QED
    BY <2>1, <2>2, <2>3, <2>4, <1>2
<1>4. f = [i \in 0 .. n |-> Next1(f, i)]
  <2>1. f = [i \in 0 .. n |-> f[i]]
    OBVIOUS
  <2> HIDE DEF f, Next1
  <2> QED
    BY <2>1, <1>3
<1>5. h = [i \in 0 .. n |-> Next1(h, i)]
  BY <1>4
<1> HIDE DEF h
<1> DEFINE D == {i \in 0 .. n : h[i] # f[i]}
<1>6. \A i \in 0 .. n : h[i] = f[i]
  <2> HIDE DEF f, Next1
  <2> SUFFICES ASSUME D # {} PROVE FALSE
    OBVIOUS
  <2>1. D \in SUBSET Nat /\ \A i \in D : i \in 0 .. n /\ h[i] # f[i]
    BY <1>2
  <2>2. \A i \in 0 .. n : i \notin D => h[i] = f[i]
    OBVIOUS
  <2> HIDE DEF D
  <2>3. PICK m \in D : \A i \in D : m <= i
    BY <2>1, LeastMember
  <2>4. m \in 0 .. n /\ h[m] # f[m] /\ m \in Nat
    BY <2>1, <2>3
  <2>5. m # 0 => h[m - 1] = f[m - 1]
    <3> SUFFICES ASSUME m # 0 PROVE h[m - 1] = f[m - 1]
      OBVIOUS
    <3>1. m - 1 \in 0 .. n /\ ~(m <= m - 1)
      BY <2>4, <1>2
    <3>2. m - 1 \notin D
      BY <3>1, <2>3
    <3> QED
      BY <3>1, <3>2, <2>2
  <2>6. h[m] = Next1(h, m) /\ f[m] = Next1(f, m)
    BY <1>5, <1>3, <2>4
  <2>7. Next1(h, m) = Next1(f, m)
    BY <2>5, Zenon DEF Next1
  <2> QED
    BY <2>4, <2>6, <2>7
<1>7. F!BestMatch(name) = h[n].best
  BY DEF F!BestMatch, h
<1>8. f[n].best = IF g <= n THEN g - 1 ELSE IF n \in M THEN n ELSE 0
  BY <1>2
<1>9. F!BestMatch(name) = IF g <= n THEN g - 1 ELSE IF n \in M THEN n ELSE 0
  <2>1. n \in 0 .. n
    BY <1>2
  <2> HIDE DEF f
  <2> QED
    BY <2>1, <1>6, <1>7, <1>8
<1> QED
  BY <1>2, <1>9 DEF M

\* Whatever routes there are, the lookup finds one if there is one, and that of the longest
\* prefix unless a gap precedes it.
LEMMA LookupFindsLongestMatch ==
  ASSUME NEW name, Len(name) \in Nat
  PROVE  F!LongestMatch(name)
<1> DEFINE n == Len(name)
           M == F!Matches(name)
           b == F!BestMatch(name)
<1>1. PICK g \in 1 .. n + 1 :
        /\ \A i \in 1 .. n : i < g /\ i - 1 \in M => i \in M
        /\ g <= n => g \notin M /\ g - 1 \in M
        /\ b = IF g <= n THEN g - 1 ELSE IF n \in M THEN n ELSE 0
  BY BestMatchIsBeforeGap, Zenon
<1>2. M \subseteq 1 .. n /\ n \in Nat
  BY DEF F!Matches
<1> HIDE DEF M, b
<1>3. b \in M \cup {0}
  BY <1>1, <1>2
<1>4. ASSUME NEW i \in M, g > n PROVE n \in M
  <2> SUFFICES ASSUME n \notin M PROVE FALSE
    OBVIOUS
  <2> DEFINE T == {k \in i .. n : k \notin M}
  <2>1. PICK k \in T : \A j \in T : k <= j
    <3>1. T \in SUBSET Nat /\ T # {}
      BY <1>2
    <3> HIDE DEF T
    <3> QED
      BY <3>1, LeastMember
  <2>2. k \in 1 .. n /\ k \notin M /\ k # i /\ k - 1 \in i .. n /\ k - 1 < k
    BY <2>1, <1>2
  <2>3. k - 1 \in M
    BY <2>1, <2>2, <1>2
  <2> QED
    BY <2>2, <2>3, <1>1, <1>2, <1>4
<1>5. M # {} => b # 0
  <2> SUFFICES ASSUME NEW i \in M PROVE b # 0
    OBVIOUS
  <2>1. CASE g <= n
    BY <2>1, <1>1, <1>2
  <2>2. CASE g > n
    BY <2>2, <1>1, <1>2, <1>4
  <2> QED
    BY <2>1, <2>2, <1>1, <1>2
<1>6. ASSUME \A i, j \in M : i .. j \subseteq M, NEW i \in M PROVE i <= b
  <2>1. CASE g <= n
    <3>1. g - 1 \in M /\ g \notin M /\ b = g - 1
      BY <2>1, <1>1
    <3>2. (g - 1) .. i \subseteq M
      BY <3>1, <1>6
    <3> QED
      BY <3>1, <3>2, <1>2
  <2>2. CASE g > n
    BY <2>2, <1>1, <1>2, <1>4
  <2> QED
    BY <2>1, <2>2, <1>1, <1>2
<1> QED
  BY <1>3, <1>5, <1>6 DEF F!LongestMatch, M, b

LEMMA LookupType ==
  ASSUME F!TypeOK, NEW name, Len(name) \in Nat, NEW ingress
  PROVE  F!Lookup(name, ingress) \in SUBSET Connections
<1>1. F!BestMatch(name) # 0 => F!BestMatch(name) \in F!Matches(name)
  BY LookupFindsLongestMatch DEF F!LongestMatch
<1>2. F!BestMatch(name) # 0 => F!Prefix(name, F!BestMatch(name)) \in RoutePrefixes
  BY <1>1 DEF F!Matches, F!HasEntry
<1> QED
  BY <1>2 DEF F!Lookup, F!TypeOK

-----------------------------------------------------------------------------
(* What the queues hold *)

\* Before the forwarder and the PIT: Interests of connections, and content objects.
Waiting == {w \in WorkItem :
  IF IsInterest(w) THEN w.ingress \in Connections /\ w.packet = NoPacket
  ELSE w.packet \in Packets /\ w.egress = NoConnection}

\* Before the content store: Interests, with what was found for them, and content objects
\* from a connection that somebody waits for.
InStore == {w \in WorkItem :
  IF IsInterest(w) THEN w.ingress \in Connections /\ (w.packet # NoPacket => Matches(w.interest, w.packet))
  ELSE w.packet \in Packets /\ w.egress = NoConnection /\ w.route # {} /\ w.ingress # NoConnection}

\* Before the FIB: Interests.
Seeking == {w \in WorkItem : IsInterest(w) /\ w.ingress \in Connections /\ w.packet = NoPacket}

\* The start of a service changes only the result of an item.
SameWork(v, w) ==
  /\ v.id = w.id /\ v.interest = w.interest /\ v.ingress = w.ingress /\ v.egress = w.egress
  /\ v.held = w.held
  /\ IsInterest(w) \/ (v.packet = w.packet /\ v.route = w.route)

SameQueue(r, q) == DOMAIN r = DOMAIN q /\ \A i \in DOMAIN q : SameWork(r[i], q[i])

QueuesTyped ==
  /\ inputQueue \in Seq(Waiting) /\ pitQueue \in Seq(Waiting)
  /\ csQueue \in Seq(InStore) /\ fibQueue \in Seq(Seeking)
  /\ arrived \in 0 .. MaxPackets /\ offered \subseteq Packets
  /\ owed \in [Connections -> Int] /\ stats \in [Counters -> Nat]

Typed == PP!IInv /\ CSP!Typed /\ F!TypeOK /\ QueuesTyped

\* A step of the forwarder is one of its PIT and one of its content store, or leaves
\* them alone.
TablesStep == [PP!Next]_(PP!vars) /\ [CSP!Next]_(CSP!vars)

LEMMA ExceptElements ==
  ASSUME NEW T, NEW q \in Seq(T), NEW i \in DOMAIN q, NEW v \in T
  PROVE  /\ [q EXCEPT ![i] = v] \in Seq(T) /\ DOMAIN [q EXCEPT ![i] = v] = DOMAIN q
         /\ \A j \in DOMAIN q : [q EXCEPT ![i] = v][j] = IF j = i THEN v ELSE q[j]
OBVIOUS

LEMMA SameWorkReflexive == \A w : SameWork(w, w)
BY DEF SameWork

\* What an Interest and a content object are filed under.
LEMMA KeyTypes ==
  /\ \A i \in Interests :
       /\ Key(i) \in Names \cup Hashes /\ i.name \in Names \cup {NoName}
       /\ i.hash \in Hashes \cup {NullHash} /\ i.lifetime \in Nat /\ i # NoInterest
       /\ IF i.name # NoName THEN i.name \in Names /\ Key(i) = i.name
          ELSE i.hash \in Hashes /\ Key(i) = i.hash
  /\ \A p \in Packets :
       p.name \in Names \cup {NoName} /\ p.hash \in Hashes \cup {NullHash} /\ p # NoPacket
<1>1. \A i \in Interests : /\ i.name \in Names \cup {NoName}
                           /\ i.hash \in Hashes \cup {NullHash} /\ i.lifetime \in Nat
                           /\ i # NoInterest /\ (i.name = NoName <=> i.hash # NullHash)
  BY InterestsAssumption, OneRestriction
<1>2. \A i \in Interests :
        IF i.name # NoName THEN i.name \in Names /\ Key(i) = i.name
        ELSE i.hash \in Hashes /\ Key(i) = i.hash
  BY <1>1 DEF Key
<1>3. \A i \in Interests : Key(i) \in Names \cup Hashes
  BY <1>2
<1>4. \A p \in Packets :
       p.name \in Names \cup {NoName} /\ p.hash \in Hashes \cup {NullHash} /\ p # NoPacket
  BY CsAssumptions DEF CSP!PacketsAssumption, CSP!NullAssumption
<1> QED
  BY <1>1, <1>2, <1>3, <1>4

\* The names that Pit and ContentStore give their operators do not matter.
LEMMA SameTables ==
  /\ \A name, hash, other : CS!MatchInterest(name, hash, other) <=> CSP!MatchInterest(name, hash, other)
  /\ \A p : CS!AddContentObject(p) <=> CSP!AddContentObject(p)
  /\ \A key, keyid, ingress, lifetime :
       P!ReceiveInterest(key, keyid, ingress, lifetime) <=> PP!ReceiveInterest(key, keyid, ingress, lifetime)
  /\ \A name, hash, ingress :
       P!SatisfyInterest(name, hash, ingress) <=> PP!SatisfyInterest(name, hash, ingress)
<1>1. \A s, p : CS!EntryOf(s, p) = CSP!EntryOf(s, p) /\ CS!NoEntry = CSP!NoEntry
  BY DEF CS!EntryOf, CSP!EntryOf, CS!NoEntry, CSP!NoEntry
<1>2. \A lru, e : CS!Refresh(lru, e) = CSP!Refresh(lru, e) /\ CS!Without(lru, e) = CSP!Without(lru, e)
  BY DEF CS!Refresh, CSP!Refresh, CS!Without, CSP!Without, CS!RemoveAt, CSP!RemoveAt, CS!ToSet, CSP!ToSet
<1>3. \A s, p, e : CS!Mapped(s, p, e) = CSP!Mapped(s, p, e)
  BY DEF CS!Mapped, CSP!Mapped
<1>4. \A s, p : CS!Deleted(s, p) = CSP!Deleted(s, p)
  BY <1>1, <1>2, <1>3 DEF CS!Deleted, CSP!Deleted, CS!Unmapped, CSP!Unmapped
<1>5. \A s : CS!Evict(s) = CSP!Evict(s)
  BY <1>4 DEF CS!Evict, CSP!Evict, CS!Last, CSP!Last
<1>6. \A p : CS!AddContentObject(p) <=> CSP!AddContentObject(p)
  BY <1>1, <1>2, <1>3, <1>5 DEF CS!AddContentObject, CSP!AddContentObject
<1>7. \A name, hash, other : CS!MatchInterest(name, hash, other) <=> CSP!MatchInterest(name, hash, other)
  BY <1>1, <1>2, <1>4 DEF CS!MatchInterest, CSP!MatchInterest, CS!Found, CSP!Found,
                          CS!IsEntryValid, CSP!IsEntryValid
<1>8. \A key, keyid, ingress, lifetime :
        P!ReceiveInterest(key, keyid, ingress, lifetime) <=> PP!ReceiveInterest(key, keyid, ingress, lifetime)
  BY DEF P!ReceiveInterest, PP!ReceiveInterest, P!Cleaned, PP!Cleaned, P!Extend, PP!Extend,
         P!EntryFor, PP!EntryFor, P!Verdict, PP!Verdict, P!Later, PP!Later, P!IsExpired, PP!IsExpired,
         P!NewEntry, PP!NewEntry, P!Never, PP!Never
<1>9. \A name, hash, ingress :
        P!SatisfyInterest(name, hash, ingress) <=> PP!SatisfyInterest(name, hash, ingress)
  BY DEF P!SatisfyInterest, PP!SatisfyInterest, P!ContentKeys, PP!ContentKeys, P!Answer, PP!Answer,
         P!Removed, PP!Removed, P!Satisfied, PP!Satisfied, P!LiveRoutes, PP!LiveRoutes, P!Keys, PP!Keys,
         P!IsExpired, PP!IsExpired, P!NewEntry, PP!NewEntry, P!Never, PP!Never
<1> QED
  BY <1>6, <1>7, <1>8, <1>9

-----------------------------------------------------------------------------
(* The start of a service *)

\* The content store's: a step of ContentStore, which leaves what it found in the item.
LEMMA CsStartTyped ==
  ASSUME CSP!Typed, NEW q \in Seq(InStore), NEW i \in DOMAIN q, CsStart(q, i)
  PROVE  /\ csQueue' \in Seq(InStore) /\ SameQueue(csQueue', q)
         /\ CSP!Typed' /\ CSP!Next
         /\ \A j \in DOMAIN q : j # i => csQueue'[j] = q[j]
<1> DEFINE w == q[i]
<1>1. w \in InStore /\ w \in WorkItem
  BY DEF InStore
<1>2. ASSUME NEW v \in InStore, SameWork(v, w), csQueue' = [q EXCEPT ![i] = v]
      PROVE  /\ csQueue' \in Seq(InStore) /\ SameQueue(csQueue', q)
             /\ \A j \in DOMAIN q : j # i => csQueue'[j] = q[j]
  <2>1. /\ csQueue' \in Seq(InStore) /\ DOMAIN csQueue' = DOMAIN q
        /\ \A j \in DOMAIN q : csQueue'[j] = IF j = i THEN v ELSE q[j]
    BY <1>2, ExceptElements
  <2> QED
    BY <1>2, <2>1, SameWorkReflexive DEF SameQueue
<1>3. CASE IsInterest(w)
  <2>1. /\ CSP!MatchInterest(w.interest.name, w.interest.hash, FALSE)
        /\ csQueue' = [q EXCEPT ![i] = [w EXCEPT !.packet = served']]
    BY <1>3, SameTables DEF CsStart
  <2>2. w.interest \in Interests
    BY <1>1, <1>3 DEF WorkItem, IsInterest
  <2>3. /\ w.interest.name \in Names \cup {NoName} /\ w.interest.hash \in Hashes \cup {NullHash}
        /\ w.interest.name \in Names \/ w.interest.hash \in Hashes
        /\ Key(w.interest) = IF w.interest.name # NoName THEN w.interest.name ELSE w.interest.hash
    BY <2>2, KeyTypes
  <2>4. /\ CSP!Typed'
        /\ served' # NoPacket => IF w.interest.name # NoName THEN served'.name = w.interest.name
                                 ELSE served'.hash = w.interest.hash
    BY <2>1, <2>3, CSP!MatchInterestTyped, CsAssumptions
  <2>5. CSP!Next
    <3>1. CASE w.interest.name \in Names
      BY <2>1, <2>3, <3>1 DEF CSP!Next
    <3>2. CASE w.interest.name = NoName
      <4>1. w.interest.hash \in Hashes
        BY <3>2, <2>2, KeyTypes
      <4> QED
        BY <2>1, <3>2, <4>1 DEF CSP!Next
    <3> QED
      BY <2>3, <3>1, <3>2
  <2>6. served' \in Packets \cup {NoPacket}
    BY <2>4 DEF CSP!Typed
  <2> DEFINE v == [w EXCEPT !.packet = served']
  <2>7. v \in WorkItem /\ v.packet = served' /\ v.interest = w.interest /\ v.ingress = w.ingress
        /\ SameWork(v, w)
    BY <1>1, <1>3, <2>6 DEF WorkItem, SameWork
  <2>8. v.packet # NoPacket => Matches(v.interest, v.packet)
    BY <2>3, <2>4, <2>7 DEF Matches
  <2>9. v \in InStore
    BY <1>1, <1>3, <2>7, <2>8 DEF InStore, IsInterest
  <2> HIDE DEF v
  <2> QED
    BY <1>2, <2>1, <2>4, <2>5, <2>7, <2>9 DEF v
<1>4. CASE ~IsInterest(w)
  <2>1. CSP!AddContentObject(w.packet) /\ w.packet \in Packets
    BY <1>1, <1>4, SameTables DEF CsStart, InStore
  <2>2. CSP!Typed' /\ CSP!Next
    BY <2>1, CSP!AddContentObjectTyped, CsAssumptions DEF CSP!Next
  <2> DEFINE v == [w EXCEPT !.added = (created' # created)]
  <2>3. csQueue' = [q EXCEPT ![i] = v]
    BY <1>4 DEF CsStart
  <2>4. v \in WorkItem /\ SameWork(v, w)
    <3>1. (created' # created) \in BOOLEAN
      OBVIOUS
    <3>2. PICK b \in BOOLEAN : b = (created' # created)
      BY <3>1
    <3>3. v = [w EXCEPT !.added = b]
      BY <3>2
    <3> HIDE DEF v
    <3> QED
      BY <1>1, <3>3 DEF WorkItem, SameWork
  <2>5. v \in InStore
    BY <1>1, <1>4, <2>4 DEF InStore, IsInterest, SameWork
  <2> HIDE DEF v
  <2> QED
    BY <1>2, <2>2, <2>3, <2>4, <2>5
<1> QED
  BY <1>3, <1>4

LEMMA SameQueueReflexive == \A q : SameQueue(q, q)
BY SameWorkReflexive DEF SameQueue

LEMMA CsPushTyped ==
  ASSUME CSP!Typed, csQueue \in Seq(InStore), NEW w \in InStore, CsPush(w), now' = now
  PROVE  /\ csQueue' \in Seq(InStore) /\ SameQueue(csQueue', Append(csQueue, w))
         /\ CSP!Typed' /\ [CSP!Next]_(CSP!vars)
<1> DEFINE q == Append(csQueue, w)
<1>1. q \in Seq(InStore) /\ Len(q) \in DOMAIN q
  OBVIOUS
<1>2. CASE CsStart(q, Len(q))
  <2> HIDE DEF q
  <2>1. csQueue' \in Seq(InStore) /\ SameQueue(csQueue', q) /\ CSP!Typed' /\ CSP!Next
    BY <1>1, <1>2, CsStartTyped
  <2> QED
    BY <2>1 DEF q
<1>3. CASE csQueue' = q /\ UNCHANGED csVars
  BY <1>1, <1>3, SameQueueReflexive DEF csVars, CSP!vars, CSP!Typed
<1> QED
  BY <1>2, <1>3 DEF CsPush, Enqueue

LEMMA CsPopTyped ==
  ASSUME CSP!Typed, csQueue \in Seq(InStore), NEW i \in DOMAIN csQueue, CsPop(i), now' = now
  PROVE  /\ csQueue' \in Seq(InStore) /\ SameQueue(csQueue', RemoveAt(csQueue, i))
         /\ CSP!Typed' /\ [CSP!Next]_(CSP!vars)
<1> DEFINE q == RemoveAt(csQueue, i)
<1>1. q \in Seq(InStore)
  BY RemoveAtElements
<1>2. CASE Len(q) >= Servers /\ CsStart(q, Servers)
  <2>1. Servers \in DOMAIN q
    BY <1>1, <1>2, BoundsAssumption
  <2> HIDE DEF q
  <2>2. csQueue' \in Seq(InStore) /\ SameQueue(csQueue', q) /\ CSP!Typed' /\ CSP!Next
    BY <1>1, <1>2, <2>1, CsStartTyped
  <2> QED
    BY <2>2 DEF q
<1>3. CASE csQueue' = q /\ UNCHANGED csVars
  BY <1>1, <1>3, SameQueueReflexive DEF csVars, CSP!vars, CSP!Typed
<1> QED
  BY <1>2, <1>3 DEF CsPop

\* The FIB's: the connections it finds are left in the item.
LEMMA FibStartTyped ==
  ASSUME F!TypeOK, NEW q \in Seq(Seeking), NEW i \in DOMAIN q
  PROVE  /\ FibStart(q, i) \in Seq(Seeking) /\ SameQueue(FibStart(q, i), q)
<1> DEFINE w == q[i]
           v == [w EXCEPT !.route = F!Lookup(w.interest.name, w.ingress)]
<1>1. w \in Seeking /\ w \in WorkItem /\ w.interest \in Interests
  BY DEF Seeking, WorkItem, IsInterest
<1>2. F!Lookup(w.interest.name, w.ingress) \in SUBSET Connections
  BY <1>1, KeyTypes, NamesAssumption, LookupType
<1>3. /\ v \in WorkItem /\ SameWork(v, w)
      /\ v.interest = w.interest /\ v.ingress = w.ingress /\ v.packet = w.packet
  BY <1>1, <1>2 DEF WorkItem, SameWork, Seeking
<1>4. v \in Seeking
  BY <1>1, <1>3 DEF Seeking, IsInterest
<1>5. FibStart(q, i) = [q EXCEPT ![i] = v]
  BY DEF FibStart
<1> HIDE DEF v
<1>6. /\ FibStart(q, i) \in Seq(Seeking) /\ DOMAIN FibStart(q, i) = DOMAIN q
      /\ \A j \in DOMAIN q : FibStart(q, i)[j] = IF j = i THEN v ELSE q[j]
  BY <1>4, <1>5, ExceptElements
<1> QED
  BY <1>3, <1>6, SameWorkReflexive DEF SameQueue

LEMMA FibPushTyped ==
  ASSUME F!TypeOK, fibQueue \in Seq(Seeking), NEW w \in Seeking, FibPush(w)
  PROVE  fibQueue' \in Seq(Seeking) /\ SameQueue(fibQueue', Append(fibQueue, w))
<1> DEFINE q == Append(fibQueue, w)
<1>1. q \in Seq(Seeking) /\ Len(q) \in DOMAIN q
  OBVIOUS
<1>2. fibQueue' = FibStart(q, Len(q)) \/ fibQueue' = q
  BY DEF FibPush, Enqueue
<1> HIDE DEF q
<1>3. fibQueue' \in Seq(Seeking) /\ SameQueue(fibQueue', q)
  BY <1>1, <1>2, FibStartTyped, SameQueueReflexive
<1> QED
  BY <1>3 DEF q

LEMMA FibPopTyped ==
  ASSUME F!TypeOK, fibQueue \in Seq(Seeking), NEW i \in DOMAIN fibQueue, FibPop(i)
  PROVE  fibQueue' \in Seq(Seeking) /\ SameQueue(fibQueue', RemoveAt(fibQueue, i))
<1> DEFINE q == RemoveAt(fibQueue, i)
<1>1. q \in Seq(Seeking) /\ (Len(q) >= Servers => Servers \in DOMAIN q)
  BY RemoveAtElements, BoundsAssumption
<1>2. (Len(q) >= Servers /\ fibQueue' = FibStart(q, Servers)) \/ fibQueue' = q
  BY DEF FibPop
<1> HIDE DEF q
<1>3. fibQueue' \in Seq(Seeking) /\ SameQueue(fibQueue', q)
  BY <1>1, <1>2, FibStartTyped, SameQueueReflexive
<1> QED
  BY <1>3 DEF q

-----------------------------------------------------------------------------
(* The types of the steps *)

LEMMA CountTyped ==
  ASSUME stats \in [Counters -> Nat], NEW counters, Count(counters)
  PROVE  stats' \in [Counters -> Nat]
BY DEF Count

LEMMA FinishTyped ==
  ASSUME owed \in [Connections -> Int], NEW w, NEW route, FinishRouteLookup(w, route)
  PROVE  owed' \in [Connections -> Int]
BY DEF FinishRouteLookup

LEMMA PitQuiet ==
  ASSUME now' = now, UNCHANGED pitVars
  PROVE  UNCHANGED PP!vars
BY DEF pitVars, PP!vars

LEMMA CsQuiet ==
  ASSUME now' = now, UNCHANGED csVars
  PROVE  UNCHANGED CSP!vars
BY DEF csVars, CSP!vars

LEMMA ItemTypes ==
  ASSUME NEW id \in 1 .. MaxPackets, NEW c \in Connections, NEW e \in Connections \cup {NoConnection}
  PROVE  /\ \A i \in Interests : InterestItem(id, i, c, e) \in Waiting
         /\ \A p \in Packets, n \in Connections \cup {NoConnection} : ContentItem(id, p, n) \in Waiting
<1>1. \A i \in Interests : InterestItem(id, i, c, e) \in WorkItem /\ i # NoInterest
  BY KeyTypes DEF InterestItem, WorkItem
<1>2. \A p \in Packets, n \in Connections \cup {NoConnection} : ContentItem(id, p, n) \in WorkItem
  BY DEF ContentItem, WorkItem
<1>3. \A i \in Interests : InterestItem(id, i, c, e) \in Waiting
  BY <1>1 DEF InterestItem, Waiting, IsInterest
<1>4. \A p \in Packets, n \in Connections \cup {NoConnection} : ContentItem(id, p, n) \in Waiting
  BY <1>2 DEF ContentItem, Waiting, IsInterest
<1> QED
  BY <1>3, <1>4

\* What is given to the forwarder is one of these.
Arrives(w) ==
  /\ w \in Waiting /\ w.id = arrived + 1 /\ w.ingress \in Connections /\ w.held = {}
  /\ Arrive(w)

LEMMA ArrivalTypes ==
  ASSUME Typed, NEW c \in Connections, RouteInput(c) \/ RouteOutput(c)
  PROVE  \E w : Arrives(w)
<1>1. arrived \in 0 .. MaxPackets /\ MaxPackets \in Nat
  BY BoundsAssumption DEF Typed, QueuesTyped
<1>2. ASSUME arrived < MaxPackets
      PROVE  /\ \A i \in Interests, e \in Connections \cup {NoConnection} :
                  InterestItem(arrived + 1, i, c, e) \in Waiting
             /\ \A p \in Packets : ContentItem(arrived + 1, p, c) \in Waiting
  BY <1>1, <1>2, ItemTypes
<1>3. /\ \A i, e : LET w == InterestItem(arrived + 1, i, c, e) IN
                     w.id = arrived + 1 /\ w.ingress = c /\ w.held = {}
      /\ \A p : LET w == ContentItem(arrived + 1, p, c) IN
                  w.id = arrived + 1 /\ w.ingress = c /\ w.held = {}
  BY DEF InterestItem, ContentItem
<1>4. \A w : Arrive(w) => arrived < MaxPackets
  BY DEF Arrive
<1>5. ASSUME NEW i \in Interests, NEW e \in Connections \cup {NoConnection},
             Arrive(InterestItem(arrived + 1, i, c, e))
      PROVE  \E w : Arrives(w)
  BY <1>2, <1>3, <1>4, <1>5 DEF Arrives
<1>6. ASSUME NEW p \in Packets, Arrive(ContentItem(arrived + 1, p, c))
      PROVE  \E w : Arrives(w)
  BY <1>2, <1>3, <1>4, <1>6 DEF Arrives
<1> QED
  BY <1>5, <1>6 DEF RouteInput, RouteOutput

LEMMA ArriveTyped ==
  ASSUME Typed, NEW w, Arrives(w)
  PROVE  TablesStep /\ F!TypeOK' /\ QueuesTyped'
<1>1. QueuesTyped /\ Arrive(w) /\ w \in Waiting /\ w.ingress \in Connections
  BY DEF Typed, Arrives
<1>2. TablesStep
  BY <1>1, PitQuiet, CsQuiet DEF Arrive, TablesStep
<1>3. stats' \in [Counters -> Nat]
  BY <1>1, CountTyped DEF Arrive, QueuesTyped
<1>4. owed' \in [Connections -> Int]
  BY <1>1 DEF Arrive, QueuesTyped
<1>5. arrived' \in 0 .. MaxPackets
  BY <1>1, BoundsAssumption DEF Arrive, QueuesTyped
<1>6. inputQueue' \in Seq(Waiting)
  BY <1>1 DEF Arrive, QueuesTyped, Enqueue
<1> QED
  BY <1>1, <1>2, <1>3, <1>4, <1>5, <1>6 DEF Arrive, QueuesTyped, F!TypeOK, Typed

LEMMA ServiceInputQueueTyped ==
  ASSUME Typed, ServiceInputQueue
  PROVE  TablesStep /\ F!TypeOK' /\ QueuesTyped'
<1>1. PICK i \in Served(inputQueue) :
        /\ inputQueue' = RemoveAt(inputQueue, i)
        /\ PitPush(inputQueue[i])
        /\ Count({IF IsInterest(inputQueue[i]) THEN "interestsToPit" ELSE "contentObjectsToPit"})
        /\ UNCHANGED <<csQueue, fibQueue, now, pitVars, csVars, fib, arrived, routeChanges, done,
                       returned, owed, offered, sought>>
  BY DEF ServiceInputQueue
<1>2. QueuesTyped /\ i \in DOMAIN inputQueue
  BY DEF Typed, Served
<1>3. TablesStep
  BY <1>1, PitQuiet, CsQuiet DEF TablesStep
<1>4. stats' \in [Counters -> Nat]
  BY <1>1, <1>2, CountTyped DEF QueuesTyped
<1>5. inputQueue' \in Seq(Waiting) /\ pitQueue' \in Seq(Waiting)
  BY <1>1, <1>2, RemoveAtElements DEF QueuesTyped, PitPush, Enqueue
<1> QED
  BY <1>1, <1>2, <1>3, <1>4, <1>5 DEF QueuesTyped, F!TypeOK, Typed

LEMMA ReceiveIsPitStep ==
  ASSUME NEW w \in Waiting, IsInterest(w),
         P!ReceiveInterest(Key(w.interest), FALSE, w.ingress, w.interest.lifetime)
  PROVE  /\ w.interest \in Interests /\ w.ingress \in Connections /\ w.packet = NoPacket
         /\ Key(w.interest) \in PP!Keys
         /\ PP!Next /\ now' = now
<1>1. /\ w.interest \in Interests /\ w.ingress \in Connections /\ w.packet = NoPacket
  BY DEF Waiting, WorkItem, IsInterest
<1>2. Key(w.interest) \in PP!Keys
  BY <1>1, KeyTypes DEF PP!Keys
<1>3. PP!ReceiveInterest(Key(w.interest), FALSE, w.ingress, w.interest.lifetime)
  BY SameTables
<1>4. w.interest.lifetime \in {i.lifetime : i \in Interests}
  BY <1>1
<1>5. PP!Next
  BY <1>1, <1>2, <1>3, <1>4 DEF PP!Next
<1> QED
  BY <1>1, <1>2, <1>3, <1>5 DEF PP!ReceiveInterest

LEMMA SatisfyIsPitStep ==
  ASSUME NEW w \in Waiting, ~IsInterest(w),
         P!SatisfyInterest(w.packet.name, w.packet.hash, w.ingress)
  PROVE  /\ w.packet \in Packets /\ w.egress = NoConnection
         /\ w.ingress \in Connections \cup {NoConnection}
         /\ PP!Next /\ now' = now
<1>1. /\ w.packet \in Packets /\ w.egress = NoConnection /\ w.ingress \in Connections \cup {NoConnection}
  BY DEF Waiting, WorkItem
<1>2. w.packet.name \in Names \cup {NoName} /\ w.packet.hash \in Hashes \cup {NullHash}
  BY <1>1, KeyTypes
<1>3. PP!SatisfyInterest(w.packet.name, w.packet.hash, w.ingress)
  BY SameTables
<1>4. PP!Next
  BY <1>1, <1>2, <1>3 DEF PP!Next
<1> QED
  BY <1>1, <1>3, <1>4 DEF PP!SatisfyInterest

\* The PIT sends content to connections.
LEMMA PitTyped ==
  ASSUME PP!IInv, [PP!Next]_(PP!vars)
  PROVE  PP!IInv' /\ pitResult'.egress \subseteq Connections
<1>1. PP!IInv'
  BY PP!StepIInv, PitAssumptions
<1> QED
  BY <1>1 DEF PP!IInv, PP!TypeOK

LEMMA PitReceiveInterestTyped ==
  ASSUME Typed, PitReceiveInterest
  PROVE  TablesStep /\ F!TypeOK' /\ QueuesTyped'
<1>1. PICK i \in Served(pitQueue) : LET w == pitQueue[i] IN
        /\ IsInterest(w)
        /\ PitPop(i)
        /\ P!ReceiveInterest(Key(w.interest), FALSE, w.ingress, w.interest.lifetime)
        /\ IF pitResult'.verdict = "Aggregate"
           THEN /\ FinishRouteLookup(w, {})
                /\ sought' = IF Outputs(w, {}) # {} THEN sought \cup {Key(w.interest)} ELSE sought
                /\ Count({"interestsVerdictAggregate", "packetsOut"})
                /\ UNCHANGED <<csQueue, csVars, fibQueue>>
           ELSE /\ IF HasContentStore
                   THEN CsPush([w EXCEPT !.held = offered]) /\ UNCHANGED fibQueue
                   ELSE FibPush(w) /\ UNCHANGED <<csQueue, csVars>>
                /\ Count({"interestsVerdictForward",
                          IF HasContentStore THEN "interestsToContentStore" ELSE "interestsToFib"})
                /\ Continue /\ UNCHANGED sought
        /\ UNCHANGED <<inputQueue, fib, arrived, routeChanges, offered>>
  BY DEF PitReceiveInterest
<1> DEFINE w == pitQueue[i]
<1>2. QueuesTyped /\ i \in DOMAIN pitQueue /\ w \in Waiting /\ w \in WorkItem /\ F!TypeOK /\ CSP!Typed
  BY DEF Typed, QueuesTyped, Served, Waiting
<1>3. /\ w.interest \in Interests /\ w.ingress \in Connections /\ w.packet = NoPacket
      /\ PP!Next /\ now' = now
  BY <1>1, <1>2, ReceiveIsPitStep
<1>4. pitQueue' \in Seq(Waiting)
  BY <1>1, <1>2, RemoveAtElements DEF QueuesTyped, PitPop
<1>5. stats' \in [Counters -> Nat]
  BY <1>1, <1>2, CountTyped DEF QueuesTyped
<1>6. CASE pitResult'.verdict = "Aggregate"
  <2>1. owed' \in [Connections -> Int]
    BY <1>1, <1>2, <1>6, FinishTyped DEF QueuesTyped
  <2>2. TablesStep
    BY <1>1, <1>3, <1>6, CsQuiet DEF TablesStep
  <2> QED
    BY <1>1, <1>2, <1>4, <1>5, <1>6, <2>1, <2>2 DEF QueuesTyped, F!TypeOK
<1>7. CASE pitResult'.verdict # "Aggregate" /\ HasContentStore
  <2> DEFINE v == [w EXCEPT !.held = offered]
  <2>1. v \in WorkItem /\ v.interest = w.interest /\ v.ingress = w.ingress /\ v.packet = w.packet
    BY <1>2 DEF WorkItem, QueuesTyped
  <2>2. v \in InStore
    BY <1>1, <1>3, <2>1 DEF InStore, IsInterest
  <2>3. CsPush(v) /\ UNCHANGED fibQueue /\ owed' = owed
    BY <1>1, <1>7 DEF Continue
  <2> HIDE DEF v
  <2>4. csQueue' \in Seq(InStore) /\ [CSP!Next]_(CSP!vars)
    BY <1>2, <1>3, <2>2, <2>3, CsPushTyped DEF QueuesTyped
  <2>5. TablesStep
    BY <1>3, <2>4 DEF TablesStep
  <2> QED
    BY <1>1, <1>2, <1>4, <1>5, <2>3, <2>4, <2>5 DEF QueuesTyped, F!TypeOK
<1>8. CASE pitResult'.verdict # "Aggregate" /\ ~HasContentStore
  <2>1. w \in Seeking /\ FibPush(w) /\ UNCHANGED <<csQueue, csVars>> /\ owed' = owed
    BY <1>1, <1>2, <1>3, <1>8 DEF Seeking, Continue
  <2>2. fibQueue' \in Seq(Seeking)
    BY <1>2, <2>1, FibPushTyped DEF QueuesTyped
  <2>3. TablesStep
    BY <1>3, <2>1, CsQuiet DEF TablesStep
  <2> QED
    BY <1>1, <1>2, <1>4, <1>5, <2>1, <2>2, <2>3 DEF QueuesTyped, F!TypeOK
<1> QED
  BY <1>6, <1>7, <1>8

LEMMA PitSatisfyInterestTyped ==
  ASSUME Typed, PitSatisfyInterest
  PROVE  TablesStep /\ F!TypeOK' /\ QueuesTyped'
<1>1. PICK i \in Served(pitQueue) : LET w == pitQueue[i]
                                        route == pitResult'.egress
                                        next == AfterSatisfy(w, route) IN
        /\ ~IsInterest(w)
        /\ PitPop(i)
        /\ P!SatisfyInterest(w.packet.name, w.packet.hash, w.ingress)
        /\ next = "drop"   => Drop(w) /\ UNCHANGED <<csQueue, csVars>>
        /\ next = "store"  => CsPush([w EXCEPT !.route = route]) /\ Continue
        /\ next = "finish" => FinishRouteLookup(w, route) /\ UNCHANGED <<csQueue, csVars>>
        /\ \E counters : Count(counters)
        /\ offered' = IF next = "store" THEN offered \cup {w.packet} ELSE offered
        /\ UNCHANGED <<inputQueue, fibQueue, fib, arrived, routeChanges>>
  BY Zenon DEF PitSatisfyInterest
<1> DEFINE w == pitQueue[i]
           route == pitResult'.egress
<1>2. QueuesTyped /\ i \in DOMAIN pitQueue /\ w \in Waiting /\ w \in WorkItem /\ F!TypeOK
      /\ CSP!Typed /\ PP!IInv
  BY DEF Typed, QueuesTyped, Served, Waiting
<1>3. /\ w.packet \in Packets /\ w.egress = NoConnection /\ PP!Next /\ now' = now
  BY <1>1, <1>2, SatisfyIsPitStep
<1>4. pitQueue' \in Seq(Waiting)
  BY <1>1, <1>2, RemoveAtElements DEF QueuesTyped, PitPop
<1>5. stats' \in [Counters -> Nat]
  BY <1>1, <1>2, CountTyped DEF QueuesTyped
<1>6. offered' \subseteq Packets
  BY <1>1, <1>2, <1>3 DEF QueuesTyped
<1>7. route \subseteq Connections
  BY <1>2, <1>3, PitTyped
<1> HIDE DEF route
<1>8. CASE AfterSatisfy(w, route) = "drop" \/ AfterSatisfy(w, route) = "finish"
  <2>1. owed' \in [Connections -> Int] /\ UNCHANGED <<csQueue, csVars>>
    BY <1>1, <1>2, <1>8, FinishTyped DEF QueuesTyped, Drop, route
  <2>2. TablesStep
    BY <1>3, <2>1, CsQuiet DEF TablesStep
  <2> QED
    BY <1>1, <1>2, <1>4, <1>5, <1>6, <2>1, <2>2 DEF QueuesTyped, F!TypeOK
<1>9. CASE AfterSatisfy(w, route) = "store"
  <2> DEFINE v == [w EXCEPT !.route = route]
  <2>1. /\ v \in WorkItem /\ v.interest = w.interest /\ v.ingress = w.ingress
        /\ v.packet = w.packet /\ v.egress = w.egress /\ v.route = route
    BY <1>2, <1>7 DEF WorkItem
  <2>2. route # {} /\ w.ingress # NoConnection
    BY <1>9 DEF AfterSatisfy
  <2>3. v \in InStore
    BY <1>1, <1>3, <2>1, <2>2 DEF InStore, IsInterest
  <2>4. CsPush(v) /\ owed' = owed
    BY <1>1, <1>9 DEF Continue, route
  <2> HIDE DEF v
  <2>5. csQueue' \in Seq(InStore) /\ [CSP!Next]_(CSP!vars)
    BY <1>2, <1>3, <2>3, <2>4, CsPushTyped DEF QueuesTyped
  <2>6. TablesStep
    BY <1>3, <2>5 DEF TablesStep
  <2> QED
    BY <1>1, <1>2, <1>4, <1>5, <1>6, <2>4, <2>5, <2>6 DEF QueuesTyped, F!TypeOK
<1> QED
  BY <1>8, <1>9 DEF AfterSatisfy

LEMMA CsMatchInterestTyped ==
  ASSUME Typed, CsMatchInterest
  PROVE  TablesStep /\ F!TypeOK' /\ QueuesTyped'
<1>1. PICK i \in Served(csQueue) : LET w == csQueue[i] IN
        /\ IsInterest(w)
        /\ CsPop(i)
        /\ IF w.packet # NoPacket
           THEN /\ PitPush(ContentItem(w.id, w.packet, NoConnection))
                /\ Count({"interestsContentStoreHits", "contentObjectsToPit"})
                /\ UNCHANGED fibQueue
           ELSE /\ FibPush(w)
                /\ Count({"interestsContentStoreMisses", "interestsToFib"})
                /\ UNCHANGED pitQueue
        /\ Continue
        /\ UNCHANGED <<inputQueue, now, pitVars, fib, arrived, routeChanges, offered, sought>>
  BY DEF CsMatchInterest
<1> DEFINE w == csQueue[i]
<1>2. QueuesTyped /\ i \in DOMAIN csQueue /\ w \in InStore /\ w \in WorkItem /\ F!TypeOK /\ CSP!Typed
  BY DEF Typed, QueuesTyped, Served, InStore
<1>3. csQueue' \in Seq(InStore) /\ [CSP!Next]_(CSP!vars)
  BY <1>1, <1>2, CsPopTyped DEF QueuesTyped
<1>4. TablesStep
  BY <1>1, <1>3, PitQuiet DEF TablesStep
<1>5. stats' \in [Counters -> Nat]
  BY <1>1, <1>2, CountTyped DEF QueuesTyped
<1>6. pitQueue' \in Seq(Waiting) /\ fibQueue' \in Seq(Seeking)
  <2>1. CASE w.packet # NoPacket
    <3>1. w.packet \in Packets /\ w.id \in 1 .. MaxPackets
      BY <1>2, <2>1 DEF WorkItem
    <3>2. ContentItem(w.id, w.packet, NoConnection) \in WorkItem
      BY <3>1 DEF ContentItem, WorkItem
    <3>3. ContentItem(w.id, w.packet, NoConnection) \in Waiting
      BY <3>1, <3>2 DEF ContentItem, Waiting, IsInterest
    <3>4. pitQueue' = Append(pitQueue, ContentItem(w.id, w.packet, NoConnection)) /\ fibQueue' = fibQueue
      BY <1>1, <2>1 DEF PitPush, Enqueue
    <3>5. pitQueue \in Seq(Waiting) /\ fibQueue \in Seq(Seeking)
      BY <1>2 DEF QueuesTyped
    <3> HIDE DEF w
    <3> QED
      BY <3>3, <3>4, <3>5
  <2>2. CASE w.packet = NoPacket
    <3>1. w \in Seeking
      BY <1>1, <1>2, <2>2 DEF Seeking, InStore
    <3> QED
      BY <1>1, <1>2, <2>2, <3>1, FibPushTyped DEF QueuesTyped
  <2> QED
    BY <2>1, <2>2
<1> QED
  BY <1>1, <1>2, <1>3, <1>4, <1>5, <1>6 DEF QueuesTyped, F!TypeOK, Continue

LEMMA CsAddContentObjectTyped ==
  ASSUME Typed, CsAddContentObject
  PROVE  TablesStep /\ F!TypeOK' /\ QueuesTyped'
<1>1. PICK i \in Served(csQueue) : LET w == csQueue[i] IN
        /\ ~IsInterest(w)
        /\ CsPop(i)
        /\ FinishRouteLookup(w, w.route)
        /\ \E counters : Count(counters)
        /\ UNCHANGED <<inputQueue, pitQueue, fibQueue, now, pitVars, fib, arrived, routeChanges,
                       offered, sought>>
  BY DEF CsAddContentObject
<1>2. QueuesTyped /\ i \in DOMAIN csQueue /\ F!TypeOK /\ CSP!Typed
  BY DEF Typed, Served
<1>3. csQueue' \in Seq(InStore) /\ [CSP!Next]_(CSP!vars)
  BY <1>1, <1>2, CsPopTyped DEF QueuesTyped
<1>4. TablesStep
  BY <1>1, <1>3, PitQuiet DEF TablesStep
<1>5. stats' \in [Counters -> Nat] /\ owed' \in [Connections -> Int]
  BY <1>1, <1>2, CountTyped, FinishTyped DEF QueuesTyped
<1> QED
  BY <1>1, <1>2, <1>3, <1>4, <1>5 DEF QueuesTyped, F!TypeOK

LEMMA FibLookupTyped ==
  ASSUME Typed, FibLookup
  PROVE  TablesStep /\ F!TypeOK' /\ QueuesTyped'
<1>1. PICK i \in Served(fibQueue) :
        /\ FibPop(i)
        /\ FinishRouteLookup(fibQueue[i], fibQueue[i].route)
        /\ \E counters : Count(counters)
        /\ UNCHANGED <<inputQueue, pitQueue, csQueue, now, pitVars, csVars, fib, arrived,
                       routeChanges, offered>>
  BY DEF FibLookup
<1>2. QueuesTyped /\ i \in DOMAIN fibQueue /\ F!TypeOK
  BY DEF Typed, Served
<1>3. fibQueue' \in Seq(Seeking)
  BY <1>1, <1>2, FibPopTyped DEF QueuesTyped
<1>4. TablesStep
  BY <1>1, PitQuiet, CsQuiet DEF TablesStep
<1>5. stats' \in [Counters -> Nat] /\ owed' \in [Connections -> Int]
  BY <1>1, <1>2, CountTyped, FinishTyped DEF QueuesTyped
<1> QED
  BY <1>1, <1>2, <1>3, <1>4, <1>5 DEF QueuesTyped, F!TypeOK

\* The changes of the FIB leave the rest alone.
Routing ==
  \/ \E p \in RoutePrefixes, connections \in SUBSET Connections :
       InnerAddRoute(p, connections) \/ InnerRemoveRoute(p, connections)
  \/ \E c \in Connections : RemoveConnection(c)

LEMMA RoutingTyped ==
  ASSUME Typed, Routing
  PROVE  TablesStep /\ F!TypeOK' /\ QueuesTyped'
<1>1. RouteChange /\ QueuesTyped /\ F!TypeOK
  BY DEF Routing, InnerAddRoute, InnerRemoveRoute, RemoveConnection, Typed
<1>2. TablesStep
  BY <1>1, PitQuiet, CsQuiet DEF RouteChange, TablesStep
<1>3. F!TypeOK'
  <2>1. ASSUME NEW p \in RoutePrefixes, NEW connections \in SUBSET Connections,
               InnerAddRoute(p, connections)
        PROVE  F!TypeOK'
    <3>1. fib' = [fib EXCEPT ![p] = @ \cup connections]
      BY <2>1 DEF InnerAddRoute, F!AddRoute
    <3> QED
      BY <1>1, <3>1 DEF F!TypeOK
  <2>2. ASSUME NEW p \in RoutePrefixes, NEW connections \in SUBSET Connections,
               InnerRemoveRoute(p, connections)
        PROVE  F!TypeOK'
    <3>1. fib' = [fib EXCEPT ![p] = @ \ connections]
      BY <2>2 DEF InnerRemoveRoute, F!DeleteRoute
    <3> QED
      BY <1>1, <3>1 DEF F!TypeOK
  <2>3. ASSUME NEW c \in Connections, RemoveConnection(c)
        PROVE  F!TypeOK'
    BY <1>1, <2>3 DEF RemoveConnection, F!RemoveConnection, F!TypeOK
  <2> QED
    BY <2>1, <2>2, <2>3 DEF Routing
<1> QED
  BY <1>1, <1>2, <1>3 DEF RouteChange, QueuesTyped

LEMMA TickTyped ==
  ASSUME Typed, Tick
  PROVE  TablesStep /\ F!TypeOK' /\ QueuesTyped'
<1>1. PP!Next /\ CSP!Next
  BY DEF Tick, P!Tick, PP!Next, PP!Tick, CSP!Next, CSP!Tick, csVars, P!Quiet, PP!Quiet
<1> QED
  BY <1>1 DEF Tick, TablesStep, QueuesTyped, F!TypeOK, Typed

\* A forwarder in whatever node: layer 3 adds and removes any routes.
Working == Next \/ Routing
Works   == Init /\ [][Working]_vars

LEMMA SpecWorks == Spec => Works
BY PTL DEF Spec, Works, Working

\* The steps, by what they do to the queues.
LEMMA Steps ==
  ASSUME Typed, [Working]_vars
  PROVE  \/ \E w : Arrives(w)
         \/ ServiceInputQueue \/ PitReceiveInterest \/ PitSatisfyInterest
         \/ CsMatchInterest \/ CsAddContentObject \/ FibLookup
         \/ Routing \/ Tick \/ UNCHANGED vars
<1>1. ASSUME NEW c \in Connections, RouteInput(c) \/ RouteOutput(c) PROVE \E w : Arrives(w)
  BY <1>1, ArrivalTypes
<1>2. ASSUME NEW p \in RoutePrefixes, NEW route \in FibRoutes, AddRoute(p, route) \/ RemoveRoute(p, route)
      PROVE  Routing
  BY <1>2, FibRoutesAssumption DEF AddRoute, RemoveRoute, Routing
<1> QED
  BY <1>1, <1>2, PortalsAssumption DEF Working, Next, Routing

LEMMA TypedInit == Init => Typed
<1> SUFFICES ASSUME Init PROVE Typed
  OBVIOUS
<1>1. PP!IInv
  <2>1. PP!Init
    BY DEF Init, Empty, P!Init, PP!Init, P!NewEntry, PP!NewEntry, P!Keys, PP!Keys, P!Quiet, PP!Quiet,
           P!Never, PP!Never
  <2> QED
    BY <2>1, PP!InitIInv, PitAssumptions
<1>2. CSP!Typed
  <2>1. CSP!Init
    BY DEF Init, Empty, CS!Init, CSP!Init, CS!NoEntry, CSP!NoEntry
  <2> QED
    BY <2>1, CSP!TypedInit, CsAssumptions
<1>3. F!TypeOK /\ QueuesTyped
  BY BoundsAssumption DEF Init, Empty, F!Init, F!TypeOK, QueuesTyped
<1> QED
  BY <1>1, <1>2, <1>3 DEF Typed

LEMMA TypedStep == Typed /\ [Working]_vars => Typed' /\ TablesStep
<1> SUFFICES ASSUME Typed, [Working]_vars PROVE Typed' /\ TablesStep
  OBVIOUS
<1>2. TablesStep /\ F!TypeOK' /\ QueuesTyped'
  <2>1. CASE \E w : Arrives(w)
    BY <2>1, ArriveTyped
  <2>2. CASE UNCHANGED vars
    BY <2>2, PitQuiet, CsQuiet DEF vars, TablesStep, QueuesTyped, F!TypeOK, Typed
  <2> QED
    BY <2>1, <2>2, Steps, ServiceInputQueueTyped, PitReceiveInterestTyped, PitSatisfyInterestTyped,
       CsMatchInterestTyped, CsAddContentObjectTyped, FibLookupTyped, RoutingTyped, TickTyped
<1>3. PP!IInv'
  BY <1>2, PitTyped DEF Typed, TablesStep
<1>4. CSP!Typed'
  BY <1>2, CSP!NextTyped, CsAssumptions DEF Typed, TablesStep
<1> QED
  BY <1>2, <1>3, <1>4 DEF Typed

LEMMA TypedAlways == Works => []Typed
BY TypedInit, TypedStep, PTL DEF Works

-----------------------------------------------------------------------------
(* The tables *)

LEMMA WorksTyped == Works => []TypeOK
<1>1. Typed => TypeOK
  <2> SUFFICES ASSUME Typed PROVE TypeOK
    OBVIOUS
  <2>1. P!TypeOK
    BY DEF Typed, PP!IInv, PP!TypeOK, P!TypeOK, P!Keys, PP!Keys, P!Entry, PP!Entry, P!Time, PP!Time,
           P!Never, PP!Never
  <2>2. CS!TypeOK
    BY DEF Typed, CSP!Typed, CSP!StoreOf, CS!TypeOK, CS!Entries, CS!NoEntry, CSP!NoEntry
  <2>3. QueuesTyped /\ F!TypeOK
    BY DEF Typed
  <2>4. Pipeline \subseteq WorkItem
    <3>1. Waiting \subseteq WorkItem /\ InStore \subseteq WorkItem /\ Seeking \subseteq WorkItem
      BY DEF Waiting, InStore, Seeking
    <3> QED
      BY <2>3, <3>1 DEF Pipeline, Items, QueuesTyped
  <2>5. \A w \in Items(fibQueue) : IsInterest(w) /\ w.packet = NoPacket
    BY <2>3 DEF Items, QueuesTyped, Seeking
  <2>6. \A w \in Items(csQueue) : IsInterest(w) \/ (w.route # {} /\ w.ingress # NoConnection)
    <3>1. \A w \in InStore : IsInterest(w) \/ (w.route # {} /\ w.ingress # NoConnection)
      BY DEF InStore
    <3>2. \A i \in DOMAIN csQueue : csQueue[i] \in InStore
      BY <2>3 DEF QueuesTyped
    <3> QED
      BY <3>1, <3>2 DEF Items
  <2> QED
    BY <2>1, <2>2, <2>3, <2>4, <2>5, <2>6 DEF TypeOK, QueuesTyped
<1> QED
  BY <1>1, TypedAlways, PTL

\* The queues hold what their tables can work on, and the tables what they should: for any
\* names, packets, Interests and routes, any number of servers and any delays.
THEOREM ForwarderTypeCorrect == Spec => []TypeOK
BY WorksTyped, SpecWorks, PTL

\* The forwarder uses its PIT and its content store as Pit and ContentStore say they may be
\* used.  So what is proved of these for all that may be done with them, as that content
\* reaches every connection whose Interest is alive, holds in a node.
THEOREM TablesAsSpecified == Spec => P!Spec /\ CS!Spec
<1>1. Init => P!Init /\ CS!Init
  BY DEF Init, Empty
<1>2. [PP!Next]_(PP!vars) => [P!Next]_(P!vars)
  <2>1. PP!Keys = P!Keys
    BY DEF P!Keys, PP!Keys
  <2>2. PP!Next => P!Next
    BY <2>1, SameTables DEF PP!Next, P!Next, P!Tick, PP!Tick, P!Quiet, PP!Quiet
  <2> QED
    BY <2>2 DEF P!vars, PP!vars
<1>3. [CSP!Next]_(CSP!vars) => [CS!Next]_(CS!vars)
  <2>1. \A p : CSP!DeleteContentObject(p) => CS!DeleteContentObject(p)
    <3>1. \A s, p : CS!EntryOf(s, p) = CSP!EntryOf(s, p) /\ CS!NoEntry = CSP!NoEntry
      BY DEF CS!EntryOf, CSP!EntryOf, CS!NoEntry, CSP!NoEntry
    <3>2. \A lru, e : CS!Without(lru, e) = CSP!Without(lru, e)
      BY DEF CS!Without, CSP!Without, CS!RemoveAt, CSP!RemoveAt, CS!ToSet, CSP!ToSet
    <3>3. \A s, p : CS!Deleted(s, p) = CSP!Deleted(s, p)
      BY <3>1, <3>2 DEF CS!Deleted, CSP!Deleted, CS!Unmapped, CSP!Unmapped, CS!Mapped, CSP!Mapped
    <3> QED
      BY <3>3 DEF CSP!DeleteContentObject, CS!DeleteContentObject
  <2>2. CSP!Next => CS!Next
    BY <2>1, SameTables DEF CSP!Next, CS!Next, CS!Tick, CSP!Tick
  <2> QED
    BY <2>2 DEF CS!vars, CSP!vars
<1>4. Typed /\ [Working]_vars => [P!Next]_(P!vars) /\ [CS!Next]_(CS!vars)
  BY TypedStep, <1>2, <1>3 DEF TablesStep
<1> QED
  BY <1>1, <1>4, TypedAlways, SpecWorks, PTL DEF Works, P!Spec, CS!Spec

\* Whatever routes are added and removed, a lookup returns the longest match of a name
\* that no gap precedes.
THEOREM LongestMatchIsFound == Spec => []LongestMatch
<1>1. LongestMatch
  BY InterestsAssumption, NamesAssumption, LookupFindsLongestMatch DEF LongestMatch
<1> QED
  BY <1>1, PTL

-----------------------------------------------------------------------------
(* What the steps do to the queues *)

One(b) == IF b THEN 1 ELSE 0

\* A set of items that does not depend on what a table finds for an Interest, nor on the
\* content objects that were offered before it.
Blind(S) ==
  \A v, w \in WorkItem :
    /\ v.id = w.id /\ v.interest = w.interest /\ v.ingress = w.ingress
    /\ IsInterest(w) \/ (v.packet = w.packet /\ v.route = w.route)
    => (v \in S <=> w \in S)

\* Item w joined, or left, queue q.
Joined(q, r, w) ==
  Len(r) = Len(q) + 1 /\ \A S \in SUBSET WorkItem : Blind(S) => Number(r, S) = Number(q, S) + One(w \in S)

Left(q, r, w) ==
  Len(r) = Len(q) - 1 /\ \A S \in SUBSET WorkItem : Blind(S) => Number(r, S) = Number(q, S) - One(w \in S)

LEMMA AppendJoins ==
  ASSUME NEW T, NEW q \in Seq(T), NEW w \in T
  PROVE  Joined(q, Append(q, w), w)
BY NumberAppend DEF Joined, One

LEMMA RemoveLeaves ==
  ASSUME NEW T, NEW q \in Seq(T), NEW i \in DOMAIN q
  PROVE  Left(q, RemoveAt(q, i), q[i])
BY NumberRemove, RemoveAtElements DEF Left, One

LEMMA SameQueueNumber ==
  ASSUME NEW q \in Seq(WorkItem), NEW r \in Seq(WorkItem), SameQueue(r, q)
  PROVE  /\ Len(r) = Len(q)
         /\ \A S \in SUBSET WorkItem : Blind(S) => Number(r, S) = Number(q, S)
<1>1. Len(r) = Len(q) /\ DOMAIN r = DOMAIN q
  BY DEF SameQueue
<1>2. ASSUME NEW S \in SUBSET WorkItem, Blind(S) PROVE Number(r, S) = Number(q, S)
  <2>1. ASSUME NEW i \in DOMAIN q PROVE r[i] \in S <=> q[i] \in S
    <3>1. r[i] \in WorkItem /\ q[i] \in WorkItem /\ SameWork(r[i], q[i])
      BY <1>1 DEF SameQueue
    <3> QED
      BY <1>2, <3>1 DEF Blind, SameWork
  <2> QED
    BY <1>1, <2>1, NumberSame
<1> QED
  BY <1>1, <1>2

LEMMA ItemSets == Waiting \subseteq WorkItem /\ InStore \subseteq WorkItem /\ Seeking \subseteq WorkItem
BY DEF Waiting, InStore, Seeking

LEMMA SameJoins ==
  ASSUME NEW q \in Seq(WorkItem), NEW w \in WorkItem, NEW r \in Seq(WorkItem),
         SameQueue(r, Append(q, w))
  PROVE  Joined(q, r, w)
<1>1. Append(q, w) \in Seq(WorkItem) /\ Joined(q, Append(q, w), w)
  BY AppendJoins
<1> QED
  BY <1>1, SameQueueNumber DEF Joined

LEMMA SameLeaves ==
  ASSUME NEW q \in Seq(WorkItem), NEW i \in DOMAIN q, NEW r \in Seq(WorkItem),
         SameQueue(r, RemoveAt(q, i))
  PROVE  Left(q, r, q[i])
<1>1. RemoveAt(q, i) \in Seq(WorkItem) /\ Left(q, RemoveAt(q, i), q[i])
  BY RemoveLeaves, RemoveAtElements
<1> QED
  BY <1>1, SameQueueNumber DEF Left

LEMMA CsPushJoins ==
  ASSUME Typed, NEW w \in InStore, CsPush(w), now' = now
  PROVE  Joined(csQueue, csQueue', w)
<1>1. csQueue \in Seq(InStore) /\ csQueue' \in Seq(InStore) /\ SameQueue(csQueue', Append(csQueue, w))
  BY CsPushTyped DEF Typed, QueuesTyped
<1>2. csQueue \in Seq(WorkItem) /\ csQueue' \in Seq(WorkItem) /\ w \in WorkItem
  BY <1>1, ItemSets
<1> QED
  BY <1>1, <1>2, SameJoins

LEMMA CsPopLeaves ==
  ASSUME Typed, NEW i \in DOMAIN csQueue, CsPop(i), now' = now
  PROVE  Left(csQueue, csQueue', csQueue[i])
<1>1. csQueue \in Seq(InStore) /\ csQueue' \in Seq(InStore) /\ SameQueue(csQueue', RemoveAt(csQueue, i))
  BY CsPopTyped DEF Typed, QueuesTyped
<1> QED
  BY <1>1, SameLeaves, ItemSets

LEMMA FibPushJoins ==
  ASSUME Typed, NEW w \in Seeking, FibPush(w)
  PROVE  Joined(fibQueue, fibQueue', w)
<1>1. fibQueue \in Seq(Seeking) /\ fibQueue' \in Seq(Seeking) /\ SameQueue(fibQueue', Append(fibQueue, w))
  BY FibPushTyped DEF Typed, QueuesTyped
<1>2. fibQueue \in Seq(WorkItem) /\ fibQueue' \in Seq(WorkItem) /\ w \in WorkItem
  BY <1>1, ItemSets
<1> QED
  BY <1>1, <1>2, SameJoins

LEMMA FibPopLeaves ==
  ASSUME Typed, NEW i \in DOMAIN fibQueue, FibPop(i)
  PROVE  Left(fibQueue, fibQueue', fibQueue[i])
<1>1. fibQueue \in Seq(Seeking) /\ fibQueue' \in Seq(Seeking) /\ SameQueue(fibQueue', RemoveAt(fibQueue, i))
  BY FibPopTyped DEF Typed, QueuesTyped
<1> QED
  BY <1>1, SameLeaves, ItemSets

\* Each step, as the item that goes from one queue to another or leaves the forwarder.
ServiceInputQueueMoves(w) ==
  /\ w \in Waiting /\ Left(inputQueue, inputQueue', w) /\ Joined(pitQueue, pitQueue', w)
  /\ Count({IF IsInterest(w) THEN "interestsToPit" ELSE "contentObjectsToPit"})
  /\ UNCHANGED <<csQueue, fibQueue, pitVars, arrived, done, owed, sought>>

PitReceiveInterestMoves(w) ==
  /\ w \in Waiting /\ IsInterest(w)
  /\ PP!ReceiveInterest(Key(w.interest), FALSE, w.ingress, w.interest.lifetime)
  /\ Left(pitQueue, pitQueue', w)
  /\ \/ /\ pitResult'.verdict = "Aggregate" /\ FinishRouteLookup(w, {})
        /\ Count({"interestsVerdictAggregate", "packetsOut"})
        /\ sought \subseteq sought' /\ UNCHANGED <<csQueue, fibQueue>>
     \/ /\ Continue /\ Count({"interestsVerdictForward", "interestsToContentStore"})
        /\ Joined(csQueue, csQueue', w) /\ UNCHANGED <<fibQueue, sought>>
     \/ /\ Continue /\ Count({"interestsVerdictForward", "interestsToFib"})
        /\ Joined(fibQueue, fibQueue', w) /\ UNCHANGED <<csQueue, sought>>
  /\ UNCHANGED <<inputQueue, arrived>>

\* The PIT puts the connections that wait for content in its item.
Routed(w, route) == [w EXCEPT !.route = route]

PitSatisfyInterestMoves(w) ==
  /\ w \in Waiting /\ ~IsInterest(w)
  /\ PP!SatisfyInterest(w.packet.name, w.packet.hash, w.ingress)
  /\ Left(pitQueue, pitQueue', w)
  /\ \/ /\ pitResult'.egress = {} /\ Drop(w) /\ Count({"contentObjectsNotMatchedInPit"})
        /\ UNCHANGED csQueue
     \/ /\ Continue /\ Count({"contentObjectsMatchedInPit", "contentObjectsToContentStore"})
        /\ Routed(w, pitResult'.egress) \in WorkItem
        /\ Joined(csQueue, csQueue', Routed(w, pitResult'.egress))
     \/ /\ FinishRouteLookup(w, pitResult'.egress)
        /\ Count({"contentObjectsMatchedInPit", "packetsOut"})
        /\ UNCHANGED csQueue
  /\ sought' = sought \ {w.packet.name, w.packet.hash}
  /\ UNCHANGED <<inputQueue, fibQueue, arrived>>

CsMatchInterestMoves(w) ==
  /\ w \in InStore /\ IsInterest(w) /\ Left(csQueue, csQueue', w)
  /\ \/ /\ w.packet \in Packets /\ ContentItem(w.id, w.packet, NoConnection) \in WorkItem
        /\ Joined(pitQueue, pitQueue', ContentItem(w.id, w.packet, NoConnection))
        /\ Count({"interestsContentStoreHits", "contentObjectsToPit"}) /\ UNCHANGED fibQueue
     \/ /\ Joined(fibQueue, fibQueue', w)
        /\ Count({"interestsContentStoreMisses", "interestsToFib"}) /\ UNCHANGED pitQueue
  /\ Continue
  /\ UNCHANGED <<inputQueue, pitVars, arrived, sought>>

CsAddContentObjectMoves(w) ==
  /\ w \in InStore /\ ~IsInterest(w) /\ Left(csQueue, csQueue', w)
  /\ FinishRouteLookup(w, w.route)
  /\ \/ Count({"packetsOut", "contentObjectsAddedToContentStore"})
     \/ Count({"packetsOut", "contentObjectsNotAddedToContentStore"})
  /\ UNCHANGED <<inputQueue, pitQueue, fibQueue, pitVars, arrived, sought>>

FibLookupMoves(w) ==
  /\ w \in Seeking /\ Left(fibQueue, fibQueue', w)
  /\ FinishRouteLookup(w, w.route)
  /\ \/ Count({"packetsOut", "interestsFibForwarded"})
     \/ Count({"packetsOut", "interestsFibNotForwarded"})
  /\ sought' = sought \cup {Key(w.interest)}
  /\ UNCHANGED <<inputQueue, pitQueue, csQueue, pitVars, arrived>>

LEMMA ServiceInputQueueIsMove ==
  ASSUME Typed, ServiceInputQueue
  PROVE  \E w : ServiceInputQueueMoves(w)
<1>1. PICK i \in Served(inputQueue) :
        /\ inputQueue' = RemoveAt(inputQueue, i)
        /\ PitPush(inputQueue[i])
        /\ Count({IF IsInterest(inputQueue[i]) THEN "interestsToPit" ELSE "contentObjectsToPit"})
        /\ UNCHANGED <<csQueue, fibQueue, now, pitVars, csVars, fib, arrived, routeChanges, done,
                       returned, owed, offered, sought>>
  BY DEF ServiceInputQueue
<1> DEFINE w == inputQueue[i]
<1>2. inputQueue \in Seq(Waiting) /\ pitQueue \in Seq(Waiting) /\ i \in DOMAIN inputQueue /\ w \in Waiting
  BY DEF Typed, QueuesTyped, Served
<1>3. Left(inputQueue, inputQueue', w)
  BY <1>1, <1>2, RemoveLeaves
<1>4. pitQueue' = Append(pitQueue, w)
  BY <1>1 DEF PitPush, Enqueue
<1>5. Joined(pitQueue, pitQueue', w)
  BY <1>2, <1>4, AppendJoins
<1>6. ServiceInputQueueMoves(w)
  BY <1>1, <1>2, <1>3, <1>5 DEF ServiceInputQueueMoves
<1> QED
  BY <1>6

\* A set does not depend on the content objects that were offered either.
LEMMA HeldJoins ==
  ASSUME NEW q, NEW r, NEW w \in WorkItem, NEW held, [w EXCEPT !.held = held] \in WorkItem,
         Joined(q, r, [w EXCEPT !.held = held])
  PROVE  Joined(q, r, w)
<1> DEFINE v == [w EXCEPT !.held = held]
<1>1. /\ v \in WorkItem /\ v.id = w.id /\ v.interest = w.interest /\ v.ingress = w.ingress
      /\ v.packet = w.packet /\ v.route = w.route
  BY DEF WorkItem
<1>2. Joined(q, r, v)
  OBVIOUS
<1> HIDE DEF v
<1>3. \A S \in SUBSET WorkItem : Blind(S) => (v \in S <=> w \in S)
  BY <1>1 DEF Blind
<1> QED
  BY <1>2, <1>3 DEF Joined, One

LEMMA PitReceiveInterestIsMove ==
  ASSUME Typed, PitReceiveInterest
  PROVE  \E w : PitReceiveInterestMoves(w)
<1>1. PICK i \in Served(pitQueue) : LET w == pitQueue[i] IN
        /\ IsInterest(w)
        /\ PitPop(i)
        /\ P!ReceiveInterest(Key(w.interest), FALSE, w.ingress, w.interest.lifetime)
        /\ IF pitResult'.verdict = "Aggregate"
           THEN /\ FinishRouteLookup(w, {})
                /\ sought' = IF Outputs(w, {}) # {} THEN sought \cup {Key(w.interest)} ELSE sought
                /\ Count({"interestsVerdictAggregate", "packetsOut"})
                /\ UNCHANGED <<csQueue, csVars, fibQueue>>
           ELSE /\ IF HasContentStore
                   THEN CsPush([w EXCEPT !.held = offered]) /\ UNCHANGED fibQueue
                   ELSE FibPush(w) /\ UNCHANGED <<csQueue, csVars>>
                /\ Count({"interestsVerdictForward",
                          IF HasContentStore THEN "interestsToContentStore" ELSE "interestsToFib"})
                /\ Continue /\ UNCHANGED sought
        /\ UNCHANGED <<inputQueue, fib, arrived, routeChanges, offered>>
  BY DEF PitReceiveInterest
<1> DEFINE w == pitQueue[i]
<1>2. QueuesTyped /\ i \in DOMAIN pitQueue /\ w \in Waiting /\ w \in WorkItem
  BY DEF Typed, QueuesTyped, Served, Waiting
<1>3. w.ingress \in Connections /\ w.packet = NoPacket
  BY <1>1, <1>2 DEF Waiting
<1>4. Left(pitQueue, pitQueue', w)
  BY <1>1, <1>2, RemoveLeaves DEF QueuesTyped, PitPop
<1>5. PP!ReceiveInterest(Key(w.interest), FALSE, w.ingress, w.interest.lifetime) /\ now' = now
  BY <1>1, SameTables DEF P!ReceiveInterest
<1>6. CASE pitResult'.verdict = "Aggregate"
  BY <1>1, <1>2, <1>4, <1>5, <1>6 DEF PitReceiveInterestMoves
<1>7. CASE pitResult'.verdict # "Aggregate" /\ HasContentStore
  <2> DEFINE v == [w EXCEPT !.held = offered]
  <2>1. v \in WorkItem /\ v.interest = w.interest /\ v.ingress = w.ingress /\ v.packet = w.packet
    BY <1>2 DEF WorkItem, QueuesTyped
  <2>2. v \in InStore
    BY <1>1, <1>3, <2>1 DEF InStore, IsInterest
  <2>3. CsPush(v) /\ UNCHANGED <<fibQueue, sought>> /\ Continue
        /\ Count({"interestsVerdictForward", "interestsToContentStore"})
    BY <1>1, <1>7
  <2> HIDE DEF v
  <2>4. Joined(csQueue, csQueue', v)
    BY <1>5, <2>2, <2>3, CsPushJoins
  <2>5. Joined(csQueue, csQueue', w)
    BY <1>2, <2>1, <2>4, HeldJoins DEF v
  <2> QED
    BY <1>1, <1>2, <1>4, <1>5, <2>3, <2>5 DEF PitReceiveInterestMoves
<1>8. CASE pitResult'.verdict # "Aggregate" /\ ~HasContentStore
  <2>1. w \in Seeking /\ FibPush(w) /\ UNCHANGED <<csQueue, sought>> /\ Continue
        /\ Count({"interestsVerdictForward", "interestsToFib"})
    BY <1>1, <1>2, <1>3, <1>8 DEF Seeking
  <2>2. Joined(fibQueue, fibQueue', w)
    BY <2>1, FibPushJoins
  <2> QED
    BY <1>1, <1>2, <1>4, <1>5, <2>1, <2>2 DEF PitReceiveInterestMoves
<1> QED
  BY <1>6, <1>7, <1>8

LEMMA PitSatisfyInterestIsMove ==
  ASSUME Typed, PitSatisfyInterest
  PROVE  \E w : PitSatisfyInterestMoves(w)
<1>1. PICK i \in Served(pitQueue) : LET w == pitQueue[i]
                                        route == pitResult'.egress
                                        next == AfterSatisfy(w, route) IN
        /\ ~IsInterest(w)
        /\ PitPop(i)
        /\ P!SatisfyInterest(w.packet.name, w.packet.hash, w.ingress)
        /\ next = "drop"   => /\ Drop(w) /\ UNCHANGED <<csQueue, csVars>>
                              /\ Count({"contentObjectsNotMatchedInPit"})
        /\ next = "store"  => /\ CsPush([w EXCEPT !.route = route]) /\ Continue
                              /\ Count({"contentObjectsMatchedInPit", "contentObjectsToContentStore"})
        /\ next = "finish" => /\ FinishRouteLookup(w, route) /\ UNCHANGED <<csQueue, csVars>>
                              /\ Count({"contentObjectsMatchedInPit", "packetsOut"})
        /\ sought' = sought \ {w.packet.name, w.packet.hash}
        /\ UNCHANGED <<inputQueue, fibQueue, fib, arrived, routeChanges>>
  BY Zenon DEF PitSatisfyInterest
<1> DEFINE w == pitQueue[i]
           route == pitResult'.egress
<1>2. QueuesTyped /\ i \in DOMAIN pitQueue /\ w \in Waiting /\ w \in WorkItem /\ PP!IInv
  BY DEF Typed, QueuesTyped, Served, Waiting
<1>3. w.packet \in Packets /\ w.egress = NoConnection /\ PP!Next /\ now' = now
  BY <1>1, <1>2, SatisfyIsPitStep
<1>4. PP!SatisfyInterest(w.packet.name, w.packet.hash, w.ingress)
  BY <1>1, SameTables
<1>5. Left(pitQueue, pitQueue', w)
  BY <1>1, <1>2, RemoveLeaves DEF QueuesTyped, PitPop
<1>6. route \subseteq Connections
  BY <1>2, <1>3, PitTyped
<1>7. CASE AfterSatisfy(w, route) = "drop"
  <2>1. route = {}
    BY <1>7 DEF AfterSatisfy
  <2> QED
    BY <1>1, <1>2, <1>4, <1>5, <1>7, <2>1 DEF PitSatisfyInterestMoves
<1>8. CASE AfterSatisfy(w, route) = "finish"
  BY <1>1, <1>2, <1>4, <1>5, <1>8 DEF PitSatisfyInterestMoves
<1>9. CASE AfterSatisfy(w, route) = "store"
  <2> DEFINE v == Routed(w, route)
  <2>1. /\ v \in WorkItem /\ v.interest = w.interest /\ v.ingress = w.ingress
        /\ v.packet = w.packet /\ v.egress = w.egress /\ v.route = route
    BY <1>2, <1>6 DEF WorkItem, Routed
  <2>2. route # {} /\ w.ingress # NoConnection
    BY <1>9 DEF AfterSatisfy
  <2>3. v \in InStore
    BY <1>1, <1>3, <2>1, <2>2 DEF InStore, IsInterest
  <2>4. CsPush(v)
    BY <1>1, <1>9 DEF Routed
  <2> HIDE DEF v
  <2>5. Joined(csQueue, csQueue', v)
    BY <1>3, <2>3, <2>4, CsPushJoins
  <2> QED
    BY <1>1, <1>2, <1>4, <1>5, <1>9, <2>1, <2>5 DEF PitSatisfyInterestMoves, v
<1> QED
  BY <1>7, <1>8, <1>9 DEF AfterSatisfy

LEMMA CsMatchInterestIsMove ==
  ASSUME Typed, CsMatchInterest
  PROVE  \E w : CsMatchInterestMoves(w)
<1>1. PICK i \in Served(csQueue) : LET w == csQueue[i] IN
        /\ IsInterest(w)
        /\ CsPop(i)
        /\ IF w.packet # NoPacket
           THEN /\ PitPush(ContentItem(w.id, w.packet, NoConnection))
                /\ Count({"interestsContentStoreHits", "contentObjectsToPit"})
                /\ UNCHANGED fibQueue
           ELSE /\ FibPush(w)
                /\ Count({"interestsContentStoreMisses", "interestsToFib"})
                /\ UNCHANGED pitQueue
        /\ Continue
        /\ UNCHANGED <<inputQueue, now, pitVars, fib, arrived, routeChanges, offered, sought>>
  BY DEF CsMatchInterest
<1> DEFINE w == csQueue[i]
<1>2. QueuesTyped /\ i \in DOMAIN csQueue /\ w \in InStore /\ w \in WorkItem
  BY DEF Typed, QueuesTyped, Served, InStore
<1>3. Left(csQueue, csQueue', w)
  BY <1>1, <1>2, CsPopLeaves
<1>4. CASE w.packet # NoPacket
  <2> DEFINE v == ContentItem(w.id, w.packet, NoConnection)
  <2>1. w.packet \in Packets /\ w.id \in 1 .. MaxPackets
    BY <1>2, <1>4 DEF WorkItem
  <2>2. v \in WorkItem
    BY <2>1 DEF ContentItem, WorkItem
  <2>3. v \in Waiting
    BY <2>1, <2>2 DEF ContentItem, Waiting, IsInterest
  <2>4. pitQueue' = Append(pitQueue, v)
    BY <1>1, <1>4 DEF PitPush, Enqueue
  <2>5. Joined(pitQueue, pitQueue', v)
    <3>1. pitQueue \in Seq(Waiting)
      BY <1>2 DEF QueuesTyped
    <3> HIDE DEF v
    <3> QED
      BY <3>1, <2>3, <2>4, AppendJoins
  <2> QED
    BY <1>1, <1>2, <1>3, <1>4, <2>1, <2>2, <2>5 DEF CsMatchInterestMoves
<1>5. CASE w.packet = NoPacket
  <2>1. w \in Seeking
    BY <1>1, <1>2, <1>5 DEF Seeking, InStore
  <2>2. Joined(fibQueue, fibQueue', w)
    BY <1>1, <1>5, <2>1, FibPushJoins
  <2> QED
    BY <1>1, <1>2, <1>3, <1>5, <2>2 DEF CsMatchInterestMoves
<1> QED
  BY <1>4, <1>5

LEMMA CsAddContentObjectIsMove ==
  ASSUME Typed, CsAddContentObject
  PROVE  \E w : CsAddContentObjectMoves(w)
<1>1. PICK i \in Served(csQueue) : LET w == csQueue[i] IN
        /\ ~IsInterest(w)
        /\ CsPop(i)
        /\ FinishRouteLookup(w, w.route)
        /\ Count({"packetsOut", IF w.added THEN "contentObjectsAddedToContentStore"
                                ELSE "contentObjectsNotAddedToContentStore"})
        /\ UNCHANGED <<inputQueue, pitQueue, fibQueue, now, pitVars, fib, arrived, routeChanges,
                       offered, sought>>
  BY DEF CsAddContentObject
<1> DEFINE w == csQueue[i]
<1>2. i \in DOMAIN csQueue /\ w \in InStore
  BY DEF Typed, QueuesTyped, Served
<1>3. Left(csQueue, csQueue', w)
  BY <1>1, <1>2, CsPopLeaves
<1>4. \/ Count({"packetsOut", "contentObjectsAddedToContentStore"})
      \/ Count({"packetsOut", "contentObjectsNotAddedToContentStore"})
  BY <1>1
<1>5. CsAddContentObjectMoves(w)
  BY <1>1, <1>2, <1>3, <1>4 DEF CsAddContentObjectMoves
<1> QED
  BY <1>5

LEMMA FibLookupIsMove ==
  ASSUME Typed, FibLookup
  PROVE  \E w : FibLookupMoves(w)
<1>1. PICK i \in Served(fibQueue) : LET w == fibQueue[i] IN
        /\ FibPop(i)
        /\ FinishRouteLookup(w, w.route)
        /\ sought' = sought \cup {Key(w.interest)}
        /\ Count({"packetsOut", IF w.route # {} THEN "interestsFibForwarded"
                                ELSE "interestsFibNotForwarded"})
        /\ UNCHANGED <<inputQueue, pitQueue, csQueue, now, pitVars, csVars, fib, arrived,
                       routeChanges, offered>>
  BY DEF FibLookup
<1> DEFINE w == fibQueue[i]
<1>2. i \in DOMAIN fibQueue /\ w \in Seeking
  BY DEF Typed, QueuesTyped, Served
<1>3. Left(fibQueue, fibQueue', w)
  BY <1>1, <1>2, FibPopLeaves
<1>4. \/ Count({"packetsOut", "interestsFibForwarded"})
      \/ Count({"packetsOut", "interestsFibNotForwarded"})
  BY <1>1
<1>5. FibLookupMoves(w)
  BY <1>1, <1>2, <1>3, <1>4 DEF FibLookupMoves
<1> QED
  BY <1>5

LEMMA ArrivesJoins ==
  ASSUME Typed, NEW w, Arrives(w)
  PROVE  Joined(inputQueue, inputQueue', w) /\ w \in WorkItem /\ arrived \in Nat
<1>1. w \in Waiting /\ inputQueue \in Seq(Waiting) /\ inputQueue' = Append(inputQueue, w) /\ arrived \in Nat
  BY DEF Typed, QueuesTyped, Arrives, Arrive, Enqueue
<1> QED
  BY <1>1, AppendJoins, ItemSets

\* The other steps leave the queues alone.
Untouched ==
  UNCHANGED <<inputQueue, pitQueue, csQueue, fibQueue, pitVars, arrived, done, owed, stats, sought>>

LEMMA Moves ==
  ASSUME Typed, [Working]_vars
  PROVE  \/ \E w : \/ Arrives(w) \/ ServiceInputQueueMoves(w) \/ PitReceiveInterestMoves(w)
                   \/ PitSatisfyInterestMoves(w) \/ CsMatchInterestMoves(w)
                   \/ CsAddContentObjectMoves(w) \/ FibLookupMoves(w)
         \/ Tick \/ Untouched
<1>1. Routing => Untouched
  BY DEF Routing, InnerAddRoute, InnerRemoveRoute, RemoveConnection, RouteChange, Untouched
<1>2. UNCHANGED vars => Untouched
  BY DEF vars, Untouched
<1> QED
  BY <1>1, <1>2, Steps, ServiceInputQueueIsMove, PitReceiveInterestIsMove, PitSatisfyInterestIsMove,
     CsMatchInterestIsMove, CsAddContentObjectIsMove, FibLookupIsMove

-----------------------------------------------------------------------------
(* No packet is lost or doubled *)

Ids(id) == {w \in WorkItem : w.id = id}
Asking  == {w \in WorkItem : IsInterest(w)}

Inside(S) == Number(inputQueue, S) + Number(pitQueue, S) + Number(csQueue, S) + Number(fibQueue, S)

\* Every packet is once in the queues until the forwarder is through with it.
Conserved ==
  /\ done \subseteq 1 .. arrived
  /\ \A id \in 1 .. MaxPackets : Inside(Ids(id)) = One(id <= arrived /\ id \notin done)

LEMMA NumbersTyped ==
  ASSUME Typed
  PROVE  /\ Len(inputQueue) \in Nat /\ Len(pitQueue) \in Nat
         /\ Len(csQueue) \in Nat /\ Len(fibQueue) \in Nat
         /\ \A S : /\ Number(inputQueue, S) \in Nat /\ Number(pitQueue, S) \in Nat
                   /\ Number(csQueue, S) \in Nat /\ Number(fibQueue, S) \in Nat
<1>1. /\ inputQueue \in Seq(WorkItem) /\ pitQueue \in Seq(WorkItem)
      /\ csQueue \in Seq(WorkItem) /\ fibQueue \in Seq(WorkItem)
  BY ItemSets DEF Typed, QueuesTyped
<1>2. /\ Len(inputQueue) \in Nat /\ Len(pitQueue) \in Nat
      /\ Len(csQueue) \in Nat /\ Len(fibQueue) \in Nat
  BY <1>1
<1>3. ASSUME NEW S
      PROVE  /\ Number(inputQueue, S) \in Nat /\ Number(pitQueue, S) \in Nat
             /\ Number(csQueue, S) \in Nat /\ Number(fibQueue, S) \in Nat
  BY <1>1, NumberType
<1> QED
  BY <1>2, <1>3

\* The same after a step.
LEMMA NumbersTypedNext ==
  ASSUME Typed'
  PROVE  \A S : /\ Number(inputQueue', S) \in Nat /\ Number(pitQueue', S) \in Nat
                /\ Number(csQueue', S) \in Nat /\ Number(fibQueue', S) \in Nat
<1>1. /\ inputQueue' \in Seq(WorkItem) /\ pitQueue' \in Seq(WorkItem)
      /\ csQueue' \in Seq(WorkItem) /\ fibQueue' \in Seq(WorkItem)
  BY ItemSets DEF Typed, QueuesTyped
<1> QED
  BY <1>1, NumberType

LEMMA SameId ==
  ASSUME NEW S \in SUBSET WorkItem, NEW id, S = Ids(id)
  PROVE  Blind(S)
BY DEF Blind, Ids

LEMMA ArrivesKeepsConserved ==
  ASSUME Typed, Conserved, NEW w, Arrives(w)
  PROVE  Conserved'
<1>1. /\ Joined(inputQueue, inputQueue', w) /\ w \in WorkItem /\ arrived \in Nat /\ w.id = arrived + 1
      /\ arrived' = arrived + 1
      /\ UNCHANGED <<pitQueue, csQueue, fibQueue, done>>
  BY ArrivesJoins DEF Arrives, Arrive
<1>2. ASSUME NEW id \in 1 .. MaxPackets
      PROVE  Inside(Ids(id))' = One(id <= arrived /\ id \notin done)'
  <2>1. Inside(Ids(id)) = One(id <= arrived /\ id \notin done)
    BY DEF Conserved
  <2>2. Number(inputQueue', Ids(id)) = Number(inputQueue, Ids(id)) + One(w \in Ids(id))
    BY <1>1, SameId DEF Joined, Ids
  <2>3. w \in Ids(id) <=> id = arrived + 1
    BY <1>1 DEF Ids
  <2>4. id = arrived + 1 => id \notin done
    BY <1>1 DEF Conserved
  <2>5. Inside(Ids(id))' = Inside(Ids(id)) + One(w \in Ids(id))
    BY <1>1, <2>2, NumbersTyped DEF Inside, Ids, One
  <2> QED
    BY <1>1, <2>1, <2>3, <2>4, <2>5 DEF One
<1>3. done' \subseteq 1 .. arrived'
  BY <1>1 DEF Conserved
<1> QED
  BY <1>2, <1>3 DEF Conserved, Ids

\* A packet that goes from queue to queue.
LEMMA PassKeepsConserved ==
  ASSUME Conserved, UNCHANGED <<arrived, done>>,
         NEW v \in WorkItem, NEW w \in WorkItem, v.id = w.id,
         \A S \in SUBSET WorkItem : Blind(S) => Inside(S)' = Inside(S) - One(w \in S) + One(v \in S),
         \A S : Inside(S) \in Nat
  PROVE  Conserved'
<1>1. ASSUME NEW id \in 1 .. MaxPackets
      PROVE  Inside(Ids(id))' = Inside(Ids(id))
  <2>1. Ids(id) \in SUBSET WorkItem /\ Blind(Ids(id)) /\ (v \in Ids(id) <=> w \in Ids(id))
    BY SameId DEF Ids
  <2>2. Inside(Ids(id))' = Inside(Ids(id)) - One(w \in Ids(id)) + One(v \in Ids(id))
    BY <2>1 DEF Ids
  <2> QED
    BY <2>1, <2>2 DEF One
<1> QED
  BY <1>1 DEF Conserved, Ids, One

\* A packet the forwarder is through with.
LEMMA EndKeepsConserved ==
  ASSUME Conserved, UNCHANGED arrived, arrived \in Nat, NEW w \in WorkItem, done' = done \cup {w.id},
         \A S \in SUBSET WorkItem : Blind(S) => Inside(S)' = Inside(S) - One(w \in S) /\ Inside(S)' \in Nat
  PROVE  Conserved'
<1>1. w.id \in 1 .. MaxPackets
  BY DEF WorkItem
<1>2. ASSUME NEW id \in 1 .. MaxPackets
      PROVE  /\ Inside(Ids(id))' = Inside(Ids(id)) - One(id = w.id) /\ Inside(Ids(id))' \in Nat
             /\ Inside(Ids(id)) = One(id <= arrived /\ id \notin done)
  <2>1. Ids(id) \in SUBSET WorkItem /\ Blind(Ids(id)) /\ (w \in Ids(id) <=> id = w.id)
    BY SameId DEF Ids
  <2>2. Inside(Ids(id))' = Inside(Ids(id)) - One(w \in Ids(id)) /\ Inside(Ids(id))' \in Nat
    BY <2>1 DEF Ids
  <2> QED
    BY <2>1, <2>2 DEF Conserved, One
<1>3. w.id <= arrived /\ w.id \notin done
  BY <1>1, <1>2 DEF One
<1>4. \A id \in 1 .. MaxPackets : Inside(Ids(id))' = One(id <= arrived /\ id \notin done)'
  BY <1>2, <1>3 DEF One
<1>5. done' \subseteq 1 .. arrived'
  <2>1. done \subseteq 1 .. arrived /\ w.id \in 1 .. arrived
    BY <1>1, <1>3 DEF Conserved
  <2> QED
    BY <2>1
<1> QED
  BY <1>4, <1>5 DEF Conserved, Ids

LEMMA ConservedStep == Typed /\ Conserved /\ [Working]_vars => Conserved'
<1> SUFFICES ASSUME Typed, Conserved, [Working]_vars PROVE Conserved'
  OBVIOUS
<1>1. Typed' /\ arrived \in Nat
  BY TypedStep DEF Typed, QueuesTyped
<1>2. \A S : /\ Number(inputQueue, S) \in Nat /\ Number(pitQueue, S) \in Nat
             /\ Number(csQueue, S) \in Nat /\ Number(fibQueue, S) \in Nat
             /\ Number(inputQueue, S)' \in Nat /\ Number(pitQueue, S)' \in Nat
             /\ Number(csQueue, S)' \in Nat /\ Number(fibQueue, S)' \in Nat
             /\ Inside(S) \in Nat /\ Inside(S)' \in Nat
  <2>1. ASSUME NEW S
        PROVE  /\ Number(inputQueue, S) \in Nat /\ Number(pitQueue, S) \in Nat
               /\ Number(csQueue, S) \in Nat /\ Number(fibQueue, S) \in Nat
    BY NumbersTyped
  <2>2. ASSUME NEW S
        PROVE  /\ Number(inputQueue, S)' \in Nat /\ Number(pitQueue, S)' \in Nat
               /\ Number(csQueue, S)' \in Nat /\ Number(fibQueue, S)' \in Nat
    BY <1>1, NumbersTypedNext
  <2>3. ASSUME NEW S PROVE Inside(S) \in Nat /\ Inside(S)' \in Nat
    BY <2>1, <2>2 DEF Inside
  <2> QED
    BY <2>1, <2>2, <2>3
<1>3. ASSUME NEW w, Arrives(w) PROVE Conserved'
  BY <1>3, ArrivesKeepsConserved
<1>4. ASSUME NEW w, ServiceInputQueueMoves(w) PROVE Conserved'
  <2>1. /\ w \in WorkItem /\ Left(inputQueue, inputQueue', w) /\ Joined(pitQueue, pitQueue', w)
        /\ UNCHANGED <<csQueue, fibQueue, arrived, done>>
    BY <1>4, ItemSets DEF ServiceInputQueueMoves
  <2>2. \A S \in SUBSET WorkItem : Blind(S) => Inside(S)' = Inside(S) - One(w \in S) + One(w \in S)
    <3> SUFFICES ASSUME NEW S \in SUBSET WorkItem, Blind(S) PROVE Inside(S)' = Inside(S) - One(w \in S) + One(w \in S)
      OBVIOUS
    <3>1. /\ Number(inputQueue', S) = Number(inputQueue, S) - One(w \in S)
          /\ Number(pitQueue', S) = Number(pitQueue, S) + One(w \in S)
          /\ UNCHANGED <<csQueue, fibQueue>>
      BY <2>1 DEF Left, Joined
    <3> QED
      BY <1>2, <3>1 DEF Inside, One
  <2> QED
    BY <1>2, <2>1, <2>2, PassKeepsConserved
<1>5. ASSUME NEW w, PitReceiveInterestMoves(w) PROVE Conserved'
  <2>1. /\ w \in WorkItem /\ Left(pitQueue, pitQueue', w) /\ UNCHANGED <<inputQueue, arrived>>
    BY <1>5, ItemSets DEF PitReceiveInterestMoves
  <2>2. CASE done' = done \cup {w.id} /\ UNCHANGED <<csQueue, fibQueue>>
    <3>1. \A S \in SUBSET WorkItem : Blind(S) => Inside(S)' = Inside(S) - One(w \in S) /\ Inside(S)' \in Nat
      <4> SUFFICES ASSUME NEW S \in SUBSET WorkItem, Blind(S) PROVE Inside(S)' = Inside(S) - One(w \in S) /\ Inside(S)' \in Nat
        OBVIOUS
      <4>1. /\ Number(pitQueue', S) = Number(pitQueue, S) - One(w \in S)
            /\ UNCHANGED <<inputQueue, csQueue, fibQueue>>
        BY <2>1, <2>2 DEF Left, Joined
      <4> QED
        BY <1>2, <4>1 DEF Inside, One
    <3> QED
      BY <1>1, <2>1, <2>2, <3>1, EndKeepsConserved
  <2>3. CASE /\ UNCHANGED done
             /\ \/ Joined(csQueue, csQueue', w) /\ UNCHANGED fibQueue
                \/ Joined(fibQueue, fibQueue', w) /\ UNCHANGED csQueue
    <3>1. \A S \in SUBSET WorkItem : Blind(S) => Inside(S)' = Inside(S) - One(w \in S) + One(w \in S)
      <4> SUFFICES ASSUME NEW S \in SUBSET WorkItem, Blind(S) PROVE Inside(S)' = Inside(S) - One(w \in S) + One(w \in S)
        OBVIOUS
      <4>1. /\ Number(pitQueue', S) = Number(pitQueue, S) - One(w \in S)
            /\ UNCHANGED inputQueue
            /\ \/ Number(csQueue', S) = Number(csQueue, S) + One(w \in S) /\ UNCHANGED fibQueue
               \/ Number(fibQueue', S) = Number(fibQueue, S) + One(w \in S) /\ UNCHANGED csQueue
        BY <2>1, <2>3 DEF Left, Joined
      <4> QED
        BY <1>2, <4>1 DEF Inside, One
    <3> QED
      BY <1>2, <2>1, <2>3, <3>1, PassKeepsConserved
  <2> QED
    BY <1>5, <2>2, <2>3 DEF PitReceiveInterestMoves, FinishRouteLookup, Continue
<1>6. ASSUME NEW w, PitSatisfyInterestMoves(w) PROVE Conserved'
  <2>1. /\ w \in WorkItem /\ Left(pitQueue, pitQueue', w) /\ UNCHANGED <<inputQueue, fibQueue, arrived>>
    BY <1>6, ItemSets DEF PitSatisfyInterestMoves
  <2>2. CASE done' = done \cup {w.id} /\ UNCHANGED csQueue
    <3>1. \A S \in SUBSET WorkItem : Blind(S) => Inside(S)' = Inside(S) - One(w \in S) /\ Inside(S)' \in Nat
      <4> SUFFICES ASSUME NEW S \in SUBSET WorkItem, Blind(S) PROVE Inside(S)' = Inside(S) - One(w \in S) /\ Inside(S)' \in Nat
        OBVIOUS
      <4>1. /\ Number(pitQueue', S) = Number(pitQueue, S) - One(w \in S)
            /\ UNCHANGED <<inputQueue, csQueue, fibQueue>>
        BY <2>1, <2>2 DEF Left, Joined
      <4> QED
        BY <1>2, <4>1 DEF Inside, One
    <3> QED
      BY <1>1, <2>1, <2>2, <3>1, EndKeepsConserved
  <2>3. ASSUME NEW v \in WorkItem, UNCHANGED done, v.id = w.id, Joined(csQueue, csQueue', v)
        PROVE  Conserved'
    <3>1. \A S \in SUBSET WorkItem : Blind(S) => Inside(S)' = Inside(S) - One(w \in S) + One(v \in S)
      <4> SUFFICES ASSUME NEW S \in SUBSET WorkItem, Blind(S) PROVE Inside(S)' = Inside(S) - One(w \in S) + One(v \in S)
        OBVIOUS
      <4>1. /\ Number(pitQueue', S) = Number(pitQueue, S) - One(w \in S)
            /\ Number(csQueue', S) = Number(csQueue, S) + One(v \in S)
            /\ UNCHANGED <<inputQueue, fibQueue>>
        BY <2>1, <2>3 DEF Left, Joined
      <4> QED
        BY <1>2, <4>1 DEF Inside, One
    <3> QED
      BY <1>2, <2>1, <2>3, <3>1, PassKeepsConserved
  <2>4. Routed(w, pitResult'.egress).id = w.id
    BY <2>1 DEF Routed, WorkItem
  <2> QED
    BY <1>6, <2>2, <2>3, <2>4 DEF PitSatisfyInterestMoves, FinishRouteLookup, Drop, Continue
<1>7. ASSUME NEW w, CsMatchInterestMoves(w) PROVE Conserved'
  <2>1. /\ w \in WorkItem /\ Left(csQueue, csQueue', w) /\ UNCHANGED <<inputQueue, arrived, done>>
    BY <1>7, ItemSets DEF CsMatchInterestMoves, Continue
  <2>2. ASSUME NEW v \in WorkItem, v.id = w.id, Joined(pitQueue, pitQueue', v), UNCHANGED fibQueue
        PROVE  Conserved'
    <3>1. \A S \in SUBSET WorkItem : Blind(S) => Inside(S)' = Inside(S) - One(w \in S) + One(v \in S)
      <4> SUFFICES ASSUME NEW S \in SUBSET WorkItem, Blind(S) PROVE Inside(S)' = Inside(S) - One(w \in S) + One(v \in S)
        OBVIOUS
      <4>1. /\ Number(csQueue', S) = Number(csQueue, S) - One(w \in S)
            /\ Number(pitQueue', S) = Number(pitQueue, S) + One(v \in S)
            /\ UNCHANGED <<inputQueue, fibQueue>>
        BY <2>1, <2>2 DEF Left, Joined
      <4> QED
        BY <1>2, <4>1 DEF Inside, One
    <3> QED
      BY <1>2, <2>1, <2>2, <3>1, PassKeepsConserved
  <2>3. CASE Joined(fibQueue, fibQueue', w) /\ UNCHANGED pitQueue
    <3>1. \A S \in SUBSET WorkItem : Blind(S) => Inside(S)' = Inside(S) - One(w \in S) + One(w \in S)
      <4> SUFFICES ASSUME NEW S \in SUBSET WorkItem, Blind(S) PROVE Inside(S)' = Inside(S) - One(w \in S) + One(w \in S)
        OBVIOUS
      <4>1. /\ Number(csQueue', S) = Number(csQueue, S) - One(w \in S)
            /\ Number(fibQueue', S) = Number(fibQueue, S) + One(w \in S)
            /\ UNCHANGED <<inputQueue, pitQueue>>
        BY <2>1, <2>3 DEF Left, Joined
      <4> QED
        BY <1>2, <4>1 DEF Inside, One
    <3> QED
      BY <1>2, <2>1, <2>3, <3>1, PassKeepsConserved
  <2>4. ContentItem(w.id, w.packet, NoConnection).id = w.id
    BY DEF ContentItem
  <2> QED
    BY <1>7, <2>2, <2>3, <2>4 DEF CsMatchInterestMoves
<1>8. ASSUME NEW w, CsAddContentObjectMoves(w) PROVE Conserved'
  <2>1. /\ w \in WorkItem /\ Left(csQueue, csQueue', w) /\ done' = done \cup {w.id}
        /\ UNCHANGED <<inputQueue, pitQueue, fibQueue, arrived>>
    BY <1>8, ItemSets DEF CsAddContentObjectMoves, FinishRouteLookup
  <2>2. \A S \in SUBSET WorkItem : Blind(S) => Inside(S)' = Inside(S) - One(w \in S) /\ Inside(S)' \in Nat
    <3> SUFFICES ASSUME NEW S \in SUBSET WorkItem, Blind(S) PROVE Inside(S)' = Inside(S) - One(w \in S) /\ Inside(S)' \in Nat
      OBVIOUS
    <3>1. /\ Number(csQueue', S) = Number(csQueue, S) - One(w \in S)
          /\ UNCHANGED <<inputQueue, pitQueue, fibQueue>>
      BY <2>1 DEF Left, Joined
    <3> QED
      BY <1>2, <3>1 DEF Inside, One
  <2> QED
    BY <1>1, <2>1, <2>2, EndKeepsConserved
<1>9. ASSUME NEW w, FibLookupMoves(w) PROVE Conserved'
  <2>1. /\ w \in WorkItem /\ Left(fibQueue, fibQueue', w) /\ done' = done \cup {w.id}
        /\ UNCHANGED <<inputQueue, pitQueue, csQueue, arrived>>
    BY <1>9, ItemSets DEF FibLookupMoves, FinishRouteLookup
  <2>2. \A S \in SUBSET WorkItem : Blind(S) => Inside(S)' = Inside(S) - One(w \in S) /\ Inside(S)' \in Nat
    <3> SUFFICES ASSUME NEW S \in SUBSET WorkItem, Blind(S) PROVE Inside(S)' = Inside(S) - One(w \in S) /\ Inside(S)' \in Nat
      OBVIOUS
    <3>1. /\ Number(fibQueue', S) = Number(fibQueue, S) - One(w \in S)
          /\ UNCHANGED <<inputQueue, pitQueue, csQueue>>
      BY <2>1 DEF Left, Joined
    <3> QED
      BY <1>2, <3>1 DEF Inside, One
  <2> QED
    BY <1>1, <2>1, <2>2, EndKeepsConserved
<1>10. CASE Tick \/ Untouched
  BY <1>10 DEF Tick, Untouched, Conserved, Inside, Ids, One
<1> QED
  BY <1>3, <1>4, <1>5, <1>6, <1>7, <1>8, <1>9, <1>10, Moves

\* What went into a table and did not come out is in its queue.
Balanced ==
  LET Balance(into, out1, out2, inside) == stats[into] = stats[out1] + stats[out2] + inside
  IN  /\ stats["RouteInputPacketsIn"] + stats["RouteOutputPacketsIn"]
            = stats["packetsOut"] + stats["contentObjectsNotMatchedInPit"]
                + (Len(inputQueue) + Len(pitQueue) + Len(csQueue) + Len(fibQueue))
      /\ Balance("interestsToPit", "interestsVerdictForward", "interestsVerdictAggregate",
                 Number(pitQueue, Asking))
      /\ Balance("contentObjectsToPit", "contentObjectsMatchedInPit",
                 "contentObjectsNotMatchedInPit", Len(pitQueue) - Number(pitQueue, Asking))
      /\ Balance("interestsToContentStore", "interestsContentStoreHits",
                 "interestsContentStoreMisses", Number(csQueue, Asking))
      /\ Balance("contentObjectsToContentStore", "contentObjectsAddedToContentStore",
                 "contentObjectsNotAddedToContentStore", Len(csQueue) - Number(csQueue, Asking))
      /\ Balance("interestsToFib", "interestsFibForwarded", "interestsFibNotForwarded",
                 Len(fibQueue))

\* By how much a count changes the balance of a table.
Net(C, into, out1, out2) == One(into \in C) - One(out1 \in C) - One(out2 \in C)

\* The queues change as the counters in C say.
AsCounted(C) ==
  /\ Len(inputQueue') + Len(pitQueue') + Len(csQueue') + Len(fibQueue')
       = Len(inputQueue) + Len(pitQueue) + Len(csQueue) + Len(fibQueue)
         + One("RouteInputPacketsIn" \in C)
         + Net(C, "RouteOutputPacketsIn", "packetsOut", "contentObjectsNotMatchedInPit")
  /\ Number(pitQueue', Asking) = Number(pitQueue, Asking)
       + Net(C, "interestsToPit", "interestsVerdictForward", "interestsVerdictAggregate")
  /\ Len(pitQueue') - Number(pitQueue', Asking) = Len(pitQueue) - Number(pitQueue, Asking)
       + Net(C, "contentObjectsToPit", "contentObjectsMatchedInPit", "contentObjectsNotMatchedInPit")
  /\ Number(csQueue', Asking) = Number(csQueue, Asking)
       + Net(C, "interestsToContentStore", "interestsContentStoreHits", "interestsContentStoreMisses")
  /\ Len(csQueue') - Number(csQueue', Asking) = Len(csQueue) - Number(csQueue, Asking)
       + Net(C, "contentObjectsToContentStore", "contentObjectsAddedToContentStore",
             "contentObjectsNotAddedToContentStore")
  /\ Len(fibQueue') = Len(fibQueue)
       + Net(C, "interestsToFib", "interestsFibForwarded", "interestsFibNotForwarded")

LEMMA BalancedIf ==
  ASSUME Typed, Typed', Balanced, NEW C, Count(C), AsCounted(C)
  PROVE  Balanced'
<1> DEFINE asks(q) == Number(q, Asking)
           rest(q) == Len(q) - asks(q)
<1>1. \A x \in Counters : stats'[x] = stats[x] + One(x \in C) /\ stats[x] \in Nat
  BY DEF Count, One, Typed, QueuesTyped
<1>2. /\ Len(inputQueue) \in Nat /\ Len(pitQueue) \in Nat /\ Len(csQueue) \in Nat /\ Len(fibQueue) \in Nat
      /\ asks(pitQueue) \in Nat /\ asks(csQueue) \in Nat
  BY NumbersTyped
<1>3. asks(pitQueue') \in Nat /\ asks(csQueue') \in Nat
  BY NumbersTypedNext
<1>4. /\ Len(inputQueue') \in Nat /\ Len(pitQueue') \in Nat /\ Len(csQueue') \in Nat /\ Len(fibQueue') \in Nat
  BY DEF Typed, QueuesTyped
<1>5. /\ rest(pitQueue) \in Int /\ rest(csQueue) \in Int
      /\ rest(pitQueue') \in Int /\ rest(csQueue') \in Int
  BY <1>2, <1>3, <1>4
<1>6. stats'["interestsToPit"]
       = stats'["interestsVerdictForward"] + stats'["interestsVerdictAggregate"]
         + asks(pitQueue')
  <2>1. \A x \in {"interestsToPit", "interestsVerdictForward", "interestsVerdictAggregate"} :
          stats'[x] = stats[x] + One(x \in C) /\ stats[x] \in Nat
    BY <1>1 DEF Counters
  <2>2. /\ stats["interestsToPit"]
             = stats["interestsVerdictForward"] + stats["interestsVerdictAggregate"]
               + asks(pitQueue)
        /\ asks(pitQueue') = asks(pitQueue)
             + Net(C, "interestsToPit", "interestsVerdictForward", "interestsVerdictAggregate")
    BY DEF Balanced, AsCounted
  <2>3. asks(pitQueue) \in Int /\ asks(pitQueue') \in Int
    BY <1>2, <1>3, <1>4, <1>5
  <2> HIDE DEF asks, rest
  <2> QED
    BY <2>1, <2>2, <2>3 DEF Net, One
<1>7. stats'["contentObjectsToPit"]
       = stats'["contentObjectsMatchedInPit"] + stats'["contentObjectsNotMatchedInPit"]
         + rest(pitQueue')
  <2>1. \A x \in {"contentObjectsToPit", "contentObjectsMatchedInPit", "contentObjectsNotMatchedInPit"} :
          stats'[x] = stats[x] + One(x \in C) /\ stats[x] \in Nat
    BY <1>1 DEF Counters
  <2>2. /\ stats["contentObjectsToPit"]
             = stats["contentObjectsMatchedInPit"] + stats["contentObjectsNotMatchedInPit"]
               + rest(pitQueue)
        /\ rest(pitQueue') = rest(pitQueue)
             + Net(C, "contentObjectsToPit", "contentObjectsMatchedInPit", "contentObjectsNotMatchedInPit")
    BY DEF Balanced, AsCounted
  <2>3. rest(pitQueue) \in Int /\ rest(pitQueue') \in Int
    BY <1>2, <1>3, <1>4, <1>5
  <2> HIDE DEF asks, rest
  <2> QED
    BY <2>1, <2>2, <2>3 DEF Net, One
<1>8. stats'["interestsToContentStore"]
       = stats'["interestsContentStoreHits"] + stats'["interestsContentStoreMisses"]
         + asks(csQueue')
  <2>1. \A x \in {"interestsToContentStore", "interestsContentStoreHits", "interestsContentStoreMisses"} :
          stats'[x] = stats[x] + One(x \in C) /\ stats[x] \in Nat
    BY <1>1 DEF Counters
  <2>2. /\ stats["interestsToContentStore"]
             = stats["interestsContentStoreHits"] + stats["interestsContentStoreMisses"]
               + asks(csQueue)
        /\ asks(csQueue') = asks(csQueue)
             + Net(C, "interestsToContentStore", "interestsContentStoreHits", "interestsContentStoreMisses")
    BY DEF Balanced, AsCounted
  <2>3. asks(csQueue) \in Int /\ asks(csQueue') \in Int
    BY <1>2, <1>3, <1>4, <1>5
  <2> HIDE DEF asks, rest
  <2> QED
    BY <2>1, <2>2, <2>3 DEF Net, One
<1>9. stats'["contentObjectsToContentStore"]
       = stats'["contentObjectsAddedToContentStore"] + stats'["contentObjectsNotAddedToContentStore"]
         + rest(csQueue')
  <2>1. \A x \in {"contentObjectsToContentStore", "contentObjectsAddedToContentStore", "contentObjectsNotAddedToContentStore"} :
          stats'[x] = stats[x] + One(x \in C) /\ stats[x] \in Nat
    BY <1>1 DEF Counters
  <2>2. /\ stats["contentObjectsToContentStore"]
             = stats["contentObjectsAddedToContentStore"] + stats["contentObjectsNotAddedToContentStore"]
               + rest(csQueue)
        /\ rest(csQueue') = rest(csQueue)
             + Net(C, "contentObjectsToContentStore", "contentObjectsAddedToContentStore", "contentObjectsNotAddedToContentStore")
    BY DEF Balanced, AsCounted
  <2>3. rest(csQueue) \in Int /\ rest(csQueue') \in Int
    BY <1>2, <1>3, <1>4, <1>5
  <2> HIDE DEF asks, rest
  <2> QED
    BY <2>1, <2>2, <2>3 DEF Net, One
<1>10. stats'["interestsToFib"]
       = stats'["interestsFibForwarded"] + stats'["interestsFibNotForwarded"]
         + Len(fibQueue')
  <2> DEFINE k == Len(fibQueue)
             m == Len(fibQueue')
  <2>1. \A x \in {"interestsToFib", "interestsFibForwarded", "interestsFibNotForwarded"} :
          stats'[x] = stats[x] + One(x \in C) /\ stats[x] \in Nat
    BY <1>1 DEF Counters
  <2>2. /\ stats["interestsToFib"]
             = stats["interestsFibForwarded"] + stats["interestsFibNotForwarded"]
               + k
        /\ m = k
             + Net(C, "interestsToFib", "interestsFibForwarded", "interestsFibNotForwarded")
    BY DEF Balanced, AsCounted
  <2>3. k \in Int /\ m \in Int
    BY <1>2, <1>3, <1>4, <1>5
  <2> HIDE DEF k, m
  <2> QED
    <3>1. stats'["interestsToFib"] = stats'["interestsFibForwarded"] + stats'["interestsFibNotForwarded"] + m
      BY <2>1, <2>2, <2>3 DEF Net, One
    <3> QED
      BY <3>1 DEF m
<1>11. stats'["RouteInputPacketsIn"] + stats'["RouteOutputPacketsIn"]
         = stats'["packetsOut"] + stats'["contentObjectsNotMatchedInPit"]
             + (Len(inputQueue') + Len(pitQueue') + Len(csQueue') + Len(fibQueue'))
  <2> DEFINE k == Len(inputQueue) + Len(pitQueue) + Len(csQueue) + Len(fibQueue)
             m == Len(inputQueue') + Len(pitQueue') + Len(csQueue') + Len(fibQueue')
  <2>1. \A x \in {"RouteInputPacketsIn", "RouteOutputPacketsIn", "packetsOut", "contentObjectsNotMatchedInPit"} :
          stats'[x] = stats[x] + One(x \in C) /\ stats[x] \in Nat
    BY <1>1 DEF Counters
  <2>2. /\ stats["RouteInputPacketsIn"] + stats["RouteOutputPacketsIn"]
             = stats["packetsOut"] + stats["contentObjectsNotMatchedInPit"] + k
        /\ m = k + One("RouteInputPacketsIn" \in C)
                 + Net(C, "RouteOutputPacketsIn", "packetsOut", "contentObjectsNotMatchedInPit")
    BY DEF Balanced, AsCounted
  <2>3. k \in Int /\ m \in Int
    BY <1>2, <1>4
  <2> HIDE DEF k, m
  <2>4. stats'["RouteInputPacketsIn"] + stats'["RouteOutputPacketsIn"]
         = stats'["packetsOut"] + stats'["contentObjectsNotMatchedInPit"] + m
    BY <2>1, <2>2, <2>3 DEF Net, One
  <2> QED
    BY <2>4 DEF m
<1> QED
  BY <1>6, <1>7, <1>8, <1>9, <1>10, <1>11 DEF Balanced

LEMMA BlindAsking == Asking \in SUBSET WorkItem /\ Blind(Asking)
BY DEF Asking, Blind, IsInterest

\* What joins or leaves a queue, as Balanced counts it.
LEMMA AskingJoins ==
  ASSUME NEW q, NEW r, NEW w \in WorkItem, Joined(q, r, w)
  PROVE  Len(r) = Len(q) + 1 /\ Number(r, Asking) = Number(q, Asking) + (IF IsInterest(w) THEN 1 ELSE 0)
BY BlindAsking DEF Joined, One, Asking

LEMMA AskingLeaves ==
  ASSUME NEW q, NEW r, NEW w \in WorkItem, Left(q, r, w)
  PROVE  Len(r) = Len(q) - 1 /\ Number(r, Asking) = Number(q, Asking) - (IF IsInterest(w) THEN 1 ELSE 0)
BY BlindAsking DEF Left, One, Asking

LEMMA BalancedStep == Typed /\ Balanced /\ [Working]_vars => Balanced'
<1> SUFFICES ASSUME Typed, Balanced, [Working]_vars PROVE Balanced'
  OBVIOUS
<1> DEFINE n(q) == Number(q, Asking)
<1>1. /\ stats \in [Counters -> Nat]
      /\ Len(inputQueue) \in Nat /\ Len(pitQueue) \in Nat /\ Len(csQueue) \in Nat /\ Len(fibQueue) \in Nat
      /\ n(pitQueue) \in Nat /\ n(csQueue) \in Nat /\ Typed'
  BY NumbersTyped, TypedStep DEF Typed, QueuesTyped
<1>2. ASSUME NEW w, Arrives(w) PROVE Balanced'
  <2>1. /\ Len(inputQueue') = Len(inputQueue) + 1 /\ UNCHANGED <<pitQueue, csQueue, fibQueue>>
        /\ Count({"RouteOutputPacketsIn"}) \/ Count({"RouteInputPacketsIn"})
    BY <1>2, ArrivesJoins DEF Joined, Arrives, Arrive
  <2>2. CASE Count({"RouteOutputPacketsIn"})
    <3>1. AsCounted({"RouteOutputPacketsIn"})
      BY <1>1, <2>1, <2>2 DEF AsCounted, Net, One
    <3> QED
      BY <1>1, <2>2, <3>1, BalancedIf
  <2>3. CASE Count({"RouteInputPacketsIn"})
    <3>1. AsCounted({"RouteInputPacketsIn"})
      BY <1>1, <2>1, <2>3 DEF AsCounted, Net, One
    <3> QED
      BY <1>1, <2>3, <3>1, BalancedIf
  <2> QED
    BY <2>1, <2>2, <2>3
<1>3. ASSUME NEW w, ServiceInputQueueMoves(w) PROVE Balanced'
  <2>1. /\ Len(inputQueue') = Len(inputQueue) - 1 /\ UNCHANGED <<csQueue, fibQueue>>
        /\ Len(pitQueue') = Len(pitQueue) + 1
        /\ n(pitQueue') = n(pitQueue) + (IF IsInterest(w) THEN 1 ELSE 0)
        /\ Count({IF IsInterest(w) THEN "interestsToPit" ELSE "contentObjectsToPit"})
    BY <1>3, ItemSets, AskingJoins, AskingLeaves DEF ServiceInputQueueMoves
  <2>2. CASE /\ Count({"interestsToPit"})
             /\ n(pitQueue') = n(pitQueue) + 1
    <3>1. AsCounted({"interestsToPit"})
      BY <1>1, <2>1, <2>2 DEF AsCounted, Net, One
    <3> QED
      BY <1>1, <2>2, <3>1, BalancedIf
  <2>3. CASE /\ Count({"contentObjectsToPit"})
             /\ n(pitQueue') = n(pitQueue)
    <3>1. AsCounted({"contentObjectsToPit"})
      BY <1>1, <2>1, <2>3 DEF AsCounted, Net, One
    <3> QED
      BY <1>1, <2>3, <3>1, BalancedIf
  <2>4. IsInterest(w) => Count({"interestsToPit"})
    BY <2>1, Zenon
  <2>5. ~IsInterest(w) => Count({"contentObjectsToPit"})
    BY <2>1, Zenon
  <2> QED
    BY <1>1, <2>1, <2>2, <2>3, <2>4, <2>5
<1>4. ASSUME NEW w, PitReceiveInterestMoves(w) PROVE Balanced'
  <2>1. /\ Len(pitQueue') = Len(pitQueue) - 1 /\ n(pitQueue') = n(pitQueue) - 1
        /\ UNCHANGED inputQueue
        /\ \/ Count({"interestsVerdictAggregate", "packetsOut"}) /\ UNCHANGED <<csQueue, fibQueue>>
           \/ /\ Count({"interestsVerdictForward", "interestsToContentStore"}) /\ UNCHANGED fibQueue
              /\ Len(csQueue') = Len(csQueue) + 1 /\ n(csQueue') = n(csQueue) + 1
           \/ /\ Count({"interestsVerdictForward", "interestsToFib"}) /\ UNCHANGED csQueue
              /\ Len(fibQueue') = Len(fibQueue) + 1
    BY <1>4, ItemSets, AskingJoins, AskingLeaves DEF PitReceiveInterestMoves
  <2>2. CASE /\ Count({"interestsVerdictAggregate", "packetsOut"})
             /\ UNCHANGED <<csQueue, fibQueue>>
    <3>1. AsCounted({"interestsVerdictAggregate", "packetsOut"})
      BY <1>1, <2>1, <2>2 DEF AsCounted, Net, One
    <3> QED
      BY <1>1, <2>2, <3>1, BalancedIf
  <2>3. CASE /\ Count({"interestsVerdictForward", "interestsToContentStore"})
             /\ Len(csQueue') = Len(csQueue) + 1 /\ n(csQueue') = n(csQueue) + 1
             /\ UNCHANGED fibQueue
    <3>1. AsCounted({"interestsVerdictForward", "interestsToContentStore"})
      BY SMTT(40), <1>1, <2>1, <2>3 DEF AsCounted, Net, One
    <3> QED
      BY <1>1, <2>3, <3>1, BalancedIf
  <2>4. CASE /\ Count({"interestsVerdictForward", "interestsToFib"})
             /\ Len(fibQueue') = Len(fibQueue) + 1
             /\ UNCHANGED csQueue
    <3>1. AsCounted({"interestsVerdictForward", "interestsToFib"})
      BY <1>1, <2>1, <2>4 DEF AsCounted, Net, One
    <3> QED
      BY <1>1, <2>4, <3>1, BalancedIf
  <2> QED
    BY <2>1, <2>2, <2>3, <2>4
<1>5. ASSUME NEW w, PitSatisfyInterestMoves(w) PROVE Balanced'
  <2>1. w \in WorkItem /\ ~IsInterest(w) /\ ~IsInterest(Routed(w, pitResult'.egress))
    BY <1>5, ItemSets DEF PitSatisfyInterestMoves, Routed, WorkItem, IsInterest
  <2>2. /\ Len(pitQueue') = Len(pitQueue) - 1 /\ n(pitQueue') = n(pitQueue)
        /\ UNCHANGED <<inputQueue, fibQueue>>
        /\ \/ Count({"contentObjectsNotMatchedInPit"}) /\ UNCHANGED csQueue
           \/ /\ Count({"contentObjectsMatchedInPit", "contentObjectsToContentStore"})
              /\ Len(csQueue') = Len(csQueue) + 1 /\ n(csQueue') = n(csQueue)
           \/ Count({"contentObjectsMatchedInPit", "packetsOut"}) /\ UNCHANGED csQueue
    BY <1>1, <1>5, <2>1, AskingJoins, AskingLeaves DEF PitSatisfyInterestMoves
  <2>3. CASE /\ Count({"contentObjectsNotMatchedInPit"})
             /\ UNCHANGED csQueue
    <3>1. AsCounted({"contentObjectsNotMatchedInPit"})
      BY <1>1, <2>2, <2>3 DEF AsCounted, Net, One
    <3> QED
      BY <1>1, <2>3, <3>1, BalancedIf
  <2>4. CASE /\ Count({"contentObjectsMatchedInPit", "contentObjectsToContentStore"})
             /\ Len(csQueue') = Len(csQueue) + 1 /\ n(csQueue') = n(csQueue)
    <3>1. AsCounted({"contentObjectsMatchedInPit", "contentObjectsToContentStore"})
      BY <1>1, <2>2, <2>4 DEF AsCounted, Net, One
    <3> QED
      BY <1>1, <2>4, <3>1, BalancedIf
  <2>5. CASE /\ Count({"contentObjectsMatchedInPit", "packetsOut"})
             /\ UNCHANGED csQueue
    <3>1. AsCounted({"contentObjectsMatchedInPit", "packetsOut"})
      BY <1>1, <2>2, <2>5 DEF AsCounted, Net, One
    <3> QED
      BY <1>1, <2>5, <3>1, BalancedIf
  <2> QED
    BY <2>2, <2>3, <2>4, <2>5
<1>6. ASSUME NEW w, CsMatchInterestMoves(w) PROVE Balanced'
  <2>1. w \in WorkItem /\ IsInterest(w) /\ ~IsInterest(ContentItem(w.id, w.packet, NoConnection))
    BY <1>6, ItemSets DEF CsMatchInterestMoves, ContentItem, IsInterest
  <2>2. /\ Len(csQueue') = Len(csQueue) - 1 /\ n(csQueue') = n(csQueue) - 1
        /\ UNCHANGED inputQueue
        /\ \/ /\ Count({"interestsContentStoreHits", "contentObjectsToPit"}) /\ UNCHANGED fibQueue
              /\ Len(pitQueue') = Len(pitQueue) + 1 /\ n(pitQueue') = n(pitQueue)
           \/ /\ Count({"interestsContentStoreMisses", "interestsToFib"}) /\ UNCHANGED pitQueue
              /\ Len(fibQueue') = Len(fibQueue) + 1
    BY <1>1, <1>6, <2>1, AskingJoins, AskingLeaves DEF CsMatchInterestMoves
  <2>3. CASE /\ Count({"interestsContentStoreHits", "contentObjectsToPit"})
             /\ Len(pitQueue') = Len(pitQueue) + 1 /\ n(pitQueue') = n(pitQueue)
             /\ UNCHANGED fibQueue
    <3>1. AsCounted({"interestsContentStoreHits", "contentObjectsToPit"})
      BY <1>1, <2>2, <2>3 DEF AsCounted, Net, One
    <3> QED
      BY <1>1, <2>3, <3>1, BalancedIf
  <2>4. CASE /\ Count({"interestsContentStoreMisses", "interestsToFib"})
             /\ Len(fibQueue') = Len(fibQueue) + 1
             /\ UNCHANGED pitQueue
    <3>1. AsCounted({"interestsContentStoreMisses", "interestsToFib"})
      BY <1>1, <2>2, <2>4 DEF AsCounted, Net, One
    <3> QED
      BY <1>1, <2>4, <3>1, BalancedIf
  <2> QED
    BY <2>2, <2>3, <2>4
<1>7. ASSUME NEW w, CsAddContentObjectMoves(w) PROVE Balanced'
  <2>1. /\ Len(csQueue') = Len(csQueue) - 1 /\ n(csQueue') = n(csQueue)
        /\ UNCHANGED <<inputQueue, pitQueue, fibQueue>>
        /\ \/ Count({"packetsOut", "contentObjectsAddedToContentStore"})
           \/ Count({"packetsOut", "contentObjectsNotAddedToContentStore"})
    BY <1>1, <1>7, ItemSets, AskingLeaves DEF CsAddContentObjectMoves
  <2>2. CASE Count({"packetsOut", "contentObjectsAddedToContentStore"})
    <3>1. AsCounted({"packetsOut", "contentObjectsAddedToContentStore"})
      BY <1>1, <2>1, <2>2 DEF AsCounted, Net, One
    <3> QED
      BY <1>1, <2>2, <3>1, BalancedIf
  <2>3. CASE Count({"packetsOut", "contentObjectsNotAddedToContentStore"})
    <3>1. AsCounted({"packetsOut", "contentObjectsNotAddedToContentStore"})
      BY <1>1, <2>1, <2>3 DEF AsCounted, Net, One
    <3> QED
      BY <1>1, <2>3, <3>1, BalancedIf
  <2> QED
    BY <2>1, <2>2, <2>3
<1>8. ASSUME NEW w, FibLookupMoves(w) PROVE Balanced'
  <2>1. /\ Len(fibQueue') = Len(fibQueue) - 1 /\ UNCHANGED <<inputQueue, pitQueue, csQueue>>
        /\ \/ Count({"packetsOut", "interestsFibForwarded"})
           \/ Count({"packetsOut", "interestsFibNotForwarded"})
    BY <1>8 DEF FibLookupMoves, Left
  <2>2. CASE Count({"packetsOut", "interestsFibForwarded"})
    <3>1. AsCounted({"packetsOut", "interestsFibForwarded"})
      BY <1>1, <2>1, <2>2 DEF AsCounted, Net, One
    <3> QED
      BY <1>1, <2>2, <3>1, BalancedIf
  <2>3. CASE Count({"packetsOut", "interestsFibNotForwarded"})
    <3>1. AsCounted({"packetsOut", "interestsFibNotForwarded"})
      BY <1>1, <2>1, <2>3 DEF AsCounted, Net, One
    <3> QED
      BY <1>1, <2>3, <3>1, BalancedIf
  <2> QED
    BY <2>1, <2>2, <2>3
<1>9. CASE Tick \/ Untouched
  BY <1>9 DEF Tick, Untouched, Balanced
<1> QED
  BY <1>2, <1>3, <1>4, <1>5, <1>6, <1>7, <1>8, <1>9, Moves

LEMMA ConservedInit == Init => Conserved /\ Balanced
<1> SUFFICES ASSUME Init PROVE Conserved /\ Balanced
  OBVIOUS
<1>1. /\ inputQueue = <<>> /\ pitQueue = <<>> /\ csQueue = <<>> /\ fibQueue = <<>>
      /\ arrived = 0 /\ done = {} /\ stats = [s \in Counters |-> 0]
  BY DEF Init, Empty
<1>2. \A S : /\ Number(inputQueue, S) = 0 /\ Number(pitQueue, S) = 0
             /\ Number(csQueue, S) = 0 /\ Number(fibQueue, S) = 0
  BY <1>1, NumberEmpty
<1>3. Conserved
  <2>1. \A id \in 1 .. MaxPackets : Inside(Ids(id)) = 0 /\ ~(id <= arrived)
    BY <1>1, <1>2, BoundsAssumption DEF Inside
  <2> QED
    BY <1>1, <2>1 DEF Conserved, One
<1>4. Balanced
  <2>1. \A x \in Counters : stats[x] = 0
    BY <1>1
  <2>2. /\ Len(inputQueue) = 0 /\ Len(pitQueue) = 0 /\ Len(csQueue) = 0 /\ Len(fibQueue) = 0
    BY <1>1
  <2> QED
    BY <1>2, <2>1, <2>2 DEF Balanced, Counters
<1> QED
  BY <1>3, <1>4

LEMMA ConservedAlways == Works => [](Conserved /\ Balanced)
<1>1. Typed /\ Conserved /\ Balanced /\ [Working]_vars => Conserved' /\ Balanced'
  BY ConservedStep, BalancedStep
<1> QED
  BY <1>1, ConservedInit, TypedAlways, PTL DEF Works

LEMMA WorksConserved == Works => []PacketsConserved
<1>1. Typed /\ Conserved /\ Balanced => PacketsConserved
  <2> SUFFICES ASSUME Typed, Conserved, Balanced PROVE InOneQueue /\ StatisticsAddUp
    BY DEF PacketsConserved
  <2> DEFINE items == inputQueue \o pitQueue \o csQueue \o fibQueue
  <2>1. /\ inputQueue \in Seq(WorkItem) /\ pitQueue \in Seq(WorkItem)
        /\ csQueue \in Seq(WorkItem) /\ fibQueue \in Seq(WorkItem)
        /\ arrived \in 0 .. MaxPackets /\ MaxPackets \in Nat
    BY ItemSets, BoundsAssumption DEF Typed, QueuesTyped
  <2>2. /\ items \in Seq(WorkItem)
        /\ Len(items) = Len(inputQueue) + Len(pitQueue) + Len(csQueue) + Len(fibQueue)
    BY <2>1
  <2>3. ASSUME NEW S PROVE Number(items, S) = Inside(S)
    <3>1. inputQueue \o pitQueue \in Seq(WorkItem) /\ inputQueue \o pitQueue \o csQueue \in Seq(WorkItem)
      BY <2>1
    <3>2. Number(inputQueue \o pitQueue, S) = Number(inputQueue, S) + Number(pitQueue, S)
      BY <2>1, NumberConcat
    <3>3. Number(inputQueue \o pitQueue \o csQueue, S) = Number(inputQueue \o pitQueue, S) + Number(csQueue, S)
      BY <2>1, <3>1, NumberConcat
    <3>4. Number(items, S) = Number(inputQueue \o pitQueue \o csQueue, S) + Number(fibQueue, S)
      BY <2>1, <3>1, NumberConcat
    <3> HIDE DEF items
    <3> QED
      BY <3>2, <3>3, <3>4 DEF Inside
  <2> HIDE DEF items
  <2>4. InOneQueue
    <3>1. ASSUME NEW id \in 1 .. arrived
          PROVE  Cardinality({i \in DOMAIN items : items[i].id = id}) = IF id \in done THEN 0 ELSE 1
      <4>1. {i \in DOMAIN items : items[i].id = id} = {i \in DOMAIN items : items[i] \in Ids(id)}
        <5>1. \A i \in DOMAIN items : items[i] \in WorkItem
          BY <2>2
        <5> QED
          BY <5>1 DEF Ids
      <4>2. id \in 1 .. MaxPackets /\ id <= arrived
        BY <2>1
      <4>3. Inside(Ids(id)) = One(id \notin done)
        BY <4>2 DEF Conserved
      <4> QED
        BY <2>3, <4>1, <4>3 DEF Number, One
    <3> QED
      BY <3>1 DEF InOneQueue, items
  <2>5. StatisticsAddUp
    <3>1. ASSUME NEW q \in Seq(WorkItem)
          PROVE  Cardinality({i \in DOMAIN q : IsInterest(q[i])}) = Number(q, Asking)
      <4>1. {i \in DOMAIN q : IsInterest(q[i])} = {i \in DOMAIN q : q[i] \in Asking}
        BY DEF Asking
      <4> QED
        BY <4>1 DEF Number
    <3>2. /\ Cardinality({i \in DOMAIN pitQueue : IsInterest(pitQueue[i])}) = Number(pitQueue, Asking)
          /\ Cardinality({i \in DOMAIN csQueue : IsInterest(csQueue[i])}) = Number(csQueue, Asking)
      BY <2>1, <3>1
    <3>3. Len(inputQueue \o pitQueue \o csQueue \o fibQueue)
            = Len(inputQueue) + Len(pitQueue) + Len(csQueue) + Len(fibQueue)
      BY <2>2 DEF items
    <3> QED
      BY <3>2, <3>3, Zenon DEF StatisticsAddUp, Balanced
  <2> QED
    BY <2>4, <2>5
<1> QED
  BY <1>1, TypedAlways, ConservedAlways, PTL

\* Whatever the tables answer and in whatever order the servers of the queues end, a packet
\* is in one queue until the forwarder is through with it, and the statistics add up: for
\* any number of packets and of servers.
THEOREM NoPacketIsLost == Spec => []PacketsConserved
BY WorksConserved, SpecWorks, PTL

-----------------------------------------------------------------------------
(* What the PIT does to the connections that wait *)

LEMMA ReceiveRoutes ==
  ASSUME PP!IInv, NEW key \in PP!Keys, NEW ingress \in Connections, NEW lifetime \in Nat,
         PP!ReceiveInterest(key, FALSE, ingress, lifetime)
  PROVE  /\ pit'[key].routes \subseteq pit[key].routes \cup {ingress}
         /\ \A k \in PP!Keys \ {key} : pit'[k] = pit[k]
         /\ pitResult'.verdict = "Aggregate" => pit[key].routes # {}
<1> DEFINE e == PP!Cleaned(PP!Extend(pit[key], now + lifetime))
<1>1. pit \in [PP!Keys -> PP!Entry]
  BY DEF PP!IInv, PP!TypeOK
<1>2. e.routes \subseteq pit[key].routes
  <2>1. pit[key] \in PP!Entry
    BY <1>1
  <2>2. PP!Extend(pit[key], now + lifetime).routes = pit[key].routes
    BY <2>1 DEF PP!Extend, PP!Entry
  <2>3. PP!NewEntry.routes = {}
    BY DEF PP!NewEntry
  <2> QED
    BY <2>2, <2>3 DEF PP!Cleaned
<1>3. /\ pit' = [pit EXCEPT ![key] = [e EXCEPT !.routes = @ \cup {ingress}]]
      /\ pitResult'.verdict = PP!Verdict(e, ingress)
  BY DEF PP!ReceiveInterest, PP!EntryFor
<1>4. e \in PP!Entry
  <2>1. pit[key] \in PP!Entry /\ now \in Nat /\ now + lifetime \in Nat
    BY <1>1 DEF PP!IInv, PP!TypeOK
  <2>2. PP!Extend(pit[key], now + lifetime) \in PP!Entry
    BY <2>1, PP!EntryTypes, PitAssumptions
  <2> QED
    BY <2>1, <2>2, PP!EntryTypes, PitAssumptions
<1> HIDE DEF e
<1>5. pit'[key].routes = e.routes \cup {ingress}
  BY <1>1, <1>3, <1>4 DEF PP!Entry
<1>6. PP!Verdict(e, ingress) = "Aggregate" => e.routes # {}
  BY DEF PP!Verdict
<1> QED
  BY <1>1, <1>2, <1>3, <1>5, <1>6

LEMMA SatisfyRoutes ==
  ASSUME PP!IInv, NEW name \in Names \cup {NoName}, NEW hash \in Hashes \cup {NullHash}, NEW ingress,
         PP!SatisfyInterest(name, hash, ingress)
  PROVE  /\ \A k \in PP!Keys : IF k \in {name, hash} THEN pit'[k].routes = {} ELSE pit'[k] = pit[k]
         /\ \A c \in pitResult'.egress : \E k \in PP!Keys : c \in pit[k].routes /\ pit'[k].routes = {}
<1> DEFINE keys == {name, hash} \cap PP!Keys
<1>1. /\ pit' = [k \in PP!Keys |-> IF k \in keys THEN PP!Removed(PP!Satisfied(pit[k], ingress)) ELSE pit[k]]
      /\ pitResult'.egress = UNION {PP!Answer(pit[k], ingress) : k \in keys}
  BY DEF PP!SatisfyInterest, PP!ContentKeys
<1>2. pit \in [PP!Keys -> PP!Entry]
  BY DEF PP!IInv, PP!TypeOK
<1>3. ASSUME NEW k \in keys PROVE PP!Removed(PP!Satisfied(pit[k], ingress)).routes = {}
  <2>1. pit[k] \in PP!Entry /\ PP!NewEntry.routes = {}
    BY <1>2 DEF PP!NewEntry
  <2>2. CASE PP!IsExpired(pit[k])
    BY <2>1, <2>2 DEF PP!Removed, PP!Satisfied, PP!LiveRoutes
  <2>3. CASE ~PP!IsExpired(pit[k])
    <3> DEFINE e == [pit[k] EXCEPT !.routes = {}]
    <3>1. e.routes = {} /\ PP!Satisfied(pit[k], ingress) = e
      BY <2>1, <2>3 DEF PP!Satisfied, PP!Entry
    <3> HIDE DEF e
    <3> QED
      BY <2>1, <3>1 DEF PP!Removed
  <2> QED
    BY <2>2, <2>3
<1>4. \A k \in keys : PP!Answer(pit[k], ingress) \subseteq pit[k].routes
  BY DEF PP!Answer, PP!LiveRoutes
<1>5. \A k \in PP!Keys : IF k \in {name, hash} THEN pit'[k].routes = {} ELSE pit'[k] = pit[k]
  BY <1>1, <1>3
<1>6. ASSUME NEW c \in pitResult'.egress
      PROVE  \E k \in PP!Keys : c \in pit[k].routes /\ pit'[k].routes = {}
  <2>1. PICK k \in keys : c \in PP!Answer(pit[k], ingress)
    BY <1>1
  <2> QED
    BY <2>1, <1>4, <1>5
<1> QED
  BY <1>5, <1>6

-----------------------------------------------------------------------------
(* Nobody is paid twice *)

\* The keys a connection waits for, the Interests of it that the PIT has not seen, and the
\* content objects that are for it.
Keyed(c)   == {k \in PP!Keys : c \in pit[k].routes}
From(c)    == {w \in WorkItem : IsInterest(w) /\ w.ingress = c}
Towards(c) == {w \in WorkItem : ~IsInterest(w) /\ c \in w.route}

\* Every content object that is for a connection, and every key it waits for, has an Interest
\* of the connection to itself, and so has each Interest on its way to the PIT.
Covered ==
  \A c \in Connections :
    /\ IsFiniteSet(Keyed(c))
    /\ owed[c] >= Cardinality(Keyed(c)) + Number(inputQueue, From(c)) + Number(pitQueue, From(c))
                    + Number(csQueue, Towards(c))

LEMMA BlindFrom ==
  ASSUME NEW c
  PROVE  /\ From(c) \in SUBSET WorkItem /\ Blind(From(c))
         /\ Towards(c) \in SUBSET WorkItem /\ Blind(Towards(c))
BY DEF From, Towards, Blind, IsInterest

LEMMA FromJoins ==
  ASSUME NEW q, NEW r, NEW w \in WorkItem, Joined(q, r, w), NEW c
  PROVE  /\ Number(r, From(c)) = Number(q, From(c)) + (IF IsInterest(w) /\ w.ingress = c THEN 1 ELSE 0)
         /\ Number(r, Towards(c)) = Number(q, Towards(c)) + (IF ~IsInterest(w) /\ c \in w.route THEN 1 ELSE 0)
<1>1. /\ Number(r, From(c)) = Number(q, From(c)) + One(w \in From(c))
      /\ Number(r, Towards(c)) = Number(q, Towards(c)) + One(w \in Towards(c))
  BY BlindFrom DEF Joined
<1>2. w \in From(c) <=> IsInterest(w) /\ w.ingress = c
  BY DEF From
<1>3. w \in Towards(c) <=> ~IsInterest(w) /\ c \in w.route
  BY DEF Towards
<1> QED
  BY <1>1, <1>2, <1>3 DEF One

LEMMA FromLeaves ==
  ASSUME NEW q, NEW r, NEW w \in WorkItem, Left(q, r, w), NEW c
  PROVE  /\ Number(r, From(c)) = Number(q, From(c)) - (IF IsInterest(w) /\ w.ingress = c THEN 1 ELSE 0)
         /\ Number(r, Towards(c)) = Number(q, Towards(c)) - (IF ~IsInterest(w) /\ c \in w.route THEN 1 ELSE 0)
<1>1. /\ Number(r, From(c)) = Number(q, From(c)) - One(w \in From(c))
      /\ Number(r, Towards(c)) = Number(q, Towards(c)) - One(w \in Towards(c))
  BY BlindFrom DEF Left
<1>2. w \in From(c) <=> IsInterest(w) /\ w.ingress = c
  BY DEF From
<1>3. w \in Towards(c) <=> ~IsInterest(w) /\ c \in w.route
  BY DEF Towards
<1> QED
  BY <1>1, <1>2, <1>3 DEF One

LEMMA KeyedGrows ==
  ASSUME NEW S, NEW T, NEW k, IsFiniteSet(S), T \subseteq S \cup {k}
  PROVE  /\ IsFiniteSet(T) /\ Cardinality(T) \in Nat /\ Cardinality(S) \in Nat
         /\ Cardinality(T) <= Cardinality(S) + 1
         /\ T \subseteq S => Cardinality(T) <= Cardinality(S)
         /\ T \subseteq S /\ k \in S /\ k \notin T => Cardinality(T) <= Cardinality(S) - 1
<1>1. IsFiniteSet(S \cup {k}) /\ Cardinality(S) \in Nat /\ Cardinality(S \cup {k}) \in Nat
  BY FS_AddElement, FS_CardinalityType
<1>2. IsFiniteSet(T) /\ Cardinality(T) <= Cardinality(S \cup {k})
  BY <1>1, FS_Subset
<1>3. Cardinality(T) \in Nat
  BY <1>2, FS_CardinalityType
<1>4. Cardinality(S \cup {k}) <= Cardinality(S) + 1
  BY <1>1, FS_AddElement
<1>5. T \subseteq S => Cardinality(T) <= Cardinality(S)
  BY FS_Subset
<1>6. ASSUME T \subseteq S, k \in S, k \notin T PROVE Cardinality(T) <= Cardinality(S) - 1
  <2>1. IsFiniteSet(S \ {k}) /\ Cardinality(S \ {k}) = Cardinality(S) - 1
    BY <1>6, FS_RemoveElement
  <2>2. T \subseteq S \ {k}
    BY <1>6
  <2> QED
    BY <2>1, <2>2, FS_Subset
<1> QED
  BY <1>1, <1>2, <1>3, <1>4, <1>5, <1>6

\* What FinishRouteLookup takes off what a connection is owed.
LEMMA FinishPays ==
  ASSUME owed \in [Connections -> Int], NEW c \in Connections, NEW w, NEW route, w.egress = NoConnection,
         FinishRouteLookup(w, route)
  PROVE  owed'[c] = owed[c] - (IF ~IsInterest(w) /\ c \in route THEN 1 ELSE 0)
BY DEF FinishRouteLookup, Outputs

LEMMA FinishInterestPays ==
  ASSUME NEW w, NEW route, IsInterest(w), FinishRouteLookup(w, route)
  PROVE  owed' = owed
BY DEF FinishRouteLookup

\* One connection: what it is owed, the keys it waits for, its Interests before the PIT, and
\* what is for it.
CoveredFor(c) ==
  /\ IsFiniteSet(Keyed(c))
  /\ owed[c] >= Cardinality(Keyed(c)) + Number(inputQueue, From(c)) + Number(pitQueue, From(c))
                  + Number(csQueue, Towards(c))

LEMMA CoveredStep == Typed /\ Covered /\ [Working]_vars => Covered'
<1> SUFFICES ASSUME Typed, Covered, [Working]_vars, NEW c \in Connections
             PROVE  CoveredFor(c)'
  BY DEF Covered, CoveredFor
<1> DEFINE K == Cardinality(Keyed(c))
           I == Number(inputQueue, From(c))
           Q == Number(pitQueue, From(c))
           S == Number(csQueue, Towards(c))
<1>1. /\ IsFiniteSet(Keyed(c)) /\ K \in Nat /\ owed[c] >= K + I + Q + S
      /\ I \in Nat /\ Q \in Nat /\ S \in Nat /\ owed[c] \in Int /\ owed \in [Connections -> Int]
  BY NumbersTyped, FS_CardinalityType DEF Covered, Typed, QueuesTyped
<1>2. pit' = pit => IsFiniteSet(Keyed(c))' /\ K' = K
  BY <1>1 DEF Keyed
<1>3. Typed' /\ I' \in Nat /\ Q' \in Nat /\ S' \in Nat
  BY TypedStep, NumbersTypedNext DEF From, Towards
<1>4. ASSUME NEW w, Arrives(w) PROVE CoveredFor(c)'
  <2>1. /\ w \in WorkItem /\ Joined(inputQueue, inputQueue', w) /\ w.ingress \in Connections
        /\ UNCHANGED <<pitQueue, csQueue, pit>>
        /\ owed' = IF IsInterest(w) THEN [owed EXCEPT ![w.ingress] = @ + 1] ELSE owed
    BY <1>4, ArrivesJoins DEF Arrives, Arrive, pitVars
  <2>2. Number(inputQueue', From(c)) = I + (IF IsInterest(w) /\ w.ingress = c THEN 1 ELSE 0)
    BY <2>1, FromJoins
  <2>3. owed'[c] = owed[c] + (IF IsInterest(w) /\ w.ingress = c THEN 1 ELSE 0)
    BY <1>1, <2>1
  <2> QED
    BY <1>1, <1>2, <2>1, <2>2, <2>3 DEF CoveredFor, From, Towards
<1>5. ASSUME NEW w, ServiceInputQueueMoves(w) PROVE CoveredFor(c)'
  <2>1. /\ w \in WorkItem /\ Left(inputQueue, inputQueue', w) /\ Joined(pitQueue, pitQueue', w)
        /\ UNCHANGED <<csQueue, pit, owed>>
    BY <1>5, ItemSets DEF ServiceInputQueueMoves, pitVars
  <2>2. /\ Number(inputQueue', From(c)) = I - (IF IsInterest(w) /\ w.ingress = c THEN 1 ELSE 0)
        /\ Number(pitQueue', From(c)) = Q + (IF IsInterest(w) /\ w.ingress = c THEN 1 ELSE 0)
    BY <2>1, FromJoins, FromLeaves
  <2> QED
    BY <1>1, <1>2, <2>1, <2>2 DEF CoveredFor, From, Towards
<1>6. ASSUME NEW w, PitReceiveInterestMoves(w) PROVE CoveredFor(c)'
  <2>1. /\ w \in WorkItem /\ Left(pitQueue, pitQueue', w) /\ UNCHANGED <<inputQueue, owed>>
        /\ IsInterest(w) /\ w.interest \in Interests /\ w.ingress \in Connections
        /\ Joined(csQueue, csQueue', w) \/ UNCHANGED csQueue
    BY <1>6, ItemSets, FinishInterestPays
       DEF PitReceiveInterestMoves, Continue, Waiting, WorkItem, IsInterest
  <2>2. /\ Number(pitQueue', From(c)) = Q - (IF w.ingress = c THEN 1 ELSE 0)
        /\ Number(csQueue', Towards(c)) = S
    BY <1>1, <2>1, FromJoins, FromLeaves
  <2>3. /\ Key(w.interest) \in PP!Keys /\ w.interest.lifetime \in Nat
        /\ PP!ReceiveInterest(Key(w.interest), FALSE, w.ingress, w.interest.lifetime)
    BY <1>6, <2>1, KeyTypes DEF PP!Keys, PitReceiveInterestMoves
  <2>4. /\ pit'[Key(w.interest)].routes \subseteq pit[Key(w.interest)].routes \cup {w.ingress}
        /\ \A k \in PP!Keys \ {Key(w.interest)} : pit'[k] = pit[k]
    <3> DEFINE key == Key(w.interest)
               lifetime == w.interest.lifetime
    <3>1. /\ PP!IInv /\ key \in PP!Keys /\ w.ingress \in Connections /\ lifetime \in Nat
          /\ PP!ReceiveInterest(key, FALSE, w.ingress, lifetime)
      BY <2>1, <2>3 DEF Typed
    <3> HIDE DEF key, lifetime
    <3>2. /\ pit'[key].routes \subseteq pit[key].routes \cup {w.ingress}
          /\ \A k \in PP!Keys \ {key} : pit'[k] = pit[k]
      BY <3>1, ReceiveRoutes
    <3> QED
      BY <3>2 DEF key
  <2>5. Keyed(c)' \subseteq Keyed(c) \cup {Key(w.interest)} /\ (w.ingress # c => Keyed(c)' \subseteq Keyed(c))
    BY <2>3, <2>4 DEF Keyed
  <2>6. /\ IsFiniteSet(Keyed(c)') /\ Cardinality(Keyed(c)') \in Nat
        /\ Cardinality(Keyed(c)') <= K + (IF w.ingress = c THEN 1 ELSE 0)
    <3>1. IsFiniteSet(Keyed(c)') /\ Cardinality(Keyed(c)') \in Nat /\ Cardinality(Keyed(c)') <= K + 1
      BY <1>1, <2>5, KeyedGrows
    <3>2. CASE w.ingress = c
      BY <3>1, <3>2
    <3>3. CASE w.ingress # c
      <4>1. Cardinality(Keyed(c)') <= K
        BY <1>1, <2>5, <3>3, KeyedGrows
      <4> QED
        BY <1>1, <3>1, <3>3, <4>1
    <3> QED
      BY <3>2, <3>3
  <2> HIDE DEF K
  <2>7. IsFiniteSet(Keyed(c))' /\ K' = Cardinality(Keyed(c)')
    BY <2>6 DEF K
  <2>8. owed[c] >= Cardinality(Keyed(c)') + I + Number(pitQueue', From(c)) + Number(csQueue', Towards(c))
    BY <1>1, <2>2, <2>6
  <2> QED
    BY <2>1, <2>7, <2>8 DEF CoveredFor, From, Towards
<1>7. ASSUME NEW w, PitSatisfyInterestMoves(w) PROVE CoveredFor(c)'
  <2> DEFINE route == pitResult'.egress
             v == Routed(w, route)
  <2>1. /\ w \in WorkItem /\ Left(pitQueue, pitQueue', w) /\ UNCHANGED <<inputQueue, fibQueue>>
        /\ ~IsInterest(w) /\ w.packet \in Packets /\ w.egress = NoConnection
        /\ PP!SatisfyInterest(w.packet.name, w.packet.hash, w.ingress)
    BY <1>7, ItemSets DEF PitSatisfyInterestMoves, Waiting
  <2>2. Number(pitQueue', From(c)) = Q
    BY <1>1, <2>1, FromLeaves
  <2>3. w.packet.name \in Names \cup {NoName} /\ w.packet.hash \in Hashes \cup {NullHash}
    BY <2>1, KeyTypes
  <2>4. /\ \A k \in PP!Keys : pit'[k].routes = {} \/ pit'[k] = pit[k]
        /\ \A d \in route : \E k \in PP!Keys : d \in pit[k].routes /\ pit'[k].routes = {}
    BY <2>1, <2>3, SatisfyRoutes DEF Typed
  <2>5. Keyed(c)' \subseteq Keyed(c) /\ (c \in route => \E k \in Keyed(c) : k \notin Keyed(c)')
    BY <2>4 DEF Keyed
  <2> DEFINE d == IF c \in route THEN 1 ELSE 0
  <2>6. IsFiniteSet(Keyed(c)') /\ Cardinality(Keyed(c)') \in Nat /\ Cardinality(Keyed(c)') <= K - d
    <3>1. CASE c \in route
      <4>1. PICK k \in Keyed(c) : k \notin Keyed(c)'
        BY <2>5, <3>1
      <4> QED
        BY <1>1, <2>5, <3>1, <4>1, KeyedGrows
    <3>2. CASE c \notin route
      <4>1. Keyed(c)' \subseteq Keyed(c) \cup {c}
        BY <2>5
      <4>2. IsFiniteSet(Keyed(c)') /\ Cardinality(Keyed(c)') \in Nat /\ Cardinality(Keyed(c)') <= K
        BY <1>1, <2>5, <4>1, KeyedGrows
      <4> QED
        BY <1>1, <3>2, <4>2
    <3> QED
      BY <3>1, <3>2
  <2>7. owed'[c] - Number(csQueue', Towards(c)) >= owed[c] - S - d /\ owed'[c] \in Int
        /\ Number(csQueue', Towards(c)) \in Nat
    <3>1. CASE owed' = owed /\ csQueue' = csQueue
      BY <1>1, <3>1
    <3>2. CASE FinishRouteLookup(w, route) /\ csQueue' = csQueue
      <4>1. owed'[c] = owed[c] - d
        BY <1>1, <2>1, <3>2, FinishPays
      <4> QED
        BY <1>1, <3>2, <4>1
    <3>3. CASE owed' = owed /\ v \in WorkItem /\ Joined(csQueue, csQueue', v)
      <4>1. ~IsInterest(v) /\ v.route = route
        BY <2>1 DEF Routed, WorkItem, IsInterest
      <4> HIDE DEF v, route
      <4>2. Number(csQueue', Towards(c)) = S + (IF c \in route THEN 1 ELSE 0)
        BY <3>3, <4>1, FromJoins
      <4> QED
        BY <1>1, <3>3, <4>2 DEF route
    <3> QED
      BY <1>7, <3>1, <3>2, <3>3 DEF PitSatisfyInterestMoves, Drop, Continue
  <2> HIDE DEF d, K
  <2>8. d \in Int
    BY DEF d
  <2>9. owed'[c] >= Cardinality(Keyed(c)') + I + Number(pitQueue', From(c)) + Number(csQueue', Towards(c))
    BY <1>1, <2>2, <2>6, <2>7, <2>8
  <2> QED
    BY <2>1, <2>6, <2>9 DEF CoveredFor, From, Towards
<1>8. ASSUME NEW w, CsMatchInterestMoves(w) PROVE CoveredFor(c)'
  <2> DEFINE v == ContentItem(w.id, w.packet, NoConnection)
  <2>1. /\ w \in WorkItem /\ IsInterest(w) /\ Left(csQueue, csQueue', w) /\ UNCHANGED <<inputQueue, pit, owed>>
        /\ (v \in WorkItem /\ Joined(pitQueue, pitQueue', v)) \/ UNCHANGED pitQueue
    BY <1>8, ItemSets DEF CsMatchInterestMoves, Continue, pitVars
  <2>2. ~IsInterest(v)
    BY DEF ContentItem, IsInterest
  <2> HIDE DEF v
  <2>3. Number(pitQueue', From(c)) = Q /\ Number(csQueue', Towards(c)) = S
    BY <1>1, <2>1, <2>2, FromJoins, FromLeaves
  <2> QED
    BY <1>1, <1>2, <2>1, <2>3 DEF CoveredFor, From, Towards
<1>9. ASSUME NEW w, CsAddContentObjectMoves(w) PROVE CoveredFor(c)'
  <2>1. /\ w \in WorkItem /\ ~IsInterest(w) /\ Left(csQueue, csQueue', w)
        /\ UNCHANGED <<inputQueue, pitQueue, pit>>
        /\ w.egress = NoConnection /\ FinishRouteLookup(w, w.route)
    BY <1>9, ItemSets DEF CsAddContentObjectMoves, InStore, pitVars
  <2>2. Number(csQueue', Towards(c)) = S - (IF c \in w.route THEN 1 ELSE 0)
    BY <2>1, FromLeaves
  <2>3. owed'[c] = owed[c] - (IF c \in w.route THEN 1 ELSE 0)
    BY <1>1, <2>1, FinishPays
  <2> QED
    BY <1>1, <1>2, <2>1, <2>2, <2>3 DEF CoveredFor, From, Towards
<1>10. ASSUME NEW w, FibLookupMoves(w) PROVE CoveredFor(c)'
  <2>1. UNCHANGED <<inputQueue, pitQueue, csQueue, pit, owed>>
    BY <1>10, FinishInterestPays DEF FibLookupMoves, Seeking, pitVars
  <2> QED
    BY <1>1, <1>2, <2>1 DEF CoveredFor, From, Towards
<1>11. CASE Tick \/ Untouched
  <2>1. UNCHANGED <<inputQueue, pitQueue, csQueue, pit, owed>>
    BY <1>11 DEF Tick, P!Tick, Untouched, pitVars
  <2> QED
    BY <1>1, <1>2, <2>1 DEF CoveredFor, From, Towards
<1> QED
  BY <1>4, <1>5, <1>6, <1>7, <1>8, <1>9, <1>10, <1>11, Moves

LEMMA CoveredInit == Init => Covered
<1> SUFFICES ASSUME Init, NEW c \in Connections
             PROVE  CoveredFor(c)
  BY DEF Covered, CoveredFor
<1>1. /\ inputQueue = <<>> /\ pitQueue = <<>> /\ csQueue = <<>>
      /\ owed[c] = 0 /\ \A k \in P!Keys : pit[k].routes = {}
  BY DEF Init, Empty, P!Init, P!NewEntry
<1>2. Keyed(c) = {}
  BY <1>1 DEF Keyed, P!Keys, PP!Keys
<1>3. \A S : Number(inputQueue, S) = 0 /\ Number(pitQueue, S) = 0 /\ Number(csQueue, S) = 0
  BY <1>1, NumberEmpty
<1>4. IsFiniteSet(Keyed(c)) /\ Cardinality(Keyed(c)) = 0
  BY <1>2, FS_EmptySet
<1> QED
  BY <1>1, <1>3, <1>4 DEF CoveredFor

LEMMA WorksNeverOverpaid == Works => []NeverOverpaid
<1>1. Typed /\ Covered => NeverOverpaid
  <2> SUFFICES ASSUME Typed, Covered, NEW c \in Connections PROVE owed[c] >= 0
    BY DEF NeverOverpaid
  <2>1. /\ Cardinality(Keyed(c)) \in Nat /\ Number(inputQueue, From(c)) \in Nat
        /\ Number(pitQueue, From(c)) \in Nat /\ Number(csQueue, Towards(c)) \in Nat
    BY NumbersTyped, FS_CardinalityType DEF Covered
  <2>2. /\ owed[c] \in Int
        /\ owed[c] >= Cardinality(Keyed(c)) + Number(inputQueue, From(c)) + Number(pitQueue, From(c))
                        + Number(csQueue, Towards(c))
    BY DEF Covered, Typed, QueuesTyped
  <2> QED
    BY <2>1, <2>2
<1> QED
  BY <1>1, CoveredInit, CoveredStep, TypedAlways, PTL DEF Works

\* A connection is not sent more content objects than it has sent Interests, whatever other
\* connections ask for, wherever content comes from, and however long Interests are delayed
\* or live.
THEOREM NobodyIsOverpaid == Spec => []NeverOverpaid
BY WorksNeverOverpaid, SpecWorks, PTL

-----------------------------------------------------------------------------
(* Whoever waits, waits for something *)

\* The Interests for a key, and the content objects it finds.
Asks(key)   == {w \in WorkItem : IsInterest(w) /\ Key(w.interest) = key}
Brings(key) == {w \in WorkItem : ~IsInterest(w) /\ key \in {w.packet.name, w.packet.hash}}

Followed(key) ==
  \/ key \in sought
  \/ Number(csQueue, Asks(key)) + Number(fibQueue, Asks(key)) + Number(pitQueue, Brings(key)) > 0

RoutesPursued == \A key \in PP!Keys : pit[key].routes # {} => Followed(key)

LEMMA BlindAsks ==
  ASSUME NEW key
  PROVE  /\ Asks(key) \in SUBSET WorkItem /\ Blind(Asks(key))
         /\ Brings(key) \in SUBSET WorkItem /\ Blind(Brings(key))
BY DEF Asks, Brings, Blind, IsInterest

LEMMA AsksJoins ==
  ASSUME NEW q, NEW r, NEW w \in WorkItem, Joined(q, r, w), NEW key
  PROVE  /\ Number(r, Asks(key)) = Number(q, Asks(key)) + One(w \in Asks(key))
         /\ Number(r, Brings(key)) = Number(q, Brings(key)) + One(w \in Brings(key))
BY BlindAsks DEF Joined

LEMMA AsksLeaves ==
  ASSUME NEW q, NEW r, NEW w \in WorkItem, Left(q, r, w), NEW key
  PROVE  /\ Number(r, Asks(key)) = Number(q, Asks(key)) - One(w \in Asks(key))
         /\ Number(r, Brings(key)) = Number(q, Brings(key)) - One(w \in Brings(key))
BY BlindAsks DEF Left

\* A queue has an item of a set if it has a number of them.
LEMMA NumberPositive ==
  ASSUME NEW T, NEW q \in Seq(T), NEW S, Number(q, S) > 0
  PROVE  \E i \in DOMAIN q : q[i] \in S
<1> SUFFICES ASSUME {i \in DOMAIN q : q[i] \in S} = {} PROVE FALSE
  OBVIOUS
<1>1. Number(q, S) = 0
  BY FS_EmptySet DEF Number
<1> QED
  BY <1>1

LEMMA PursuedStep == Typed /\ RoutesPursued /\ [Working]_vars => RoutesPursued'
<1> SUFFICES ASSUME Typed, RoutesPursued, [Working]_vars, NEW key \in PP!Keys, pit'[key].routes # {}
             PROVE  Followed(key)'
  BY DEF RoutesPursued
<1> DEFINE C == Number(csQueue, Asks(key))
           F1 == Number(fibQueue, Asks(key))
           B == Number(pitQueue, Brings(key))
<1>1. C \in Nat /\ F1 \in Nat /\ B \in Nat
  BY NumbersTyped
<1>2. Typed' /\ C' \in Nat /\ F1' \in Nat /\ B' \in Nat
  BY TypedStep, NumbersTypedNext DEF Asks, Brings
<1>3. pit[key].routes # {} => key \in sought \/ C + F1 + B > 0
  BY DEF RoutesPursued, Followed
<1>4. key \in sought' \/ C' + F1' + B' > 0 => Followed(key)'
  BY DEF Followed
<1>5. ASSUME NEW w, Arrives(w) PROVE Followed(key)'
  <2>1. UNCHANGED <<pitQueue, csQueue, fibQueue, pit, sought>>
    BY <1>5 DEF Arrives, Arrive, pitVars
  <2> QED
    BY <1>3, <2>1 DEF Followed, Asks, Brings
<1>6. ASSUME NEW w, ServiceInputQueueMoves(w) PROVE Followed(key)'
  <2>1. /\ w \in WorkItem /\ Joined(pitQueue, pitQueue', w) /\ UNCHANGED <<csQueue, fibQueue, pit, sought>>
    BY <1>6, ItemSets DEF ServiceInputQueueMoves, pitVars
  <2>2. Number(pitQueue', Brings(key)) = B + One(w \in Brings(key)) /\ One(w \in Brings(key)) \in Nat
    BY <2>1, AsksJoins DEF One
  <2>3. key \in sought' \/ C + F1 + Number(pitQueue', Brings(key)) > 0
    BY <1>1, <1>3, <2>1, <2>2
  <2> QED
    BY <2>1, <2>3 DEF Followed, Asks, Brings
<1>7. ASSUME NEW w, PitReceiveInterestMoves(w) PROVE Followed(key)'
  <2> DEFINE k == Key(w.interest)
             lifetime == w.interest.lifetime
  <2>1. /\ w \in WorkItem /\ Left(pitQueue, pitQueue', w) /\ IsInterest(w)
        /\ w.interest \in Interests /\ w.ingress \in Connections
        /\ PP!ReceiveInterest(k, FALSE, w.ingress, lifetime) /\ PP!IInv
    BY <1>7, ItemSets DEF PitReceiveInterestMoves, Waiting, WorkItem, IsInterest, Typed
  <2>2. k \in PP!Keys /\ lifetime \in Nat
    BY <2>1, KeyTypes DEF PP!Keys
  <2> HIDE DEF k, lifetime
  <2>3. /\ \A x \in PP!Keys \ {k} : pit'[x] = pit[x]
        /\ pitResult'.verdict = "Aggregate" => pit[k].routes # {}
    BY <2>1, <2>2, ReceiveRoutes
  <2>4. Number(pitQueue', Brings(key)) = B
    <3>1. w \notin Brings(key)
      BY <2>1 DEF Brings
    <3>2. Number(pitQueue', Brings(key)) = B - One(w \in Brings(key))
      BY <2>1, AsksLeaves
    <3> QED
      BY <1>1, <3>1, <3>2 DEF One
  <2>5. w \in Asks(key) <=> key = k
    BY <2>1 DEF Asks, k
  <2>6. CASE pitResult'.verdict = "Aggregate" /\ sought \subseteq sought' /\ UNCHANGED <<csQueue, fibQueue>>
    <3>1. pit[key].routes # {}
      BY <2>3, <2>6
    <3> QED
      BY <1>3, <2>4, <2>6, <3>1 DEF Followed, Asks, Brings
  <2>7. CASE Joined(csQueue, csQueue', w) /\ UNCHANGED <<fibQueue, sought>>
    <3>1. Number(csQueue', Asks(key)) = C + One(w \in Asks(key))
      BY <2>1, <2>7, AsksJoins
    <3>2. key \in sought' \/ Number(csQueue', Asks(key)) + F1 + B > 0
      BY <1>1, <1>3, <2>3, <2>5, <2>7, <3>1 DEF One
    <3> QED
      BY <2>4, <2>7, <3>2 DEF Followed, Asks, Brings
  <2>8. CASE Joined(fibQueue, fibQueue', w) /\ UNCHANGED <<csQueue, sought>>
    <3>1. Number(fibQueue', Asks(key)) = F1 + One(w \in Asks(key))
      BY <2>1, <2>8, AsksJoins
    <3>2. key \in sought' \/ C + Number(fibQueue', Asks(key)) + B > 0
      BY <1>1, <1>3, <2>3, <2>5, <2>8, <3>1 DEF One
    <3> QED
      BY <2>4, <2>8, <3>2 DEF Followed, Asks, Brings
  <2> QED
    BY <1>7, <2>6, <2>7, <2>8 DEF PitReceiveInterestMoves
<1>8. ASSUME NEW w, PitSatisfyInterestMoves(w) PROVE Followed(key)'
  <2> DEFINE v == Routed(w, pitResult'.egress)
  <2>1. /\ w \in WorkItem /\ Left(pitQueue, pitQueue', w) /\ UNCHANGED fibQueue
        /\ ~IsInterest(w) /\ w.packet \in Packets /\ PP!IInv
        /\ PP!SatisfyInterest(w.packet.name, w.packet.hash, w.ingress)
        /\ sought' = sought \ {w.packet.name, w.packet.hash}
        /\ UNCHANGED csQueue \/ (v \in WorkItem /\ Joined(csQueue, csQueue', v))
    BY <1>8, ItemSets DEF PitSatisfyInterestMoves, Waiting, Typed
  <2>2. w.packet.name \in Names \cup {NoName} /\ w.packet.hash \in Hashes \cup {NullHash}
    BY <2>1, KeyTypes
  <2>3. key \notin {w.packet.name, w.packet.hash} /\ pit'[key] = pit[key]
    <3> DEFINE name == w.packet.name
               hash == w.packet.hash
    <3>1. /\ name \in Names \cup {NoName} /\ hash \in Hashes \cup {NullHash}
          /\ PP!SatisfyInterest(name, hash, w.ingress) /\ PP!IInv
      BY <2>1, <2>2
    <3> HIDE DEF name, hash
    <3>2. \A k \in PP!Keys : IF k \in {name, hash} THEN pit'[k].routes = {} ELSE pit'[k] = pit[k]
      BY <3>1, SatisfyRoutes
    <3> QED
      BY <3>2 DEF name, hash
  <2>4. Number(pitQueue', Brings(key)) = B
    <3>1. w \notin Brings(key)
      BY <2>3 DEF Brings
    <3>2. Number(pitQueue', Brings(key)) = B - One(w \in Brings(key))
      BY <2>1, AsksLeaves
    <3> QED
      BY <1>1, <3>1, <3>2 DEF One
  <2> HIDE DEF v
  <2>5. C <= Number(csQueue', Asks(key)) /\ Number(csQueue', Asks(key)) \in Nat
    <3>1. CASE UNCHANGED csQueue
      BY <1>1, <3>1
    <3>2. CASE v \in WorkItem /\ Joined(csQueue, csQueue', v)
      BY <1>1, <3>2, AsksJoins DEF One
    <3> QED
      BY <2>1, <3>1, <3>2
  <2>6. key \in sought' \/ Number(csQueue', Asks(key)) + F1 + B > 0
    BY <1>1, <1>3, <2>1, <2>3, <2>5
  <2> QED
    BY <2>1, <2>4, <2>6 DEF Followed, Asks, Brings
<1>9. ASSUME NEW w, CsMatchInterestMoves(w) PROVE Followed(key)'
  <2> DEFINE v == ContentItem(w.id, w.packet, NoConnection)
  <2>1. /\ w \in WorkItem /\ w \in InStore /\ IsInterest(w) /\ Left(csQueue, csQueue', w)
        /\ UNCHANGED <<pit, sought>>
    BY <1>9, ItemSets DEF CsMatchInterestMoves, pitVars
  <2>2. Number(csQueue', Asks(key)) = C - One(w \in Asks(key))
    BY <2>1, AsksLeaves
  <2>3. CASE w.packet \in Packets /\ v \in WorkItem /\ Joined(pitQueue, pitQueue', v) /\ UNCHANGED fibQueue
    <3>1. w \in Asks(key) => v \in Brings(key)
      <4>1. w.packet # NoPacket
        BY <2>3, KeyTypes
      <4>2. Matches(w.interest, w.packet)
        BY <2>1, <4>1 DEF InStore
      <4> QED
        BY <2>3, <4>2 DEF Matches, Asks, Brings, ContentItem, IsInterest
    <3> HIDE DEF v
    <3>2. Number(pitQueue', Brings(key)) = B + One(v \in Brings(key))
      BY <2>3, AsksJoins
    <3>3. key \in sought' \/ Number(csQueue', Asks(key)) + F1 + Number(pitQueue', Brings(key)) > 0
      BY <1>1, <1>3, <2>1, <2>2, <3>1, <3>2 DEF One
    <3> QED
      BY <2>3, <3>3 DEF Followed, Asks, Brings
  <2>4. CASE Joined(fibQueue, fibQueue', w) /\ UNCHANGED pitQueue
    <3>1. Number(fibQueue', Asks(key)) = F1 + One(w \in Asks(key))
      BY <2>1, <2>4, AsksJoins
    <3>2. key \in sought' \/ Number(csQueue', Asks(key)) + Number(fibQueue', Asks(key)) + B > 0
      BY <1>1, <1>3, <2>1, <2>2, <3>1 DEF One
    <3> QED
      BY <2>4, <3>2 DEF Followed, Asks, Brings
  <2> QED
    BY <1>9, <2>3, <2>4 DEF CsMatchInterestMoves
<1>10. ASSUME NEW w, CsAddContentObjectMoves(w) PROVE Followed(key)'
  <2>1. /\ w \in WorkItem /\ ~IsInterest(w) /\ Left(csQueue, csQueue', w)
        /\ UNCHANGED <<pitQueue, fibQueue, pit, sought>>
    BY <1>10, ItemSets DEF CsAddContentObjectMoves, pitVars
  <2>2. Number(csQueue', Asks(key)) = C
    <3>1. w \notin Asks(key)
      BY <2>1 DEF Asks
    <3>2. Number(csQueue', Asks(key)) = C - One(w \in Asks(key))
      BY <2>1, AsksLeaves
    <3> QED
      BY <1>1, <3>1, <3>2 DEF One
  <2> QED
    BY <1>3, <2>1, <2>2 DEF Followed, Asks, Brings
<1>11. ASSUME NEW w, FibLookupMoves(w) PROVE Followed(key)'
  <2>1. /\ w \in WorkItem /\ IsInterest(w) /\ Left(fibQueue, fibQueue', w)
        /\ sought' = sought \cup {Key(w.interest)} /\ UNCHANGED <<pitQueue, csQueue, pit>>
    BY <1>11, ItemSets DEF FibLookupMoves, Seeking, pitVars
  <2>2. Number(fibQueue', Asks(key)) = F1 - One(w \in Asks(key))
    BY <2>1, AsksLeaves
  <2>3. w \in Asks(key) <=> key = Key(w.interest)
    BY <2>1 DEF Asks
  <2>4. key \in sought' \/ C + Number(fibQueue', Asks(key)) + B > 0
    BY <1>1, <1>3, <2>1, <2>2, <2>3 DEF One
  <2> QED
    BY <2>1, <2>4 DEF Followed, Asks, Brings
<1>12. CASE Tick \/ Untouched
  <2>1. UNCHANGED <<pitQueue, csQueue, fibQueue, pit, sought>>
    BY <1>12 DEF Tick, P!Tick, Untouched, pitVars
  <2> QED
    BY <1>3, <2>1 DEF Followed, Asks, Brings
<1> QED
  BY <1>5, <1>6, <1>7, <1>8, <1>9, <1>10, <1>11, <1>12, Moves

LEMMA WorksPursued == Works => []PendingIsPursued
<1>1. Typed /\ RoutesPursued => PendingIsPursued
  <2> SUFFICES ASSUME Typed, RoutesPursued, NEW key \in P!Keys, P!LiveRoutes(pit[key]) # {}
               PROVE  Pursued(key)
    BY DEF PendingIsPursued
  <2>1. Followed(key)
    BY DEF RoutesPursued, P!LiveRoutes, P!Keys, PP!Keys
  <2>2. /\ pitQueue \in Seq(WorkItem) /\ csQueue \in Seq(WorkItem) /\ fibQueue \in Seq(WorkItem)
        /\ Number(csQueue, Asks(key)) \in Nat /\ Number(fibQueue, Asks(key)) \in Nat
        /\ Number(pitQueue, Brings(key)) \in Nat
    BY ItemSets, NumbersTyped DEF Typed, QueuesTyped
  <2>3. \/ key \in sought \/ Number(csQueue, Asks(key)) > 0 \/ Number(fibQueue, Asks(key)) > 0
        \/ Number(pitQueue, Brings(key)) > 0
    BY <2>1, <2>2 DEF Followed
  <2>4. CASE Number(csQueue, Asks(key)) > 0
    <3>1. PICK i \in DOMAIN csQueue : csQueue[i] \in Asks(key)
      BY <2>2, <2>4, NumberPositive
    <3> QED
      BY <3>1 DEF Pursued, Items, Asks
  <2>5. CASE Number(fibQueue, Asks(key)) > 0
    <3>1. PICK i \in DOMAIN fibQueue : fibQueue[i] \in Asks(key)
      BY <2>2, <2>5, NumberPositive
    <3> QED
      BY <3>1 DEF Pursued, Items, Asks
  <2>6. CASE Number(pitQueue, Brings(key)) > 0
    <3>1. PICK i \in DOMAIN pitQueue : pitQueue[i] \in Brings(key)
      BY <2>2, <2>6, NumberPositive
    <3> QED
      BY <3>1 DEF Pursued, Items, Brings
  <2> QED
    BY <2>3, <2>4, <2>5, <2>6 DEF Pursued
<1>2. Init => RoutesPursued
  BY DEF Init, Empty, P!Init, P!NewEntry, P!Keys, PP!Keys, RoutesPursued
<1> QED
  BY <1>1, <1>2, PursuedStep, TypedAlways, PTL DEF Works

\* No Interest is absorbed by aggregation behind one that was itself answered or lost: while
\* a connection waits for content, an Interest for it has left the forwarder or is on its
\* way, or the content is.
THEOREM WaitingIsPursued == Spec => []PendingIsPursued
BY WorksPursued, SpecWorks, PTL
-----------------------------------------------------------------------------
(* What the content store was given first it has first *)

Carries(q, j, p) == ~IsInterest(q[j]) /\ q[j].packet = p

\* Items whose Interest the content objects given to the content store before do not match,
\* and items the content store has not seen.
Missed == {w \in WorkItem : \A p \in w.held : ~Matches(w.interest, p)}
Fresh  == {w \in WorkItem : w.held = {}}

\* The items of q before place u have been in service.  Of the content objects O, each is one
\* of S or waits, and of those an Interest came after, each is one of S or waits before it.
InOrder(q, u, S, O) ==
  /\ \A p \in O : p \in S \/ \E j \in DOMAIN q : u <= j /\ Carries(q, j, p)
  /\ \A i \in DOMAIN q : IsInterest(q[i]) =>
       IF u <= i THEN \A p \in q[i].held : p \in S \/ \E j \in u .. i - 1 : Carries(q, j, p)
       ELSE q[i].packet = NoPacket => q[i] \in Missed

\* With all items in service it does not matter how many could be.
LEMMA InOrderServed ==
  ASSUME NEW q \in Seq(InStore), NEW u \in Nat, NEW v \in Nat, Len(q) < u, Len(q) < v,
         NEW S, NEW O, InOrder(q, u, S, O)
  PROVE  InOrder(q, v, S, O)
<1>1. \A j \in DOMAIN q : ~(u <= j) /\ ~(v <= j)
  OBVIOUS
<1> QED
  BY <1>1 DEF InOrder

LEMMA InOrderRemove ==
  ASSUME NEW q \in Seq(InStore), NEW k \in DOMAIN q, k <= Servers,
         NEW S, NEW O, InOrder(q, Servers + 1, S, O)
  PROVE  InOrder(RemoveAt(q, k), Servers, S, O)
<1> DEFINE r == RemoveAt(q, k)
<1>1. /\ Servers \in Nat \ {0} /\ k \in 1 .. Len(q) /\ DOMAIN q = 1 .. Len(q) /\ Len(q) \in Nat
  BY BoundsAssumption
<1>2. /\ DOMAIN r = 1 .. Len(q) - 1
      /\ \A j \in 1 .. Len(q) - 1 : r[j] = IF j < k THEN q[j] ELSE q[j + 1]
  BY RemoveAtElements
<1> HIDE DEF r
<1>3. ASSUME NEW j \in DOMAIN r, Servers <= j PROVE r[j] = q[j + 1] /\ j + 1 \in DOMAIN q
  BY <1>1, <1>2, <1>3
<1>4. ASSUME NEW p, NEW n \in DOMAIN q, NEW j \in Servers + 1 .. n, Carries(q, j, p)
      PROVE  j - 1 \in DOMAIN r /\ Servers <= j - 1 /\ Carries(r, j - 1, p)
  <2>1. j - 1 \in DOMAIN r /\ Servers <= j - 1
    BY <1>1, <1>2
  <2>2. r[j - 1] = q[j]
    BY <1>1, <2>1, <1>3
  <2> QED
    BY <1>4, <2>1, <2>2 DEF Carries
<1>5. ASSUME NEW p \in O PROVE p \in S \/ \E j \in DOMAIN r : Servers <= j /\ Carries(r, j, p)
  <2>1. CASE \E j \in DOMAIN q : Servers + 1 <= j /\ Carries(q, j, p)
    <3>1. PICK j \in DOMAIN q : Servers + 1 <= j /\ Carries(q, j, p)
      BY <2>1
    <3>2. j \in Servers + 1 .. j
      BY <1>1, <3>1
    <3> QED
      BY <1>4, <3>1, <3>2
  <2> QED
    BY <2>1 DEF InOrder
<1>6. ASSUME NEW i \in DOMAIN r, IsInterest(r[i]), Servers <= i, NEW p \in r[i].held
      PROVE  p \in S \/ \E j \in Servers .. i - 1 : Carries(r, j, p)
  <2>1. r[i] = q[i + 1] /\ i + 1 \in DOMAIN q /\ Servers + 1 <= i + 1 /\ i \in Nat
    BY <1>1, <1>2, <1>3, <1>6
  <2>2. p \in S \/ \E j \in Servers + 1 .. (i + 1) - 1 : Carries(q, j, p)
    BY <1>6, <2>1 DEF InOrder
  <2>3. CASE \E j \in Servers + 1 .. (i + 1) - 1 : Carries(q, j, p)
    <3>1. PICK j \in Servers + 1 .. (i + 1) - 1 : Carries(q, j, p)
      BY <2>3
    <3>2. j \in Servers + 1 .. i + 1 /\ j - 1 \in Servers .. i - 1
      BY <1>1, <2>1
    <3> QED
      BY <1>4, <2>1, <3>1, <3>2
  <2> QED
    BY <2>2, <2>3
<1>7. ASSUME NEW i \in DOMAIN r, IsInterest(r[i]), ~(Servers <= i), r[i].packet = NoPacket
      PROVE  r[i] \in Missed
  <2>1. PICK j \in DOMAIN q : r[i] = q[j] /\ ~(Servers + 1 <= j)
    BY <1>1, <1>2, <1>7
  <2> QED
    BY <1>7, <2>1 DEF InOrder
<1>8. InOrder(r, Servers, S, O)
  BY <1>5, <1>6, <1>7 DEF InOrder
<1> QED
  BY <1>8 DEF r

\* What the content store is given after O.
Offered(O, w) == IF IsInterest(w) THEN O ELSE O \cup {w.packet}

LEMMA InOrderAppend ==
  ASSUME NEW q \in Seq(InStore), NEW u \in Nat \ {0}, u <= Len(q) + 1, NEW w \in InStore,
         NEW S, NEW O, IsInterest(w) => w.held \subseteq O, InOrder(q, u, S, O)
  PROVE  InOrder(Append(q, w), u, S, Offered(O, w))
<1> DEFINE r == Append(q, w)
           n == Len(q) + 1
<1>1. /\ DOMAIN q = 1 .. Len(q) /\ Len(q) \in Nat /\ n \in Nat /\ n \notin DOMAIN q
      /\ DOMAIN r = DOMAIN q \cup {n} /\ r[n] = w /\ \A j \in DOMAIN q : r[j] = q[j] /\ j <= n - 1
  OBVIOUS
<1> HIDE DEF r
<1>2. ASSUME NEW p, NEW j \in DOMAIN q, Carries(q, j, p)
      PROVE  j \in DOMAIN r /\ j <= n - 1 /\ Carries(r, j, p)
  BY <1>1, <1>2 DEF Carries
<1>3. ASSUME NEW p \in O PROVE p \in S \/ \E j \in DOMAIN q : u <= j /\ Carries(q, j, p)
  BY DEF InOrder
<1>4. ASSUME NEW p \in Offered(O, w) PROVE p \in S \/ \E j \in DOMAIN r : u <= j /\ Carries(r, j, p)
  <2>1. CASE p \in O
    BY <2>1, <1>2, <1>3
  <2>2. CASE p \notin O
    <3>1. ~IsInterest(w) /\ p = w.packet
      BY <2>2 DEF Offered
    <3>2. n \in DOMAIN r /\ u <= n /\ Carries(r, n, p)
      BY <1>1, <3>1 DEF Carries
    <3> QED
      BY <3>2
  <2> QED
    BY <2>1, <2>2
<1>5. ASSUME NEW i \in DOMAIN q, IsInterest(r[i])
      PROVE  IF u <= i THEN \A p \in r[i].held : p \in S \/ \E j \in u .. i - 1 : Carries(r, j, p)
             ELSE r[i].packet = NoPacket => r[i] \in Missed
  <2>1. r[i] = q[i]
    BY <1>1
  <2>2. \A j \in u .. i - 1 : j \in DOMAIN q
    BY <1>1
  <2>3. IF u <= i THEN \A p \in q[i].held : p \in S \/ \E j \in u .. i - 1 : Carries(q, j, p)
        ELSE q[i].packet = NoPacket => q[i] \in Missed
    BY <1>5, <2>1 DEF InOrder
  <2> QED
    BY <1>2, <2>1, <2>2, <2>3
<1>6. ASSUME IsInterest(w), NEW p \in w.held
      PROVE  p \in S \/ \E j \in u .. n - 1 : Carries(r, j, p)
  <2>1. CASE \E j \in DOMAIN q : u <= j /\ Carries(q, j, p)
    <3>1. PICK j \in DOMAIN q : u <= j /\ Carries(q, j, p)
      BY <2>1
    <3>2. j \in u .. n - 1
      BY <1>1, <3>1
    <3> QED
      BY <1>2, <3>1, <3>2
  <2> QED
    BY <1>3, <1>6, <2>1
<1>7. InOrder(r, u, S, Offered(O, w))
  <2>1. u <= n
    OBVIOUS
  <2> HIDE DEF n
  <2> QED
    BY <1>1, <1>4, <1>5, <1>6, <2>1 DEF InOrder
<1> QED
  BY <1>7 DEF r

\* What a content store with room for every packet needs.
Keeping == CSP!Uniform /\ CSP!Roomy /\ CSP!Typed /\ CSP!IInv /\ CSP!AllStocked

\* An Interest in service finds what it came after, and content in service is there.
LEMMA CsStartInOrder ==
  ASSUME Keeping, NEW q \in Seq(InStore), NEW u \in DOMAIN q, CsStart(q, u),
         NEW O, InOrder(q, u, CSP!Stock(store), O)
  PROVE  CSP!AllStocked' /\ InOrder(csQueue', u + 1, CSP!Stock(store'), O)
<1> DEFINE w == q[u]
           r == csQueue'
           S == CSP!Stock(store)
           T == CSP!Stock(store')
<1>1. w \in InStore /\ w \in WorkItem
  BY DEF InStore
<1>2. /\ r \in Seq(InStore) /\ DOMAIN r = DOMAIN q /\ SameWork(r[u], w)
      /\ \A j \in DOMAIN q : j # u => r[j] = q[j]
      /\ \A j \in DOMAIN q : r[j] \in WorkItem
  BY CsStartTyped, ItemSets DEF Keeping, SameQueue
<1>3. CASE IsInterest(w)
  <2>1. /\ CSP!MatchInterest(w.interest.name, w.interest.hash, FALSE)
        /\ csQueue' = [q EXCEPT ![u].packet = served']
    BY <1>3, SameTables DEF CsStart
  <2>2. w.interest \in Interests
    BY <1>1, <1>3 DEF WorkItem, IsInterest
  <2>3. /\ w.interest.name \in Names \cup {NoName}
        /\ w.interest.name \in Names \/ w.interest.hash \in Hashes
        /\ Key(w.interest) = IF w.interest.name # NoName THEN w.interest.name ELSE w.interest.hash
    BY <2>2, KeyTypes
  <2>4. /\ CSP!AllStocked' /\ T = S
        /\ served' = NoPacket => IF w.interest.name # NoName THEN store.byName[w.interest.name] = CSP!NoEntry
                                 ELSE store.byHash[w.interest.hash] = CSP!NoEntry
    BY <2>1, <2>3, CSP!MatchInterestKeepsStock, CsAssumptions DEF Keeping
  <2>5. r[u].packet = served'
    BY <1>1, <2>1 DEF WorkItem
  <2>6. ASSUME r[u].packet = NoPacket PROVE r[u] \in Missed
    <3>1. \A p \in S : ~Matches(w.interest, p)
      <4> SUFFICES ASSUME NEW p \in S, Matches(w.interest, p) PROVE FALSE
        OBVIOUS
      <4>1. /\ p \in Packets /\ p.name \in Names \cup {NoName} /\ p.hash \in Hashes \cup {NullHash}
            /\ p.name \in Names => store.byName[p.name] # CSP!NoEntry
            /\ p.hash \in Hashes => store.byHash[p.hash] # CSP!NoEntry
        BY KeyTypes DEF CSP!Stock
      <4>2. Key(w.interest) = p.name \/ Key(w.interest) = p.hash
        BY DEF Matches
      <4>3. Names \cap Hashes = {} /\ NoName \notin Names /\ NullHash \notin Hashes /\ NoName \notin Hashes
            /\ NullHash \notin Names
        BY PitAssumptions, CsAssumptions DEF PP!KeysAssumption, CSP!NullAssumption
      <4> QED
        BY <2>3, <2>4, <2>5, <2>6, <4>1, <4>2, <4>3, KeyTypes, <2>2
    <3>2. w.held \subseteq S
      <4>1. \A p \in w.held : p \in S \/ \E j \in u .. u - 1 : Carries(q, j, p)
        BY <1>3 DEF InOrder
      <4>2. u .. u - 1 = {}
        OBVIOUS
      <4> QED
        BY <4>1, <4>2
    <3>3. r[u].held = w.held /\ r[u].interest = w.interest
      BY <1>2 DEF SameWork
    <3> QED
      BY <1>2, <3>1, <3>2, <3>3 DEF Missed
  <2>7. ASSUME NEW p, NEW j \in DOMAIN q, u <= j, Carries(q, j, p)
        PROVE  u + 1 <= j /\ Carries(r, j, p)
    BY <1>2, <1>3, <2>7 DEF Carries
  <2>8. ASSUME NEW p \in O PROVE p \in T \/ \E j \in DOMAIN r : u + 1 <= j /\ Carries(r, j, p)
    BY <1>2, <2>4, <2>7 DEF InOrder
  <2>9. ASSUME NEW i \in DOMAIN r, IsInterest(r[i]), u + 1 <= i, NEW p \in r[i].held
        PROVE  p \in T \/ \E j \in u + 1 .. i - 1 : Carries(r, j, p)
    <3>1. r[i] = q[i] /\ i \in DOMAIN q /\ u <= i
      BY <1>2, <2>9
    <3>2. p \in S \/ \E j \in u .. i - 1 : Carries(q, j, p)
      BY <2>9, <3>1 DEF InOrder
    <3>3. ASSUME NEW j \in u .. i - 1, Carries(q, j, p) PROVE j \in u + 1 .. i - 1 /\ Carries(r, j, p)
      <4>1. j \in DOMAIN q
        BY <3>1
      <4> QED
        BY <2>7, <3>3, <4>1
    <3> QED
      BY <2>4, <3>2, <3>3
  <2>10. ASSUME NEW i \in DOMAIN r, IsInterest(r[i]), ~(u + 1 <= i), r[i].packet = NoPacket
         PROVE  r[i] \in Missed
    <3>1. CASE i = u
      BY <2>6, <2>10, <3>1
    <3>2. CASE i # u
      <4>1. r[i] = q[i] /\ ~(u <= i)
        BY <1>2, <2>10, <3>2
      <4> QED
        BY <1>2, <2>10, <4>1 DEF InOrder
    <3> QED
      BY <3>1, <3>2
  <2> HIDE DEF r, T
  <2>11. InOrder(r, u + 1, T, O)
    BY <2>8, <2>9, <2>10 DEF InOrder
  <2> QED
    BY <2>4, <2>11 DEF r, T
<1>4. CASE ~IsInterest(w)
  <2>1. CSP!AddContentObject(w.packet) /\ w.packet \in Packets
    BY <1>1, <1>4, SameTables DEF CsStart, InStore
  <2>2. CSP!AllStocked' /\ S \subseteq T /\ w.packet \in T
    BY <2>1, CSP!AddContentObjectKeepsStock, CsAssumptions DEF Keeping
  <2>3. ASSUME NEW p, NEW j \in DOMAIN q, u <= j, Carries(q, j, p)
        PROVE  p \in T \/ (u + 1 <= j /\ Carries(r, j, p))
    BY <1>2, <1>4, <2>2, <2>3 DEF Carries
  <2>4. ASSUME NEW p \in O PROVE p \in T \/ \E j \in DOMAIN r : u + 1 <= j /\ Carries(r, j, p)
    BY <1>2, <2>2, <2>3 DEF InOrder
  <2>5. ASSUME NEW i \in DOMAIN r, IsInterest(r[i]), u + 1 <= i, NEW p \in r[i].held
        PROVE  p \in T \/ \E j \in u + 1 .. i - 1 : Carries(r, j, p)
    <3>1. r[i] = q[i] /\ i \in DOMAIN q /\ u <= i
      BY <1>2, <2>5
    <3>2. p \in S \/ \E j \in u .. i - 1 : Carries(q, j, p)
      BY <2>5, <3>1 DEF InOrder
    <3>3. ASSUME NEW j \in u .. i - 1, Carries(q, j, p)
          PROVE  p \in T \/ (j \in u + 1 .. i - 1 /\ Carries(r, j, p))
      <4>1. j \in DOMAIN q
        BY <3>1
      <4> QED
        BY <2>3, <3>3, <4>1
    <3> QED
      BY <2>2, <3>2, <3>3
  <2>6. ASSUME NEW i \in DOMAIN r, IsInterest(r[i]), ~(u + 1 <= i), r[i].packet = NoPacket
        PROVE  r[i] \in Missed
    <3>1. i # u
      BY <1>2, <1>4, <2>6 DEF SameWork, IsInterest
    <3>2. r[i] = q[i] /\ ~(u <= i)
      BY <1>2, <2>6, <3>1
    <3> QED
      BY <1>2, <2>6, <3>2 DEF InOrder
  <2> HIDE DEF r, T
  <2>7. InOrder(r, u + 1, T, O)
    BY <2>4, <2>5, <2>6 DEF InOrder
  <2> QED
    BY <2>2, <2>7 DEF r, T
<1> QED
  BY <1>3, <1>4

\* So does what is put in the queue of the content store or taken from it.
LEMMA CsPushInOrder ==
  ASSUME Keeping, csQueue \in Seq(InStore), NEW w \in InStore, CsPush(w), NEW O,
         IsInterest(w) => w.held \subseteq O, InOrder(csQueue, Servers + 1, CSP!Stock(store), O)
  PROVE  CSP!AllStocked' /\ InOrder(csQueue', Servers + 1, CSP!Stock(store'), Offered(O, w))
<1> DEFINE q == Append(csQueue, w)
           S == CSP!Stock(store)
           A == Offered(O, w)
<1>1. /\ q \in Seq(InStore) /\ Len(q) = Len(csQueue) + 1 /\ Len(csQueue) \in Nat
      /\ Len(q) \in DOMAIN q /\ Servers \in Nat \ {0}
  BY BoundsAssumption
<1>2. \/ Len(q) <= Servers /\ CsStart(q, Len(q))
      \/ Len(q) > Servers /\ csQueue' = q /\ UNCHANGED csVars
  BY <1>1 DEF CsPush, Enqueue
<1>3. CASE Len(q) <= Servers /\ CsStart(q, Len(q))
  <2>1. InOrder(csQueue, Len(q), S, O)
    <3>1. Len(csQueue) < Servers + 1 /\ Len(csQueue) < Len(q) /\ Len(q) \in Nat
      BY <1>1, <1>3
    <3> HIDE DEF q, S
    <3> QED
      BY <1>1, <3>1, InOrderServed DEF S
  <2>2. InOrder(q, Len(q), S, A)
    <3>1. Len(q) \in Nat \ {0} /\ Len(q) <= Len(csQueue) + 1
      BY <1>1
    <3> HIDE DEF S
    <3> QED
      BY <2>1, <3>1, InOrderAppend
  <2> HIDE DEF q, A
  <2>3. /\ CSP!AllStocked' /\ InOrder(csQueue', Len(q) + 1, CSP!Stock(store'), A)
        /\ csQueue' \in Seq(InStore) /\ SameQueue(csQueue', q)
    BY <1>1, <1>3, <2>2, CsStartInOrder, CsStartTyped DEF Keeping
  <2>4. Len(csQueue') < Len(q) + 1 /\ Len(csQueue') < Servers + 1 /\ Len(q) + 1 \in Nat
    BY <1>1, <1>3, <2>3 DEF SameQueue
  <2>5. InOrder(csQueue', Servers + 1, CSP!Stock(store'), A)
    BY <1>1, <2>3, <2>4, InOrderServed
  <2> QED
    BY <2>3, <2>5 DEF A
<1>4. CASE Len(q) > Servers /\ csQueue' = q /\ UNCHANGED csVars
  <2>1. InOrder(q, Servers + 1, S, A)
    <3>1. Servers + 1 \in Nat \ {0} /\ Servers + 1 <= Len(csQueue) + 1
      BY <1>1, <1>4
    <3> HIDE DEF S
    <3> QED
      BY <3>1, InOrderAppend DEF S
  <2>2. CSP!AllStocked' /\ CSP!Stock(store') = S
    BY <1>4 DEF csVars, Keeping, CSP!AllStocked, CSP!Stock
  <2> QED
    BY <1>4, <2>1, <2>2
<1> QED
  BY <1>2, <1>3, <1>4

LEMMA CsPopInOrder ==
  ASSUME Keeping, csQueue \in Seq(InStore), NEW k \in Served(csQueue), CsPop(k), NEW O,
         InOrder(csQueue, Servers + 1, CSP!Stock(store), O)
  PROVE  CSP!AllStocked' /\ InOrder(csQueue', Servers + 1, CSP!Stock(store'), O)
<1> DEFINE q == RemoveAt(csQueue, k)
           S == CSP!Stock(store)
<1>1. k \in DOMAIN csQueue /\ k <= Servers /\ Servers \in Nat \ {0}
  BY BoundsAssumption DEF Served
<1>2. q \in Seq(InStore) /\ InOrder(q, Servers, S, O)
  BY <1>1, RemoveAtElements, InOrderRemove
<1>3. \/ Len(q) >= Servers /\ CsStart(q, Servers)
      \/ Len(q) < Servers /\ csQueue' = q /\ UNCHANGED csVars
  BY <1>1, <1>2 DEF CsPop
<1> HIDE DEF q
<1>4. CASE Len(q) >= Servers /\ CsStart(q, Servers)
  <2>1. Servers \in DOMAIN q
    BY <1>1, <1>2, <1>4
  <2> QED
    BY <1>2, <1>4, <2>1, CsStartInOrder
<1>5. CASE Len(q) < Servers /\ csQueue' = q /\ UNCHANGED csVars
  <2>1. InOrder(q, Servers + 1, S, O)
    <3>1. Len(q) < Servers + 1 /\ Servers + 1 \in Nat
      BY <1>1, <1>2, <1>5
    <3> HIDE DEF S
    <3> QED
      BY <1>1, <1>2, <1>5, <3>1, InOrderServed
  <2>2. CSP!AllStocked' /\ CSP!Stock(store') = S
    BY <1>5 DEF csVars, Keeping, CSP!AllStocked, CSP!Stock
  <2> QED
    BY <1>5, <2>1, <2>2
<1> QED
  BY <1>3, <1>4, <1>5

\* The inductive invariant.
KeptInOrder ==
  /\ CSP!AllStocked /\ InOrder(csQueue, Servers + 1, CSP!Stock(store), offered)
  /\ inputQueue \in Seq(Fresh) /\ pitQueue \in Seq(Fresh) /\ fibQueue \in Seq(Missed)

LEMMA SameQueueMissed ==
  ASSUME NEW q \in Seq(Missed), NEW r \in Seq(Seeking), SameQueue(r, q)
  PROVE  r \in Seq(Missed)
<1>1. ASSUME NEW i \in DOMAIN r PROVE r[i] \in Missed
  <2>1. r[i] \in WorkItem /\ q[i] \in Missed /\ SameWork(r[i], q[i])
    BY ItemSets DEF SameQueue
  <2> QED
    BY <2>1 DEF Missed, SameWork
<1>2. DOMAIN r = 1 .. Len(r) /\ Len(r) \in Nat
  OBVIOUS
<1> QED
  BY <1>1, <1>2

LEMMA FibPushMissed ==
  ASSUME Typed, fibQueue \in Seq(Missed), NEW w \in Missed, w \in Seeking, FibPush(w)
  PROVE  fibQueue' \in Seq(Missed)
<1>1. fibQueue' \in Seq(Seeking) /\ SameQueue(fibQueue', Append(fibQueue, w))
  BY FibPushTyped DEF Typed, QueuesTyped
<1>2. Append(fibQueue, w) \in Seq(Missed)
  OBVIOUS
<1> QED
  BY <1>1, <1>2, SameQueueMissed

LEMMA FibPopMissed ==
  ASSUME Typed, fibQueue \in Seq(Missed), NEW i \in DOMAIN fibQueue, FibPop(i)
  PROVE  fibQueue' \in Seq(Missed)
<1>1. fibQueue' \in Seq(Seeking) /\ SameQueue(fibQueue', RemoveAt(fibQueue, i))
  BY FibPopTyped DEF Typed, QueuesTyped
<1>2. RemoveAt(fibQueue, i) \in Seq(Missed)
  BY RemoveAtElements
<1> QED
  BY <1>1, <1>2, SameQueueMissed

LEMMA CsQuietInOrder ==
  ASSUME KeptInOrder, UNCHANGED <<csQueue, csVars, offered>>
  PROVE  CSP!AllStocked' /\ InOrder(csQueue', Servers + 1, CSP!Stock(store'), offered')
BY DEF KeptInOrder, csVars, CSP!AllStocked, CSP!Stock, InOrder, Carries

LEMMA KeptInOrderStep ==
  ASSUME CSP!Uniform, CSP!Roomy, Typed, CSP!IInv, KeptInOrder, [Working]_vars
  PROVE  KeptInOrder'
<1>1. /\ Keeping /\ QueuesTyped
      /\ InOrder(csQueue, Servers + 1, CSP!Stock(store), offered)
      /\ inputQueue \in Seq(Fresh) /\ pitQueue \in Seq(Fresh) /\ fibQueue \in Seq(Missed)
  BY DEF Keeping, KeptInOrder, Typed
<1>2. ASSUME NEW w, Arrives(w) PROVE KeptInOrder'
  <2>1. w \in Waiting /\ Arrive(w)
    BY <1>2 DEF Arrives
  <2>2. w \in Fresh
    BY <1>2, ItemSets DEF Arrives, Fresh
  <2>3. inputQueue' \in Seq(Fresh)
    BY <1>1, <2>1, <2>2 DEF Arrive, Enqueue
  <2>4. UNCHANGED <<csQueue, csVars, offered, pitQueue, fibQueue>>
    BY <2>1 DEF Arrive
  <2> QED
    BY <1>1, <2>3, <2>4, CsQuietInOrder DEF KeptInOrder
<1>3. CASE ServiceInputQueue
  <2>1. PICK i \in Served(inputQueue) :
          /\ inputQueue' = RemoveAt(inputQueue, i) /\ PitPush(inputQueue[i])
          /\ UNCHANGED <<csQueue, fibQueue, csVars, offered>>
    BY <1>3 DEF ServiceInputQueue
  <2>2. i \in DOMAIN inputQueue
    BY DEF Served
  <2>3. inputQueue' \in Seq(Fresh) /\ pitQueue' \in Seq(Fresh)
    BY <1>1, <2>1, <2>2, RemoveAtElements DEF PitPush, Enqueue
  <2> QED
    BY <1>1, <2>1, <2>3, CsQuietInOrder DEF KeptInOrder
<1>4. CASE PitReceiveInterest
  <2>1. PICK i \in Served(pitQueue) : LET w == pitQueue[i] IN
          /\ IsInterest(w) /\ PitPop(i)
          /\ \/ UNCHANGED <<csQueue, csVars, fibQueue>>
             \/ CsPush([w EXCEPT !.held = offered]) /\ UNCHANGED fibQueue
             \/ FibPush(w) /\ UNCHANGED <<csQueue, csVars>>
          /\ UNCHANGED <<inputQueue, offered>>
    BY <1>4 DEF PitReceiveInterest
  <2> DEFINE w == pitQueue[i]
  <2>2. i \in DOMAIN pitQueue /\ w \in Waiting /\ w \in Fresh /\ w \in WorkItem /\ w.held = {}
    BY <1>1 DEF QueuesTyped, Served, Fresh
  <2>3. pitQueue' \in Seq(Fresh)
    BY <1>1, <2>1, <2>2, RemoveAtElements DEF PitPop
  <2>4. w.ingress \in Connections /\ w.packet = NoPacket
    BY <2>1, <2>2 DEF Waiting
  <2>5. CASE UNCHANGED <<csQueue, csVars, fibQueue>>
    BY <1>1, <2>1, <2>3, <2>5, CsQuietInOrder DEF KeptInOrder
  <2>6. CASE CsPush([w EXCEPT !.held = offered]) /\ UNCHANGED fibQueue
    <3> DEFINE v == [w EXCEPT !.held = offered]
    <3>1. /\ v \in WorkItem /\ v.interest = w.interest /\ v.ingress = w.ingress /\ v.packet = w.packet
          /\ v.held = offered
      BY <1>1, <2>2 DEF WorkItem, QueuesTyped
    <3>2. v \in InStore /\ IsInterest(v)
      BY <2>1, <2>4, <3>1 DEF InStore, IsInterest
    <3>3. csQueue \in Seq(InStore) /\ CsPush(v)
      BY <1>1, <2>6 DEF QueuesTyped
    <3> HIDE DEF v
    <3>4. CSP!AllStocked' /\ InOrder(csQueue', Servers + 1, CSP!Stock(store'), Offered(offered, v))
      BY <1>1, <3>1, <3>2, <3>3, CsPushInOrder
    <3>5. Offered(offered, v) = offered'
      BY <2>1, <3>2 DEF Offered
    <3> QED
      BY <1>1, <2>1, <2>3, <2>6, <3>4, <3>5 DEF KeptInOrder
  <2>7. CASE FibPush(w) /\ UNCHANGED <<csQueue, csVars>>
    <3>1. w \in Missed /\ w \in Seeking
      BY <2>1, <2>2, <2>4 DEF Missed, Seeking
    <3>2. fibQueue' \in Seq(Missed)
      BY <1>1, <2>7, <3>1, FibPushMissed
    <3> QED
      BY <1>1, <2>1, <2>3, <2>7, <3>2, CsQuietInOrder DEF KeptInOrder
  <2> QED
    BY <2>1, <2>5, <2>6, <2>7
<1>5. CASE PitSatisfyInterest
  <2>1. PICK i \in Served(pitQueue) : LET w == pitQueue[i]
                                          route == pitResult'.egress
                                          next == AfterSatisfy(w, route) IN
          /\ ~IsInterest(w) /\ PitPop(i)
          /\ P!SatisfyInterest(w.packet.name, w.packet.hash, w.ingress)
          /\ next = "drop" \/ next = "finish" => UNCHANGED <<csQueue, csVars>>
          /\ next = "store" => CsPush([w EXCEPT !.route = route])
          /\ offered' = IF next = "store" THEN offered \cup {w.packet} ELSE offered
          /\ UNCHANGED <<inputQueue, fibQueue>>
    BY <1>5, Zenon DEF PitSatisfyInterest
  <2> DEFINE w == pitQueue[i]
             route == pitResult'.egress
  <2>2. i \in DOMAIN pitQueue /\ w \in Waiting /\ w \in WorkItem
    BY <1>1 DEF QueuesTyped, Served, Waiting
  <2>3. pitQueue' \in Seq(Fresh)
    BY <1>1, <2>1, <2>2, RemoveAtElements DEF PitPop
  <2>4. w.packet \in Packets /\ w.egress = NoConnection /\ route \subseteq Connections
    BY <2>1, <2>2, SatisfyIsPitStep, PitTyped DEF Typed
  <2> HIDE DEF route
  <2>5. CASE AfterSatisfy(w, route) = "drop" \/ AfterSatisfy(w, route) = "finish"
    <3>1. UNCHANGED <<csQueue, csVars, offered>>
      BY <2>1, <2>5 DEF route
    <3> QED
      BY <1>1, <2>1, <2>3, <3>1, CsQuietInOrder DEF KeptInOrder
  <2>6. CASE AfterSatisfy(w, route) = "store"
    <3> DEFINE v == [w EXCEPT !.route = route]
    <3>1. /\ v \in WorkItem /\ v.interest = w.interest /\ v.ingress = w.ingress
          /\ v.packet = w.packet /\ v.egress = w.egress /\ v.route = route
      BY <2>2, <2>4 DEF WorkItem
    <3>2. route # {} /\ w.ingress # NoConnection
      BY <2>6 DEF AfterSatisfy
    <3>3. v \in InStore /\ ~IsInterest(v)
      BY <2>1, <2>4, <3>1, <3>2 DEF InStore, IsInterest
    <3>4. csQueue \in Seq(InStore) /\ CsPush(v) /\ offered' = offered \cup {w.packet}
      BY <1>1, <2>1, <2>6 DEF QueuesTyped, route
    <3> HIDE DEF v
    <3>5. CSP!AllStocked' /\ InOrder(csQueue', Servers + 1, CSP!Stock(store'), Offered(offered, v))
      BY <1>1, <3>3, <3>4, CsPushInOrder
    <3>6. Offered(offered, v) = offered'
      BY <3>1, <3>3, <3>4 DEF Offered
    <3> QED
      BY <1>1, <2>1, <2>3, <3>5, <3>6 DEF KeptInOrder
  <2> QED
    BY <2>5, <2>6 DEF AfterSatisfy
<1>6. CASE CsMatchInterest
  <2>1. PICK i \in Served(csQueue) : LET w == csQueue[i] IN
          /\ IsInterest(w) /\ CsPop(i)
          /\ IF w.packet # NoPacket
             THEN PitPush(ContentItem(w.id, w.packet, NoConnection)) /\ UNCHANGED fibQueue
             ELSE FibPush(w) /\ UNCHANGED pitQueue
          /\ UNCHANGED <<inputQueue, offered>>
    BY <1>6 DEF CsMatchInterest
  <2> DEFINE w == csQueue[i]
  <2>2. i \in DOMAIN csQueue /\ i <= Servers /\ csQueue \in Seq(InStore) /\ w \in InStore
    BY <1>1 DEF QueuesTyped, Served
  <2>3. CSP!AllStocked' /\ InOrder(csQueue', Servers + 1, CSP!Stock(store'), offered)
    BY <1>1, <2>1, <2>2, CsPopInOrder
  <2>4. CASE w.packet # NoPacket
    <3>1. w.packet \in Packets /\ w.id \in 1 .. MaxPackets
      BY <2>2, <2>4, ItemSets DEF WorkItem
    <3>2. ContentItem(w.id, w.packet, NoConnection) \in Fresh
      BY <3>1 DEF ContentItem, WorkItem, Fresh
    <3>3. pitQueue' = Append(pitQueue, ContentItem(w.id, w.packet, NoConnection)) /\ fibQueue' = fibQueue
      BY <2>1, <2>4 DEF PitPush, Enqueue
    <3> HIDE DEF w
    <3>4. pitQueue' \in Seq(Fresh)
      BY <1>1, <3>2, <3>3
    <3> QED
      BY <1>1, <2>1, <2>3, <3>3, <3>4 DEF KeptInOrder
  <2>5. CASE w.packet = NoPacket
    <3>1. w \in Seeking
      BY <2>1, <2>2, <2>5 DEF Seeking, InStore
    <3>2. w \in Missed
      <4>1. ~(Servers + 1 <= i)
        BY <2>2, BoundsAssumption
      <4> QED
        BY <1>1, <2>1, <2>2, <2>5, <4>1 DEF InOrder
    <3>3. fibQueue' \in Seq(Missed) /\ pitQueue' = pitQueue
      BY <1>1, <2>1, <2>5, <3>1, <3>2, FibPushMissed
    <3> QED
      BY <1>1, <2>1, <2>3, <3>3 DEF KeptInOrder
  <2> QED
    BY <2>4, <2>5
<1>7. CASE CsAddContentObject
  <2>1. PICK i \in Served(csQueue) :
          CsPop(i) /\ UNCHANGED <<inputQueue, pitQueue, fibQueue, offered>>
    BY <1>7 DEF CsAddContentObject
  <2>2. CSP!AllStocked' /\ InOrder(csQueue', Servers + 1, CSP!Stock(store'), offered)
    BY <1>1, <2>1, CsPopInOrder DEF QueuesTyped
  <2> QED
    BY <1>1, <2>1, <2>2 DEF KeptInOrder
<1>8. CASE FibLookup
  <2>1. PICK i \in Served(fibQueue) :
          FibPop(i) /\ UNCHANGED <<inputQueue, pitQueue, csQueue, csVars, offered>>
    BY <1>8 DEF FibLookup
  <2>2. fibQueue' \in Seq(Missed)
    BY <1>1, <2>1, FibPopMissed DEF Served
  <2> QED
    BY <1>1, <2>1, <2>2, CsQuietInOrder DEF KeptInOrder
<1>9. CASE Routing \/ Tick \/ UNCHANGED vars
  <2>1. UNCHANGED <<inputQueue, pitQueue, csQueue, fibQueue, csVars, offered>>
    BY <1>9 DEF Routing, AddRoute, RemoveRoute, InnerAddRoute, InnerRemoveRoute, RemoveConnection,
                RouteChange, Tick, vars
  <2> QED
    BY <1>1, <2>1, CsQuietInOrder DEF KeptInOrder
<1> QED
  BY <1>2, <1>3, <1>4, <1>5, <1>6, <1>7, <1>8, <1>9, Steps

LEMMA DifferentPackets ==
  ASSUME IsFiniteSet(Packets), Cardinality(Packets) <= Capacity, NEW l \in Seq(Packets),
         \A i, j \in DOMAIN l : l[i] = l[j] => i = j
  PROVE  Len(l) <= Capacity
<1>1. DOMAIN l = 1 .. Len(l) /\ Len(l) \in Nat /\ 1 \in Int /\ Len(l) \in Int
  OBVIOUS
<1>2. l \in Injection(1 .. Len(l), Packets)
  BY <1>1 DEF Injection, IsInjective
<1>3. Cardinality(1 .. Len(l)) = IF 1 > Len(l) THEN 0 ELSE Len(l) - 1 + 1
  BY <1>1, FS_Interval, Zenon
<1>4. Cardinality(1 .. Len(l)) <= Cardinality(Packets) /\ Cardinality(Packets) \in Nat
  BY <1>2, FS_Injection, FS_CardinalityType
<1> QED
  BY <1>1, <1>3, <1>4, TablesAssumption DEF CS!CapacityAssumption

\* An Interest is not sent on for content the node already has: what the PIT lets through
\* after it gave the content store a content object finds it there, if there is room for
\* every content object and none expires.
THEOREM LaterInterestsFindContent ==
  ASSUME CS!Uniform, IsFiniteSet(Packets)
  PROVE  Spec => []LaterInterestsHit
<1>1. CASE NothingForgotten
  <2>1. CSP!Uniform
    BY DEF CS!Uniform, CSP!Uniform
  <2>2. CSP!Roomy
    BY <1>1, DifferentPackets DEF CSP!Roomy, CSP!Different, NothingForgotten
  <2>3. Init => CSP!IInv /\ KeptInOrder
    <3> SUFFICES ASSUME Init PROVE CSP!IInv /\ KeptInOrder
      OBVIOUS
    <3>1. CSP!Init
      BY DEF Init, Empty, CS!Init, CSP!Init, CS!NoEntry, CSP!NoEntry
    <3>2. CSP!IInv
      BY <2>1, <3>1, CSP!InitInv, CsAssumptions
    <3>3. /\ inputQueue = <<>> /\ pitQueue = <<>> /\ csQueue = <<>> /\ fibQueue = <<>>
          /\ created = <<>> /\ offered = {}
      BY DEF Init, Empty, CS!Init
    <3>4. KeptInOrder
      BY <3>3 DEF KeptInOrder, InOrder, CSP!AllStocked
    <3> QED
      BY <3>2, <3>4
  <2>4. Typed /\ CSP!IInv /\ KeptInOrder /\ [Working]_vars => CSP!IInv' /\ KeptInOrder'
    BY <2>1, <2>2, TypedStep, KeptInOrderStep, CSP!NextStep, CsAssumptions DEF TablesStep
  <2>5. Typed /\ KeptInOrder => LaterInterestsHit
    BY DEF Typed, QueuesTyped, KeptInOrder, LaterInterestsHit, Items, Missed
  <2> QED
    BY <2>3, <2>4, <2>5, TypedAlways, SpecWorks, PTL DEF Works
<1>2. CASE ~NothingForgotten
  <2>1. LaterInterestsHit
    BY <1>2 DEF LaterInterestsHit
  <2> QED
    BY <2>1, PTL
<1> QED
  BY <1>1, <1>2

-----------------------------------------------------------------------------
(* Nodes *)

LEMMA PortalTypes ==
  /\ Consumer \in Connections /\ Producer \in Connections /\ Consumer # Producer
  /\ Consumer \in Portals /\ Producer \in Portals /\ Portals = {Consumer, Producer}
  /\ NoConnection \notin Connections /\ NoConnection # Consumer
BY PortalsAssumption, ApplicationsAssumption

-----------------------------------------------------------------------------
(* The forwarder in the node *)

LEMMA DeliverWorks == Deliver => [Working]_vars
<1> SUFFICES ASSUME Deliver PROVE [Working]_vars
  OBVIOUS
<1>1. PICK d \in inbox : IF d.to = Consumer THEN ConsumerReceives(d.item) ELSE ProducerReceives(d.item)
  BY DEF Deliver
<1>2. CASE UNCHANGED vars
  BY <1>2
<1>3. CASE \E p \in Packets : Arrive(ContentItem(arrived + 1, p, Producer))
  <2>1. RouteOutput(Producer)
    BY <1>3 DEF RouteOutput
  <2> QED
    BY <2>1, PortalTypes DEF Working, Next
<1>4. UNCHANGED vars \/ \E p \in Packets : Arrive(ContentItem(arrived + 1, p, Producer))
  BY <1>1, ApplicationsAssumption DEF ConsumerReceives, ProducerReceives, SendFromLayer4, GetContentObject
<1> QED
  BY <1>2, <1>3, <1>4

LEMMA GenerateTrafficWorks == GenerateTraffic => Working
<1> SUFFICES ASSUME GenerateTraffic PROVE Working
  OBVIOUS
<1>1. \E i \in Interests : Arrive(InterestItem(arrived + 1, i, Consumer, NoConnection))
  BY DEF GenerateTraffic, SendFromLayer4
<1>2. RouteOutput(Consumer)
  BY <1>1 DEF RouteOutput
<1> QED
  BY <1>2, PortalTypes DEF Working, Next

LEMMA NodeStepWorks == [NodeNext]_nodeVars => [Working]_vars
<1>1. ASSUME NEW c \in Connections \ Portals, ReceiveFromLayer2(c) PROVE Working
  BY <1>1 DEF ReceiveFromLayer2, Working, Next
<1>2. ForwarderWorks => Working
  BY DEF ForwarderWorks, Forwarding, Working, Next
<1>3. StartProducer \/ StopProducer => Working
  <2>1. StartProducer => InnerAddRoute(RepositoryPrefix, {Producer})
    BY DEF StartProducer, RegisterAnchor
  <2>2. StopProducer => InnerRemoveRoute(RepositoryPrefix, {Producer})
    BY DEF StopProducer, UnregisterAnchor
  <2>3. RepositoryPrefix \in RoutePrefixes /\ {Producer} \in SUBSET Connections
    BY PortalTypes, ApplicationsAssumption
  <2> QED
    BY <2>1, <2>2, <2>3 DEF Working, Routing
<1>4. StartConsumer \/ StopConsumer => UNCHANGED vars
  BY DEF StartConsumer, StopConsumer
<1>5. UNCHANGED nodeVars => UNCHANGED vars
  BY DEF nodeVars
<1> QED
  BY <1>1, <1>2, <1>3, <1>4, <1>5, DeliverWorks, GenerateTrafficWorks DEF NodeNext

LEMMA NodeWorks == NodeSpec => Works
<1>1. NodeInit => Init
  BY DEF NodeInit
<1> QED
  BY <1>1, NodeStepWorks, PTL DEF NodeSpec, Works

\* So what the forwarder guarantees, it guarantees below the applications: the types of what
\* its tables are given, a packet in one queue until it is through with it, no connection
\* paid more than it asked for, and no Interest that waits for nothing.
THEOREM NodeForwards ==
  NodeSpec => [](TypeOK /\ PacketsConserved /\ NeverOverpaid /\ PendingIsPursued)
BY NodeWorks, WorksTyped, WorksConserved, WorksNeverOverpaid, WorksPursued, PTL

-----------------------------------------------------------------------------
(* What the queues hold in a node *)

\* Nobody asks for an egress connection, an Interest goes to the producer or nowhere, the
\* consumer's Interests live for a while, and content does not come from the consumer.
Plain == {w \in WorkItem :
  /\ w.egress = NoConnection
  /\ IF IsInterest(w) THEN /\ w.route \subseteq {Producer}
                           /\ w.ingress = Consumer => w.interest.lifetime > 0
     ELSE w.ingress # Consumer}

Local ==
  /\ inputQueue \in Seq(Plain) /\ pitQueue \in Seq(Plain)
  /\ csQueue \in Seq(Plain) /\ fibQueue \in Seq(Plain)
  /\ \A p \in RoutePrefixes : fib[p] \subseteq {Producer}
  /\ returned \subseteq done

LEMMA PlainItem ==
  ASSUME NEW w \in Plain
  PROVE  w \in WorkItem /\ w.egress = NoConnection
         /\ (IsInterest(w) => w.route \subseteq {Producer}) /\ (~IsInterest(w) => w.ingress # Consumer)
         /\ (IsInterest(w) /\ w.ingress = Consumer => w.interest.lifetime > 0)
BY DEF Plain

\* An item differs in nothing that makes it plain.
LEMMA StaysPlain ==
  ASSUME NEW w \in Plain, NEW v \in WorkItem,
         v.egress = w.egress, v.interest = w.interest, v.ingress = w.ingress,
         IsInterest(w) => v.route \subseteq {Producer}
  PROVE  v \in Plain
BY DEF Plain, IsInterest

LEMMA PlainArrival ==
  ASSUME Typed, NEW c \in Connections
  PROVE  /\ \A i \in Interests : LET w == InterestItem(arrived + 1, i, c, NoConnection) IN
              Arrive(w) /\ (c = Consumer => i.lifetime > 0) =>
                /\ Arrives(w) /\ w \in Plain /\ w.ingress = c
                /\ w.interest = i /\ IsInterest(w)
         /\ c # Consumer => \A p \in Packets : LET w == ContentItem(arrived + 1, p, c) IN
              Arrive(w) => Arrives(w) /\ w \in Plain /\ w.ingress = c /\ ~IsInterest(w)
<1>1. arrived \in 0 .. MaxPackets /\ MaxPackets \in Nat
  BY BoundsAssumption DEF Typed, QueuesTyped
<1>2. ASSUME NEW i \in Interests, Arrive(InterestItem(arrived + 1, i, c, NoConnection)),
             c = Consumer => i.lifetime > 0
      PROVE  LET w == InterestItem(arrived + 1, i, c, NoConnection) IN
             Arrives(w) /\ w \in Plain /\ w.ingress = c /\ w.interest = i /\ IsInterest(w)
  <2> DEFINE w == InterestItem(arrived + 1, i, c, NoConnection)
  <2>1. arrived + 1 \in 1 .. MaxPackets /\ i # NoInterest
    BY <1>1, <1>2, KeyTypes DEF Arrive
  <2>2. w \in Waiting
    BY <2>1, ItemTypes
  <2>3. /\ w.id = arrived + 1 /\ w.ingress = c /\ w.held = {} /\ w.interest = i
        /\ w.egress = NoConnection /\ w.route = {}
    BY DEF InterestItem
  <2> HIDE DEF w
  <2>4. IsInterest(w)
    BY <2>1, <2>3 DEF IsInterest
  <2>5. w \in Plain
    BY <1>2, <2>2, <2>3, <2>4, ItemSets DEF Plain
  <2> QED
    BY <1>2, <2>2, <2>3, <2>4, <2>5 DEF Arrives, w
<1>3. ASSUME c # Consumer, NEW p \in Packets, Arrive(ContentItem(arrived + 1, p, c))
      PROVE  LET w == ContentItem(arrived + 1, p, c) IN
             Arrives(w) /\ w \in Plain /\ w.ingress = c /\ ~IsInterest(w)
  <2> DEFINE w == ContentItem(arrived + 1, p, c)
  <2>1. arrived + 1 \in 1 .. MaxPackets
    BY <1>1, <1>3 DEF Arrive
  <2>2. w \in Waiting
    BY <2>1, ItemTypes
  <2>3. /\ w.id = arrived + 1 /\ w.ingress = c /\ w.held = {} /\ w.interest = NoInterest
        /\ w.egress = NoConnection
    BY DEF ContentItem
  <2> HIDE DEF w
  <2>4. ~IsInterest(w)
    BY <2>3 DEF IsInterest
  <2>5. w \in Plain
    BY <1>3, <2>2, <2>3, <2>4, ItemSets DEF Plain
  <2> QED
    BY <1>3, <2>2, <2>3, <2>4, <2>5 DEF Arrives, w
<1> QED
  BY <1>2, <1>3

\* The content store puts in an item what it finds; the FIB leads to the producer.
LEMMA CsStartPlain ==
  ASSUME CSP!Typed, NEW q \in Seq(InStore), q \in Seq(Plain), NEW i \in DOMAIN q, CsStart(q, i)
  PROVE  csQueue' \in Seq(Plain)
<1>1. csQueue' \in Seq(InStore) /\ SameQueue(csQueue', q) /\ \A j \in DOMAIN q : j # i => csQueue'[j] = q[j]
  BY CsStartTyped
<1>2. \/ \E p : csQueue'[i] = [q[i] EXCEPT !.packet = p]
      \/ \E b : csQueue'[i] = [q[i] EXCEPT !.added = b]
  BY DEF CsStart
<1>3. q[i] \in Plain /\ q[i] \in WorkItem /\ csQueue'[i] \in WorkItem
  BY <1>1, ItemSets DEF SameQueue
<1>4. csQueue'[i] \in Plain
  <2>1. /\ csQueue'[i].egress = q[i].egress /\ csQueue'[i].interest = q[i].interest
        /\ csQueue'[i].ingress = q[i].ingress /\ csQueue'[i].route = q[i].route
    BY <1>2, <1>3 DEF WorkItem
  <2> QED
    BY <1>3, <2>1, StaysPlain, PlainItem
<1>5. \A j \in DOMAIN csQueue' : csQueue'[j] \in Plain
  BY <1>1, <1>4 DEF SameQueue
<1>6. csQueue' \in Seq(InStore) /\ DOMAIN csQueue' = 1 .. Len(csQueue') /\ Len(csQueue') \in Nat
  BY <1>1
<1> QED
  BY <1>5, <1>6

LEMMA CsPushPlain ==
  ASSUME CSP!Typed, csQueue \in Seq(InStore), csQueue \in Seq(Plain),
         NEW w \in InStore, w \in Plain, CsPush(w)
  PROVE  csQueue' \in Seq(Plain)
<1> DEFINE q == Append(csQueue, w)
<1>1. q \in Seq(InStore) /\ q \in Seq(Plain) /\ Len(q) \in DOMAIN q
  OBVIOUS
<1>2. CsStart(q, Len(q)) \/ csQueue' = q
  BY DEF CsPush, Enqueue
<1> HIDE DEF q
<1> QED
  BY <1>1, <1>2, CsStartPlain

LEMMA CsPopPlain ==
  ASSUME CSP!Typed, csQueue \in Seq(InStore), csQueue \in Seq(Plain),
         NEW i \in DOMAIN csQueue, CsPop(i)
  PROVE  csQueue' \in Seq(Plain)
<1> DEFINE q == RemoveAt(csQueue, i)
<1>1. q \in Seq(InStore) /\ q \in Seq(Plain)
  BY RemoveAtElements
<1>2. (Len(q) >= Servers /\ CsStart(q, Servers)) \/ csQueue' = q
  BY DEF CsPop
<1> HIDE DEF q
<1>3. Len(q) >= Servers => Servers \in DOMAIN q
  BY <1>1, BoundsAssumption
<1> QED
  BY <1>1, <1>2, <1>3, CsStartPlain

LEMMA FibStartPlain ==
  ASSUME F!TypeOK, NEW q \in Seq(Seeking), q \in Seq(Plain), NEW i \in DOMAIN q,
         \A p \in RoutePrefixes : fib[p] \subseteq {Producer}
  PROVE  FibStart(q, i) \in Seq(Plain)
<1> DEFINE w == q[i]
           route == F!Lookup(w.interest.name, w.ingress)
           v == [w EXCEPT !.route = route]
<1>1. w \in Seeking /\ w \in Plain /\ w \in WorkItem /\ w.interest \in Interests
  BY DEF Seeking, WorkItem, IsInterest
<1>2. route \in SUBSET Connections
  BY <1>1, KeyTypes, NamesAssumption, LookupType
<1>3. route \subseteq {Producer}
  <2>1. Len(w.interest.name) \in Nat
    BY <1>1, KeyTypes, NamesAssumption
  <2>2. F!BestMatch(w.interest.name) # 0 =>
          F!Prefix(w.interest.name, F!BestMatch(w.interest.name)) \in RoutePrefixes
    BY <2>1, LookupFindsLongestMatch DEF F!LongestMatch, F!Matches, F!HasEntry
  <2> QED
    BY <2>2 DEF F!Lookup
<1> HIDE DEF route
<1>4. /\ v \in WorkItem /\ v.egress = w.egress /\ v.interest = w.interest
      /\ v.ingress = w.ingress /\ v.route = route
  BY <1>1, <1>2 DEF WorkItem
<1>5. FibStart(q, i) = [q EXCEPT ![i] = v]
  BY DEF FibStart, route
<1> HIDE DEF v
<1>6. v \in Plain
  BY <1>1, <1>3, <1>4, StaysPlain
<1> QED
  BY <1>5, <1>6, ExceptElements

LEMMA FibPushPlain ==
  ASSUME F!TypeOK, fibQueue \in Seq(Seeking), fibQueue \in Seq(Plain),
         NEW w \in Seeking, w \in Plain, FibPush(w),
         \A p \in RoutePrefixes : fib[p] \subseteq {Producer}
  PROVE  fibQueue' \in Seq(Plain)
<1> DEFINE q == Append(fibQueue, w)
<1>1. q \in Seq(Seeking) /\ q \in Seq(Plain) /\ Len(q) \in DOMAIN q
  OBVIOUS
<1>2. fibQueue' = FibStart(q, Len(q)) \/ fibQueue' = q
  BY DEF FibPush, Enqueue
<1> HIDE DEF q
<1> QED
  BY <1>1, <1>2, FibStartPlain

LEMMA FibPopPlain ==
  ASSUME F!TypeOK, fibQueue \in Seq(Seeking), fibQueue \in Seq(Plain),
         NEW i \in DOMAIN fibQueue, FibPop(i),
         \A p \in RoutePrefixes : fib[p] \subseteq {Producer}
  PROVE  fibQueue' \in Seq(Plain)
<1> DEFINE q == RemoveAt(fibQueue, i)
<1>1. q \in Seq(Seeking) /\ q \in Seq(Plain)
  BY RemoveAtElements
<1>2. (Len(q) >= Servers /\ fibQueue' = FibStart(q, Servers)) \/ fibQueue' = q
  BY DEF FibPop
<1> HIDE DEF q
<1>3. Len(q) >= Servers => Servers \in DOMAIN q
  BY <1>1, BoundsAssumption
<1> QED
  BY <1>1, <1>2, <1>3, FibStartPlain

LEMMA ReturnedDone ==
  ASSUME returned \subseteq done, NEW w, NEW route,
         FinishRouteLookup(w, route) \/ Drop(w) \/ Continue
  PROVE  returned' \subseteq done'
BY DEF FinishRouteLookup, Drop, Continue

LEMMA ArrivesLocal ==
  ASSUME Local, NEW w \in Plain, Arrive(w)
  PROVE  Local'
<1>1. inputQueue' = Append(inputQueue, w) /\ UNCHANGED <<pitQueue, csQueue, fibQueue, fib, done, returned>>
  BY DEF Arrive, Enqueue
<1> QED
  BY <1>1 DEF Local

LEMMA ServiceInputQueueLocal ==
  ASSUME Local, ServiceInputQueue
  PROVE  Local'
<1>1. PICK i \in Served(inputQueue) :
        /\ inputQueue' = RemoveAt(inputQueue, i) /\ pitQueue' = Append(pitQueue, inputQueue[i])
        /\ UNCHANGED <<csQueue, fibQueue, fib, done, returned>>
  BY DEF ServiceInputQueue, PitPush, Enqueue
<1>2. i \in DOMAIN inputQueue
  BY DEF Served
<1>3. inputQueue' \in Seq(Plain) /\ pitQueue' \in Seq(Plain)
  BY <1>1, <1>2, RemoveAtElements DEF Local
<1> QED
  BY <1>1, <1>3 DEF Local

LEMMA PitReceiveInterestLocal ==
  ASSUME Typed, Local, PitReceiveInterest
  PROVE  Local'
<1>1. PICK i \in Served(pitQueue) : LET w == pitQueue[i] IN
        /\ IsInterest(w) /\ PitPop(i)
        /\ FinishRouteLookup(w, {}) \/ Continue
        /\ \/ UNCHANGED <<csQueue, fibQueue>>
           \/ CsPush([w EXCEPT !.held = offered]) /\ UNCHANGED fibQueue
           \/ FibPush(w) /\ UNCHANGED csQueue
        /\ UNCHANGED <<inputQueue, fib>>
  BY DEF PitReceiveInterest
<1> DEFINE w == pitQueue[i]
           v == [w EXCEPT !.held = offered]
<1>2. QueuesTyped /\ i \in DOMAIN pitQueue /\ w \in Waiting /\ w \in Plain /\ w \in WorkItem
      /\ F!TypeOK /\ CSP!Typed
  BY ItemSets DEF Typed, QueuesTyped, Served, Local
<1>3. pitQueue' \in Seq(Plain)
  BY <1>1, <1>2, RemoveAtElements DEF Local, PitPop
<1>4. returned' \subseteq done'
  BY <1>1, ReturnedDone DEF Local
<1>5. w.ingress \in Connections /\ w.packet = NoPacket
  BY <1>1, <1>2 DEF Waiting
<1>6. /\ v \in WorkItem /\ v.interest = w.interest /\ v.ingress = w.ingress /\ v.packet = w.packet
      /\ v.egress = w.egress /\ v.route = w.route
  BY <1>2 DEF WorkItem, QueuesTyped
<1>7. v \in InStore /\ w \in Seeking
  BY <1>1, <1>2, <1>5, <1>6 DEF InStore, Seeking, IsInterest
<1>8. csQueue' \in Seq(Plain) /\ fibQueue' \in Seq(Plain)
  <2>1. CASE CsPush(v) /\ UNCHANGED fibQueue
    <3>1. v \in Plain
      BY <1>2, <1>6, StaysPlain, PlainItem
    <3>2. csQueue \in Seq(InStore) /\ csQueue \in Seq(Plain) /\ fibQueue \in Seq(Plain)
      BY <1>2 DEF QueuesTyped, Local
    <3> HIDE DEF v
    <3> QED
      BY <1>2, <1>7, <2>1, <3>1, <3>2, CsPushPlain
  <2>2. CASE FibPush(w) /\ UNCHANGED csQueue
    BY <1>2, <1>7, <2>2, FibPushPlain DEF QueuesTyped, Local
  <2> QED
    BY <1>1, <2>1, <2>2 DEF Local
<1> QED
  BY <1>1, <1>3, <1>4, <1>8 DEF Local

LEMMA PitSatisfyInterestLocal ==
  ASSUME Typed, Local, PitSatisfyInterest
  PROVE  Local'
<1>1. PICK i \in Served(pitQueue) : LET w == pitQueue[i]
                                        route == pitResult'.egress
                                        next == AfterSatisfy(w, route) IN
        /\ ~IsInterest(w) /\ PitPop(i)
        /\ P!SatisfyInterest(w.packet.name, w.packet.hash, w.ingress)
        /\ next = "drop"   => Drop(w) /\ UNCHANGED csQueue
        /\ next = "store"  => CsPush([w EXCEPT !.route = route]) /\ Continue
        /\ next = "finish" => FinishRouteLookup(w, route) /\ UNCHANGED csQueue
        /\ UNCHANGED <<inputQueue, fibQueue, fib>>
  BY Zenon DEF PitSatisfyInterest, csVars
<1> DEFINE w == pitQueue[i]
           route == pitResult'.egress
           v == [w EXCEPT !.route = route]
<1>2. QueuesTyped /\ i \in DOMAIN pitQueue /\ w \in Waiting /\ w \in Plain /\ w \in WorkItem
      /\ CSP!Typed /\ PP!IInv
  BY ItemSets DEF Typed, QueuesTyped, Served, Local
<1>3. pitQueue' \in Seq(Plain)
  BY <1>1, <1>2, RemoveAtElements DEF Local, PitPop
<1>4. returned' \subseteq done'
  BY <1>1, ReturnedDone DEF Local, AfterSatisfy
<1>5. w.packet \in Packets /\ w.egress = NoConnection /\ route \subseteq Connections
  BY <1>1, <1>2, SatisfyIsPitStep, PitTyped
<1> HIDE DEF route
<1>6. csQueue' \in Seq(Plain)
  <2>1. CASE AfterSatisfy(w, route) = "drop" \/ AfterSatisfy(w, route) = "finish"
    BY <1>1, <2>1 DEF Local, route
  <2>2. CASE AfterSatisfy(w, route) = "store"
    <3>1. /\ v \in WorkItem /\ v.interest = w.interest /\ v.ingress = w.ingress
          /\ v.packet = w.packet /\ v.egress = w.egress /\ v.route = route
      BY <1>2, <1>5 DEF WorkItem
    <3>2. route # {} /\ w.ingress # NoConnection
      BY <2>2 DEF AfterSatisfy
    <3>3. v \in InStore /\ v \in Plain
      BY <1>1, <1>2, <1>5, <3>1, <3>2, StaysPlain DEF InStore, IsInterest
    <3>4. CsPush(v)
      BY <1>1, <2>2 DEF route
    <3>5. csQueue \in Seq(InStore) /\ csQueue \in Seq(Plain)
      BY <1>2 DEF QueuesTyped, Local
    <3> HIDE DEF v
    <3> QED
      BY <1>2, <3>3, <3>4, <3>5, CsPushPlain
  <2> QED
    BY <2>1, <2>2 DEF AfterSatisfy
<1> QED
  BY <1>1, <1>3, <1>4, <1>6 DEF Local

LEMMA CsMatchInterestLocal ==
  ASSUME Typed, Local, CsMatchInterest
  PROVE  Local'
<1>1. PICK i \in Served(csQueue) : LET w == csQueue[i] IN
        /\ IsInterest(w) /\ CsPop(i)
        /\ IF w.packet # NoPacket
           THEN PitPush(ContentItem(w.id, w.packet, NoConnection)) /\ UNCHANGED fibQueue
           ELSE FibPush(w) /\ UNCHANGED pitQueue
        /\ UNCHANGED <<inputQueue, fib, done, returned>>
  BY DEF CsMatchInterest, Continue
<1> DEFINE w == csQueue[i]
           v == ContentItem(w.id, w.packet, NoConnection)
<1>2. QueuesTyped /\ i \in DOMAIN csQueue /\ w \in InStore /\ w \in Plain /\ w \in WorkItem
      /\ F!TypeOK /\ CSP!Typed
  BY ItemSets DEF Typed, QueuesTyped, Served, Local
<1>3. csQueue' \in Seq(Plain)
  BY <1>1, <1>2, CsPopPlain DEF QueuesTyped, Local
<1>4. pitQueue' \in Seq(Plain) /\ fibQueue' \in Seq(Plain)
  <2>1. CASE w.packet # NoPacket
    <3>1. w.packet \in Packets /\ w.id \in 1 .. MaxPackets
      BY <1>2, <2>1 DEF WorkItem
    <3>2. v \in WorkItem
      BY <3>1 DEF ContentItem, WorkItem
    <3>3. v.egress = NoConnection /\ v.ingress = NoConnection /\ ~IsInterest(v)
      BY DEF ContentItem, IsInterest
    <3>4. v \in Plain
      BY <3>2, <3>3, PortalTypes DEF Plain
    <3>5. pitQueue' = Append(pitQueue, v) /\ fibQueue' = fibQueue
      BY <1>1, <2>1 DEF PitPush, Enqueue
    <3> HIDE DEF v
    <3> QED
      BY <3>4, <3>5 DEF Local
  <2>2. CASE w.packet = NoPacket
    <3>1. w \in Seeking
      BY <1>1, <1>2, <2>2 DEF Seeking, InStore
    <3> QED
      BY <1>1, <1>2, <2>2, <3>1, FibPushPlain DEF QueuesTyped, Local
  <2> QED
    BY <2>1, <2>2
<1> QED
  BY <1>1, <1>3, <1>4 DEF Local

LEMMA CsAddContentObjectLocal ==
  ASSUME Typed, Local, CsAddContentObject
  PROVE  Local'
<1>1. PICK i \in Served(csQueue) :
        /\ CsPop(i) /\ FinishRouteLookup(csQueue[i], csQueue[i].route)
        /\ UNCHANGED <<inputQueue, pitQueue, fibQueue, fib>>
  BY DEF CsAddContentObject
<1>2. csQueue' \in Seq(Plain)
  BY <1>1, CsPopPlain DEF Typed, QueuesTyped, Local, Served
<1>3. returned' \subseteq done'
  BY <1>1, ReturnedDone DEF Local
<1> QED
  BY <1>1, <1>2, <1>3 DEF Local

LEMMA FibLookupLocal ==
  ASSUME Typed, Local, FibLookup
  PROVE  Local'
<1>1. PICK i \in Served(fibQueue) :
        /\ FibPop(i) /\ FinishRouteLookup(fibQueue[i], fibQueue[i].route)
        /\ UNCHANGED <<inputQueue, pitQueue, csQueue, fib>>
  BY DEF FibLookup
<1>2. fibQueue' \in Seq(Plain)
  BY <1>1, FibPopPlain DEF Typed, QueuesTyped, Local, Served
<1>3. returned' \subseteq done'
  BY <1>1, ReturnedDone DEF Local
<1> QED
  BY <1>1, <1>2, <1>3 DEF Local

\* What comes from outside the forwarder.
LEMMA NodeArrivals ==
  ASSUME Typed
  PROVE  /\ \A c \in Connections \ Portals : ReceiveFromLayer2(c) =>
              \E w \in Plain : Arrives(w) /\ w.ingress = c
         /\ GenerateTraffic =>
              \E w \in Plain : /\ Arrives(w) /\ IsInterest(w) /\ w.ingress = Consumer
                               /\ w.interest.name \in RandomNames
                               /\ outstanding' = outstanding \cup {w.interest.name}
         /\ \A w : ProducerReceives(w) =>
              \/ UNCHANGED <<vars, aborted>>
              \/ aborted' = TRUE /\ UNCHANGED vars
              \/ UNCHANGED aborted /\ \E v \in Plain : Arrives(v) /\ ~IsInterest(v)
<1>1. ASSUME NEW c \in Connections \ Portals, ReceiveFromLayer2(c)
      PROVE  \E w \in Plain : Arrives(w) /\ w.ingress = c
  <2>1. c # Consumer
    BY PortalTypes
  <2>2. CASE \E i \in Interests : Arrive(InterestItem(arrived + 1, i, c, NoConnection))
    BY <2>1, <2>2, PlainArrival
  <2>3. CASE \E p \in Packets : Arrive(ContentItem(arrived + 1, p, c))
    BY <2>1, <2>3, PlainArrival
  <2> QED
    BY <1>1, <2>2, <2>3 DEF ReceiveFromLayer2, RouteInput
<1>2. ASSUME GenerateTraffic
      PROVE  \E w \in Plain : /\ Arrives(w) /\ IsInterest(w) /\ w.ingress = Consumer
                              /\ w.interest.name \in RandomNames
                              /\ outstanding' = outstanding \cup {w.interest.name}
  <2>1. PICK i \in Interests :
          /\ i.name \in RandomNames /\ outstanding' = outstanding \cup {i.name}
          /\ i.lifetime > 0
          /\ Arrive(InterestItem(arrived + 1, i, Consumer, NoConnection))
    BY <1>2 DEF GenerateTraffic, SendFromLayer4
  <2> QED
    BY <2>1, PlainArrival, PortalTypes
<1>3. ASSUME NEW w, ProducerReceives(w)
      PROVE  \/ UNCHANGED <<vars, aborted>>
             \/ aborted' = TRUE /\ UNCHANGED vars
             \/ UNCHANGED aborted /\ \E v \in Plain : Arrives(v) /\ ~IsInterest(v)
  <2>1. CASE UNCHANGED <<vars, aborted>>
    BY <2>1
  <2>2. ASSUME NEW p \in Packets, SendFromLayer4(Producer, ContentItem(arrived + 1, p, Producer))
        PROVE  \/ aborted' = TRUE /\ UNCHANGED vars
               \/ UNCHANGED aborted /\ \E v \in Plain : Arrives(v) /\ ~IsInterest(v)
    <3>1. CASE Producer \in protocols
      <4>1. Arrive(ContentItem(arrived + 1, p, Producer)) /\ UNCHANGED aborted
        BY <2>2, <3>1 DEF SendFromLayer4
      <4> QED
        BY <4>1, PlainArrival, PortalTypes
    <3>2. CASE Producer \notin protocols
      BY <2>2, <3>2 DEF SendFromLayer4
    <3> QED
      BY <3>1, <3>2
  <2> QED
    BY <1>3, <2>1, <2>2, ApplicationsAssumption DEF ProducerReceives, GetContentObject
<1> QED
  BY <1>1, <1>2, <1>3

LEMMA LocalStep == Typed /\ Local /\ [NodeNext]_nodeVars => Local'
<1> SUFFICES ASSUME Typed, Local, [NodeNext]_nodeVars PROVE Local'
  OBVIOUS
<1>1. \A w \in Plain : Arrives(w) => Local'
  BY ArrivesLocal DEF Arrives
<1>2. UNCHANGED vars => Local'
  BY DEF vars, Local
<1>3. ASSUME NEW c \in Connections \ Portals, ReceiveFromLayer2(c) PROVE Local'
  BY <1>1, <1>3, NodeArrivals
<1>4. ForwarderWorks => Local'
  BY ServiceInputQueueLocal, PitReceiveInterestLocal, PitSatisfyInterestLocal, CsMatchInterestLocal,
     CsAddContentObjectLocal, FibLookupLocal DEF ForwarderWorks, Forwarding
<1>5. Deliver => Local'
  BY <1>1, <1>2, NodeArrivals DEF Deliver, ConsumerReceives
<1>6. GenerateTraffic => Local'
  BY <1>1, NodeArrivals
<1>7. ASSUME StartProducer \/ StopProducer PROVE Local'
  <2>1. \/ InnerAddRoute(RepositoryPrefix, {Producer})
        \/ InnerRemoveRoute(RepositoryPrefix, {Producer})
    BY <1>7 DEF StartProducer, StopProducer, RegisterAnchor, UnregisterAnchor
  <2>2. \/ fib' = [fib EXCEPT ![RepositoryPrefix] = @ \cup {Producer}]
        \/ fib' = [fib EXCEPT ![RepositoryPrefix] = @ \ {Producer}]
    BY <2>1 DEF InnerAddRoute, InnerRemoveRoute, F!AddRoute, F!DeleteRoute
  <2>3. \A p \in RoutePrefixes : fib'[p] \subseteq {Producer}
    BY <2>2 DEF Typed, F!TypeOK, Local
  <2>4. UNCHANGED <<inputQueue, pitQueue, csQueue, fibQueue, done, returned>>
    BY <2>1 DEF InnerAddRoute, InnerRemoveRoute, RouteChange
  <2> QED
    BY <2>3, <2>4 DEF Local
<1>8. StartConsumer \/ StopConsumer => UNCHANGED vars
  BY DEF StartConsumer, StopConsumer
<1>9. UNCHANGED nodeVars => UNCHANGED vars
  BY DEF nodeVars
<1> QED
  BY <1>2, <1>3, <1>4, <1>5, <1>6, <1>7, <1>8, <1>9 DEF NodeNext

-----------------------------------------------------------------------------
(* What layer 3 is called back for *)

LEMMA NumberAtLeast ==
  ASSUME NEW T, NEW q \in Seq(T), NEW S
  PROVE  /\ \A i \in DOMAIN q : q[i] \in S => Number(q, S) >= 1
         /\ \A i, j \in DOMAIN q : q[i] \in S /\ q[j] \in S /\ i # j => Number(q, S) >= 2
<1> DEFINE A == {i \in DOMAIN q : q[i] \in S}
<1>1. IsFiniteSet(A) /\ Cardinality(A) \in Nat /\ Number(q, S) = Cardinality(A)
  BY NumberType, FS_CardinalityType DEF Number
<1>2. ASSUME NEW i \in A PROVE Cardinality(A \ {i}) = Cardinality(A) - 1 /\ IsFiniteSet(A \ {i})
                               /\ Cardinality(A \ {i}) \in Nat
  BY <1>1, <1>2, FS_RemoveElement, FS_CardinalityType
<1>3. ASSUME NEW i \in A PROVE Cardinality(A) >= 1
  <2>1. Cardinality(A \ {i}) = Cardinality(A) - 1 /\ Cardinality(A \ {i}) \in Nat
    BY <1>2
  <2> HIDE DEF A
  <2> QED
    BY <1>1, <2>1
<1>4. ASSUME NEW i \in A, NEW j \in A, i # j PROVE Cardinality(A) >= 2
  <2>1. /\ Cardinality(A \ {i}) = Cardinality(A) - 1 /\ IsFiniteSet(A \ {i}) /\ j \in A \ {i}
    BY <1>2, <1>4
  <2>2. Cardinality((A \ {i}) \ {j}) = Cardinality(A \ {i}) - 1
    BY <2>1, FS_RemoveElement
  <2>3. Cardinality((A \ {i}) \ {j}) \in Nat
    BY <2>1, FS_RemoveElement, FS_CardinalityType
  <2> QED
    BY <2>1, <2>2, <2>3, <1>1
<1> HIDE DEF A
<1>5. \A i \in DOMAIN q : q[i] \in S => i \in A
  BY DEF A
<1> QED
  BY <1>1, <1>3, <1>4, <1>5

LEMMA IdTypes ==
  ASSUME Typed, Conserved, NEW w \in WorkItem
  PROVE  /\ Inside(Ids(w.id)) = One(w.id <= arrived /\ w.id \notin done)
         /\ w \in Ids(w.id)
BY DEF Conserved, WorkItem, Ids

\* A packet is in one queue, at one place.
LEMMA OnePlace ==
  ASSUME Typed, Conserved
  PROVE  /\ \A w \in Pipeline : w \in WorkItem /\ w.id \notin done
         /\ \A v, w \in Pipeline : v.id = w.id => v = w
         /\ \A w \in Items(csQueue) \cup Items(fibQueue) : w \notin Items(pitQueue)
<1> DEFINE I(w) == Number(inputQueue, Ids(w.id))
           Q(w) == Number(pitQueue, Ids(w.id))
           C(w) == Number(csQueue, Ids(w.id))
           L(w) == Number(fibQueue, Ids(w.id))
<1>1. /\ inputQueue \in Seq(WorkItem) /\ pitQueue \in Seq(WorkItem)
      /\ csQueue \in Seq(WorkItem) /\ fibQueue \in Seq(WorkItem)
  BY ItemSets DEF Typed, QueuesTyped
<1>2. \A w \in WorkItem : /\ I(w) \in Nat /\ Q(w) \in Nat /\ C(w) \in Nat /\ L(w) \in Nat
                          /\ I(w) + Q(w) + C(w) + L(w) = One(w.id <= arrived /\ w.id \notin done)
  BY NumbersTyped, IdTypes DEF Inside
<1>3. \A w \in WorkItem : I(w) + Q(w) + C(w) + L(w) <= 1
  BY <1>2 DEF One
<1>4. Pipeline \subseteq WorkItem
  BY <1>1 DEF Pipeline, Items
<1>5. ASSUME NEW q \in {inputQueue, pitQueue, csQueue, fibQueue}
      PROVE  /\ \A w \in Items(q) : w \in WorkItem /\ Number(q, Ids(w.id)) >= 1
             /\ \A v, w \in Items(q) : v.id = w.id => v = w
  <2>1. q \in Seq(WorkItem)
    BY <1>1
  <2>2. ASSUME NEW w \in Items(q) PROVE w \in WorkItem /\ Number(q, Ids(w.id)) >= 1
    <3>1. PICK i \in DOMAIN q : w = q[i]
      BY DEF Items
    <3>2. w \in WorkItem /\ q[i] \in Ids(w.id)
      BY <2>1, <3>1 DEF Ids
    <3> QED
      BY <2>1, <3>2, NumberAtLeast
  <2>3. ASSUME NEW v \in Items(q), NEW w \in Items(q), v.id = w.id PROVE v = w
    <3>1. PICK i \in DOMAIN q, j \in DOMAIN q : v = q[i] /\ w = q[j]
      BY DEF Items
    <3>2. q[i] \in Ids(w.id) /\ q[j] \in Ids(w.id) /\ w \in WorkItem
      BY <2>1, <2>3, <3>1 DEF Ids
    <3>3. Number(q, Ids(w.id)) <= 1
      BY <1>2, <1>3, <3>2
    <3>4. i # j => Number(q, Ids(w.id)) >= 2
      BY <2>1, <3>2, NumberAtLeast
    <3>5. Number(q, Ids(w.id)) \in Nat
      BY <1>2, <3>2
    <3> QED
      BY <3>1, <3>3, <3>4, <3>5
  <2> QED
    BY <2>2, <2>3
<1>6. \A w : /\ w \in Items(inputQueue) => w \in WorkItem /\ I(w) >= 1
             /\ w \in Items(pitQueue) => w \in WorkItem /\ Q(w) >= 1
             /\ w \in Items(csQueue) => w \in WorkItem /\ C(w) >= 1
             /\ w \in Items(fibQueue) => w \in WorkItem /\ L(w) >= 1
  BY <1>5
<1>7. ASSUME NEW v \in Pipeline, NEW w \in Pipeline, v.id = w.id
      PROVE  /\ v \in Items(inputQueue) <=> w \in Items(inputQueue)
             /\ v \in Items(pitQueue) <=> w \in Items(pitQueue)
             /\ v \in Items(csQueue) <=> w \in Items(csQueue)
             /\ v \in Items(fibQueue) <=> w \in Items(fibQueue)
  <2>1. I(v) = I(w) /\ Q(v) = Q(w) /\ C(v) = C(w) /\ L(v) = L(w) /\ v \in WorkItem /\ w \in WorkItem
    BY <1>4, <1>7
  <2>2. /\ I(w) \in Nat /\ Q(w) \in Nat /\ C(w) \in Nat /\ L(w) \in Nat
        /\ I(w) + Q(w) + C(w) + L(w) <= 1
    BY <1>2, <1>3, <2>1
  <2>3. /\ v \in Items(inputQueue) => I(w) >= 1
        /\ v \in Items(pitQueue) => Q(w) >= 1
        /\ v \in Items(csQueue) => C(w) >= 1
        /\ v \in Items(fibQueue) => L(w) >= 1
    BY <1>6, <2>1
  <2>4. /\ w \in Items(inputQueue) => I(w) >= 1
        /\ w \in Items(pitQueue) => Q(w) >= 1
        /\ w \in Items(csQueue) => C(w) >= 1
        /\ w \in Items(fibQueue) => L(w) >= 1
    BY <1>6
  <2>5. \/ v \in Items(inputQueue) \/ v \in Items(pitQueue)
        \/ v \in Items(csQueue) \/ v \in Items(fibQueue)
    BY DEF Pipeline
  <2>6. \/ w \in Items(inputQueue) \/ w \in Items(pitQueue)
        \/ w \in Items(csQueue) \/ w \in Items(fibQueue)
    BY DEF Pipeline
  <2> HIDE DEF I, Q, C, L
  <2> QED
    BY <2>2, <2>3, <2>4, <2>5, <2>6
<1>8. \A w \in Pipeline : w \in WorkItem /\ w.id \notin done
  <2> SUFFICES ASSUME NEW w \in Pipeline PROVE w.id \notin done
    BY <1>4
  <2>1. I(w) >= 1 \/ Q(w) >= 1 \/ C(w) >= 1 \/ L(w) >= 1
    BY <1>6 DEF Pipeline
  <2>2. /\ I(w) \in Nat /\ Q(w) \in Nat /\ C(w) \in Nat /\ L(w) \in Nat
        /\ I(w) + Q(w) + C(w) + L(w) = One(w.id <= arrived /\ w.id \notin done)
    BY <1>2, <1>4
  <2> HIDE DEF I, Q, C, L
  <2>3. One(w.id <= arrived /\ w.id \notin done) >= 1
    BY <2>1, <2>2
  <2> QED
    BY <2>3 DEF One
<1>9. \A v, w \in Pipeline : v.id = w.id => v = w
  <2> SUFFICES ASSUME NEW v \in Pipeline, NEW w \in Pipeline, v.id = w.id PROVE v = w
    OBVIOUS
  <2>1. \/ v \in Items(inputQueue) /\ w \in Items(inputQueue)
        \/ v \in Items(pitQueue) /\ w \in Items(pitQueue)
        \/ v \in Items(csQueue) /\ w \in Items(csQueue)
        \/ v \in Items(fibQueue) /\ w \in Items(fibQueue)
    BY <1>7 DEF Pipeline
  <2> QED
    BY <2>1, <1>5
<1>10. \A w \in Items(csQueue) \cup Items(fibQueue) : w \notin Items(pitQueue)
  <2> SUFFICES ASSUME NEW w \in Items(pitQueue), w \in Items(csQueue) \cup Items(fibQueue) PROVE FALSE
    OBVIOUS
  <2>1. Q(w) >= 1 /\ (C(w) >= 1 \/ L(w) >= 1) /\ w \in WorkItem
    BY <1>6
  <2>2. /\ I(w) \in Nat /\ Q(w) \in Nat /\ C(w) \in Nat /\ L(w) \in Nat
        /\ I(w) + Q(w) + C(w) + L(w) <= 1
    BY <1>2, <1>3, <2>1
  <2> HIDE DEF I, Q, C, L
  <2> QED
    BY <2>1, <2>2
<1> QED
  BY <1>8, <1>9, <1>10

\* The forwarder calls layer 3 back with w, in this step.
Returns(w) ==
  /\ w \in Pipeline /\ returned' = returned \cup {w.id}
  /\ owed' = IF IsInterest(w) THEN owed
             ELSE [c \in Connections |-> owed[c] - (IF c \in Egress(w) THEN 1 ELSE 0)]

\* It does so where it ends a packet, with the connections that it found.
LEMMA FinishReturns ==
  ASSUME Typed, Conserved, NEW w, NEW route, FinishRouteLookup(w, route),
         \/ w \in Items(pitQueue) /\ route = IF IsInterest(w) THEN {} ELSE pitResult'.egress
         \/ w \in Items(csQueue) \cup Items(fibQueue) /\ route = w.route
  PROVE  Returns(w) /\ Egress(w) = Outputs(w, route)
<1>1. w \in Pipeline
  BY DEF Pipeline
<1>2. Egress(w) = Outputs(w, route)
  BY OnePlace DEF Egress
<1> QED
  BY <1>1, <1>2 DEF Returns, FinishRouteLookup

\* It calls it back for one packet or for none.
LEMMA EventReturns ==
  ASSUME Typed, Conserved, ForwarderWorks
  PROVE  (\E w : Returns(w)) \/ UNCHANGED <<returned, owed>>
<1>4. CASE ServiceInputQueue
  BY <1>4 DEF ServiceInputQueue
<1>5. CASE PitReceiveInterest
  <2>1. PICK i \in Served(pitQueue) :
          IsInterest(pitQueue[i]) /\ (FinishRouteLookup(pitQueue[i], {}) \/ Continue)
    BY <1>5 DEF PitReceiveInterest
  <2>2. pitQueue[i] \in Items(pitQueue)
    BY DEF Items, Served
  <2> QED
    BY FinishReturns, <2>1, <2>2 DEF Continue
<1>6. CASE PitSatisfyInterest
  <2>1. PICK i \in Served(pitQueue) : LET w == pitQueue[i]
                                          next == AfterSatisfy(w, pitResult'.egress) IN
          /\ ~IsInterest(w)
          /\ next = "drop"   => Drop(w)
          /\ next = "store"  => Continue
          /\ next = "finish" => FinishRouteLookup(w, pitResult'.egress)
    BY <1>6, Zenon DEF PitSatisfyInterest
  <2>2. pitQueue[i] \in Items(pitQueue)
    BY DEF Items, Served
  <2> QED
    BY FinishReturns, <2>1, <2>2 DEF Continue, Drop, AfterSatisfy
<1>7. CASE CsMatchInterest
  BY <1>7 DEF CsMatchInterest, Continue
<1>8. CASE CsAddContentObject
  <2>1. PICK i \in Served(csQueue) : FinishRouteLookup(csQueue[i], csQueue[i].route)
    BY <1>8 DEF CsAddContentObject
  <2>2. csQueue[i] \in Items(csQueue)
    BY DEF Items, Served
  <2> QED
    BY FinishReturns, <2>1, <2>2
<1>9. CASE FibLookup
  <2>1. PICK i \in Served(fibQueue) : FinishRouteLookup(fibQueue[i], fibQueue[i].route)
    BY <1>9 DEF FibLookup
  <2>2. fibQueue[i] \in Items(fibQueue)
    BY DEF Items, Served
  <2> QED
    BY FinishReturns, <2>1, <2>2
<1> QED
  BY <1>4, <1>5, <1>6, <1>7, <1>8, <1>9 DEF ForwarderWorks, Forwarding

\* So the portals get that packet, each once, or nothing.
LEMMA CallbackGives ==
  ASSUME Typed, Conserved, Local, RouteCallback
  PROVE  /\ \A w : Returns(w) => inbox' = [to : Receivers(Egress(w)), item : {w}]
         /\ returned' = returned => inbox' = {}
<1>1. ASSUME NEW w, Returns(w) PROVE inbox' = [to : Receivers(Egress(w)), item : {w}]
  <2>1. w \in Pipeline /\ w.id \notin returned /\ returned' = returned \cup {w.id}
    BY <1>1, OnePlace DEF Returns, Local
  <2>2. {v \in Pipeline : v.id \in returned' \ returned} = {w}
    BY <2>1, OnePlace
  <2>3. inbox' = UNION {[to : Receivers(Egress(v)), item : {v}] : v \in {w}}
    BY <2>2 DEF RouteCallback
  <2> QED
    BY <2>3
<1>2. ASSUME returned' = returned PROVE inbox' = {}
  <2>1. {v \in Pipeline : v.id \in returned' \ returned} = {}
    BY <1>2
  <2> QED
    BY <2>1 DEF RouteCallback
<1> QED
  BY <1>1, <1>2

\* An Interest goes to the producer or nowhere.
LEMMA PlainEgress ==
  ASSUME Local, NEW w \in Pipeline
  PROVE  w \in Plain /\ (IsInterest(w) => Egress(w) \subseteq {Producer})
<1>1. w \in Plain
  BY DEF Pipeline, Items, Local
<1> QED
  BY <1>1, PlainItem DEF Egress, Outputs

-----------------------------------------------------------------------------
(* The consumer gets no more than it asked for *)

\* Is something about to be given to the consumer?
Coming == \E d \in inbox : d.to = Consumer

\* What the consumer has sent is what it is owed, what is about to be given to it, and what
\* it has received: content objects all of them.
Accounted ==
  /\ interestsSent \in Nat /\ contentReceived \in Nat
  /\ \A d \in inbox : d.to = Consumer => ~IsInterest(d.item)
  /\ \A d, e \in inbox : d.to = Consumer /\ e.to = Consumer => d = e
  /\ owed[Consumer] + contentReceived + One(Coming) = interestsSent

LEMMA ForwarderWorksAccounted ==
  ASSUME Typed, Conserved, Local, Accounted, ForwarderWorks
  PROVE  Accounted'
<1>1. inbox = {} /\ RouteCallback /\ UNCHANGED consumerVars
  BY DEF ForwarderWorks, Forwarding, Idle
<1>2. /\ interestsSent \in Nat /\ contentReceived \in Nat
      /\ owed[Consumer] + contentReceived + 0 = interestsSent
      /\ interestsSent' = interestsSent /\ contentReceived' = contentReceived
      /\ owed \in [Connections -> Int] /\ Consumer \in Connections
  BY <1>1, PortalTypes DEF Accounted, Coming, One, consumerVars, Typed, QueuesTyped
<1>3. ASSUME NEW w, Returns(w) PROVE Accounted'
  <2>1. inbox' = [to : Receivers(Egress(w)), item : {w}]
    BY <1>1, <1>3, CallbackGives
  <2>2. w \in Plain /\ (IsInterest(w) => Egress(w) \subseteq {Producer})
    BY <1>3, PlainEgress DEF Returns
  <2>3. \A d \in inbox' : d.to \in Receivers(Egress(w)) /\ d.item = w /\ d = [to |-> d.to, item |-> w]
    BY <2>1
  <2>4. Consumer \in Receivers(Egress(w)) <=> Consumer \in Egress(w)
    BY PortalTypes DEF Receivers
  <2>5. Coming' <=> Consumer \in Egress(w)
    <3>1. Consumer \in Egress(w) => [to |-> Consumer, item |-> w] \in inbox'
      BY <2>1, <2>4
    <3> QED
      BY <2>3, <2>4, <3>1 DEF Coming
  <2>6. Consumer \in Egress(w) => ~IsInterest(w)
    BY <2>2, PortalTypes
  <2>7. owed'[Consumer] = owed[Consumer] - One(Consumer \in Egress(w))
    BY <1>2, <1>3, <2>6 DEF Returns, One
  <2>8. owed'[Consumer] + contentReceived' + One(Coming') = interestsSent'
    BY <1>2, <2>5, <2>7 DEF One
  <2>9. /\ \A d \in inbox' : d.to = Consumer => ~IsInterest(d.item)
        /\ \A d, e \in inbox' : d.to = Consumer /\ e.to = Consumer => d = e
    BY <2>3, <2>4, <2>6
  <2> QED
    BY <1>2, <2>8, <2>9 DEF Accounted, IsInterest, One
<1>4. CASE UNCHANGED <<returned, owed>>
  <2>1. inbox' = {}
    BY <1>1, <1>4, CallbackGives
  <2> QED
    BY <1>2, <1>4, <2>1 DEF Accounted, Coming, One
<1> QED
  BY <1>3, <1>4, EventReturns

LEMMA DeliverAccounted ==
  ASSUME Typed, Local, Accounted, Deliver
  PROVE  Accounted'
<1>1. PICK d \in inbox :
        /\ inbox' = inbox \ {d}
        /\ IF d.to = Consumer THEN ConsumerReceives(d.item) ELSE ProducerReceives(d.item)
  BY DEF Deliver
<1>2. /\ interestsSent \in Nat /\ contentReceived \in Nat
      /\ owed[Consumer] + contentReceived + One(Coming) = interestsSent
      /\ owed[Consumer] \in Int
  BY PortalTypes DEF Accounted, Typed, QueuesTyped
<1>3. /\ \A e \in inbox' : e.to = Consumer => ~IsInterest(e.item)
      /\ \A e, f \in inbox' : e.to = Consumer /\ f.to = Consumer => e = f
  BY <1>1 DEF Accounted
<1>4. CASE d.to = Consumer
  <2>1. contentReceived' = contentReceived + 1 /\ interestsSent' = interestsSent /\ owed' = owed
    BY <1>1, <1>4 DEF ConsumerReceives, vars
  <2>2. Coming /\ ~Coming'
    BY <1>1, <1>4 DEF Coming, Accounted
  <2>3. owed'[Consumer] + contentReceived' + One(Coming') = interestsSent'
    BY <1>2, <2>1, <2>2 DEF One
  <2>4. interestsSent' \in Nat /\ contentReceived' \in Nat
    BY <1>2, <2>1
  <2> QED
    BY <1>3, <2>3, <2>4 DEF Accounted, IsInterest, One
<1>5. CASE d.to # Consumer
  <2>1. contentReceived' = contentReceived /\ interestsSent' = interestsSent
    BY <1>1, <1>5 DEF ProducerReceives, consumerVars
  <2>2. owed' = owed
    BY <1>1, <1>5, NodeArrivals DEF vars, Arrives, Arrive
  <2>3. Coming' <=> Coming
    BY <1>1, <1>5 DEF Coming
  <2> QED
    BY <1>2, <1>3, <2>1, <2>2, <2>3 DEF Accounted, IsInterest, One
<1> QED
  BY <1>4, <1>5

LEMMA AccountedStep ==
  Typed /\ Conserved /\ Local /\ Accounted /\ [NodeNext]_nodeVars => Accounted'
<1> SUFFICES ASSUME Typed, Conserved, Local, Accounted, [NodeNext]_nodeVars PROVE Accounted'
  OBVIOUS
<1>1. UNCHANGED <<inbox, interestsSent, contentReceived>> /\ owed'[Consumer] = owed[Consumer] => Accounted'
  BY DEF Accounted, Coming, IsInterest, One
<1>2. owed \in [Connections -> Int] /\ Consumer \in Connections
  BY PortalTypes DEF Typed, QueuesTyped
<1>3. ASSUME NEW c \in Connections \ Portals, ReceiveFromLayer2(c) PROVE Accounted'
  <2>1. PICK w : Arrives(w) /\ w.ingress = c
    BY <1>3, NodeArrivals
  <2>2. owed'[Consumer] = owed[Consumer]
    BY <1>2, <2>1, PortalTypes DEF Arrives, Arrive
  <2> QED
    BY <1>1, <1>3, <2>2 DEF ReceiveFromLayer2, portalVars, consumerVars
<1>4. CASE GenerateTraffic
  <2>1. PICK w : Arrives(w) /\ IsInterest(w) /\ w.ingress = Consumer
    BY <1>4, NodeArrivals
  <2>2. owed'[Consumer] = owed[Consumer] + 1
    BY <1>2, <2>1 DEF Arrives, Arrive
  <2>3. inbox' = inbox /\ contentReceived' = contentReceived /\ interestsSent' = interestsSent + 1
    BY <1>4 DEF GenerateTraffic, portalVars
  <2>4. /\ interestsSent \in Nat /\ contentReceived \in Nat /\ owed[Consumer] \in Int
        /\ owed[Consumer] + contentReceived + One(Coming) = interestsSent
    BY <1>2 DEF Accounted
  <2>5. Coming' <=> Coming
    BY <2>3 DEF Coming
  <2>6. owed'[Consumer] + contentReceived' + One(Coming') = interestsSent'
    BY <2>2, <2>3, <2>4, <2>5 DEF One
  <2> QED
    BY <2>3, <2>4, <2>6 DEF Accounted, IsInterest, One
<1>5. CASE StartConsumer \/ StopConsumer \/ UNCHANGED nodeVars
  <2>1. UNCHANGED <<inbox, interestsSent, contentReceived, owed>>
    BY <1>5 DEF StartConsumer, StopConsumer, nodeVars, vars, consumerVars, portalVars
  <2> QED
    BY <1>1, <2>1
<1>6. CASE StartProducer \/ StopProducer
  <2>1. UNCHANGED <<inbox, interestsSent, contentReceived>>
    BY <1>6 DEF StartProducer, StopProducer, consumerVars
  <2>2. owed' = owed
    BY <1>6 DEF StartProducer, StopProducer, RegisterAnchor, UnregisterAnchor, InnerAddRoute,
                InnerRemoveRoute, RouteChange
  <2> QED
    BY <1>1, <2>1, <2>2
<1> QED
  BY <1>3, <1>4, <1>5, <1>6, ForwarderWorksAccounted, DeliverAccounted DEF NodeNext

LEMMA NodeInvariant == NodeSpec => [](Typed /\ Conserved /\ Local)
<1>1. NodeInit => Local
  <2> SUFFICES ASSUME NodeInit PROVE Local
    OBVIOUS
  <2>1. /\ inputQueue = <<>> /\ pitQueue = <<>> /\ csQueue = <<>> /\ fibQueue = <<>>
        /\ fib = [p \in RoutePrefixes |-> {}] /\ returned = {}
    BY DEF NodeInit, Init, Empty, F!Init
  <2> QED
    BY <2>1 DEF Local
<1> QED
  BY <1>1, LocalStep, NodeWorks, TypedAlways, ConservedAlways, PTL DEF NodeSpec

LEMMA AccountedAlways == NodeSpec => []Accounted
<1>1. NodeInit => Accounted
  <2> SUFFICES ASSUME NodeInit PROVE Accounted
    OBVIOUS
  <2>1. inbox = {} /\ interestsSent = 0 /\ contentReceived = 0 /\ owed[Consumer] = 0
    BY PortalTypes DEF NodeInit, Init, Empty
  <2> QED
    BY <2>1 DEF Accounted, Coming, One
<1> QED
  BY <1>1, AccountedStep, NodeInvariant, PTL DEF NodeSpec

\* The consumer's statistics never print a negative number of missing Interests: however it
\* retransmits, whatever neighbors ask for and send, and wherever content is cached, it gets
\* no more content objects than it has sent Interests.
THEOREM ConsumerIsNotOverpaid == NodeSpec => []ReceivedWithinSent
<1>1. Typed /\ NeverOverpaid /\ Accounted => ReceivedWithinSent
  <2> SUFFICES ASSUME Typed, NeverOverpaid, Accounted PROVE contentReceived <= interestsSent
    BY DEF ReceivedWithinSent
  <2>1. /\ owed[Consumer] \in Int /\ owed[Consumer] >= 0 /\ contentReceived \in Nat
        /\ owed[Consumer] + contentReceived + One(Coming) = interestsSent
    BY PortalTypes DEF Typed, QueuesTyped, NeverOverpaid, Accounted
  <2> QED
    BY <2>1 DEF One
<1> QED
  BY <1>1, AccountedAlways, NodeInvariant, NodeForwards, PTL

-----------------------------------------------------------------------------
(* No request is forgotten *)

\* The stages of a request, see Tracked.
OnItsWay(q, name) ==
  \E w \in Items(q) : IsInterest(w) /\ w.ingress = Consumer /\ w.interest.name = name
Pending(name)   == Consumer \in PP!LiveRoutes(pit[name])
Answering(name) == \E w \in Items(csQueue) : Consumer \in w.route /\ w.packet.name = name
Given(name)     == \E d \in inbox : d.to = Consumer /\ d.item.packet.name = name

LEMMA Stages ==
  ASSUME NEW name
  PROVE  Tracked(name) <=> \/ OnItsWay(inputQueue, name) \/ OnItsWay(pitQueue, name)
                           \/ Pending(name) \/ Answering(name) \/ Given(name)
<1>1. P!LiveRoutes(pit[name]) = PP!LiveRoutes(pit[name])
  BY DEF P!LiveRoutes, PP!LiveRoutes, P!IsExpired, PP!IsExpired
<1>2. (\E w \in Items(inputQueue) \cup Items(pitQueue) :
         IsInterest(w) /\ w.ingress = Consumer /\ w.interest.name = name)
      <=> OnItsWay(inputQueue, name) \/ OnItsWay(pitQueue, name)
  BY DEF OnItsWay
<1> QED
  BY <1>1, <1>2 DEF Tracked, Pending, Answering, Given

\* The same after a step.
LEMMA StagesNext ==
  ASSUME NEW name
  PROVE  Tracked(name)' <=> \/ OnItsWay(inputQueue', name) \/ OnItsWay(pitQueue', name)
                            \/ Pending(name)' \/ Answering(name)' \/ Given(name)'
<1>1. P!LiveRoutes(pit[name])' = PP!LiveRoutes(pit[name])'
  BY DEF P!LiveRoutes, PP!LiveRoutes, P!IsExpired, PP!IsExpired
<1>2. (\E w \in Items(inputQueue') \cup Items(pitQueue') :
         IsInterest(w) /\ w.ingress = Consumer /\ w.interest.name = name)
      <=> OnItsWay(inputQueue', name) \/ OnItsWay(pitQueue', name)
  BY DEF OnItsWay
<1> QED
  BY <1>1, <1>2 DEF Tracked, Pending, Answering, Given, Items, IsInterest

LEMMA AppendItems ==
  ASSUME NEW T, NEW q \in Seq(T), NEW x \in T
  PROVE  Items(q) \subseteq Items(Append(q, x)) /\ x \in Items(Append(q, x))
<1>1. \A i \in DOMAIN q : i \in DOMAIN Append(q, x) /\ Append(q, x)[i] = q[i]
  OBVIOUS
<1>2. Len(q) + 1 \in DOMAIN Append(q, x) /\ Append(q, x)[Len(q) + 1] = x
  OBVIOUS
<1> QED
  BY <1>1, <1>2 DEF Items

LEMMA RemoveItems ==
  ASSUME NEW T, NEW q \in Seq(T), NEW k \in DOMAIN q, NEW x \in Items(q), x # q[k]
  PROVE  x \in Items(RemoveAt(q, k))
<1>1. PICK i \in DOMAIN q : x = q[i]
  BY DEF Items
<1>2. /\ DOMAIN RemoveAt(q, k) = 1 .. Len(q) - 1 /\ i \in 1 .. Len(q) /\ k \in 1 .. Len(q)
      /\ i # k /\ Len(q) \in Nat
      /\ \A j \in 1 .. Len(q) - 1 : RemoveAt(q, k)[j] = IF j < k THEN q[j] ELSE q[j + 1]
  BY <1>1, RemoveAtElements
<1>3. CASE i < k
  <2>1. i \in DOMAIN RemoveAt(q, k) /\ RemoveAt(q, k)[i] = x
    BY <1>1, <1>2, <1>3
  <2> QED
    BY <2>1 DEF Items
<1>4. CASE i > k
  <2>1. i - 1 \in 1 .. Len(q) - 1 /\ ~(i - 1 < k) /\ i - 1 + 1 = i
    BY <1>2, <1>4
  <2>2. i - 1 \in DOMAIN RemoveAt(q, k) /\ RemoveAt(q, k)[i - 1] = x
    BY <1>1, <1>2, <2>1
  <2> QED
    BY <2>2 DEF Items
<1> QED
  BY <1>2, <1>3, <1>4

\* The start of a service leaves content as it is.
LEMMA SameContent ==
  ASSUME NEW q, NEW r, SameQueue(r, q), NEW w \in Items(q), ~IsInterest(w)
  PROVE  \E v \in Items(r) : v.packet = w.packet /\ v.route = w.route
<1>1. PICK i \in DOMAIN q : w = q[i]
  BY DEF Items
<1>2. i \in DOMAIN r /\ SameWork(r[i], w)
  BY <1>1 DEF SameQueue
<1>3. r[i].packet = w.packet /\ r[i].route = w.route
  BY <1>2 DEF SameWork
<1> QED
  BY <1>2, <1>3 DEF Items

\* What waits in the content store's queue for the consumer is content.
LEMMA AnsweringIsContent ==
  ASSUME Local, NEW w \in Items(csQueue), Consumer \in w.route
  PROVE  ~IsInterest(w)
BY PlainItem, PortalTypes DEF Local, Items

LEMMA CsPushAnswering ==
  ASSUME Typed, Local, NEW w \in InStore, CsPush(w), now' = now, NEW name, Answering(name)
  PROVE  Answering(name)'
<1>1. csQueue \in Seq(InStore) /\ SameQueue(csQueue', Append(csQueue, w))
  BY CsPushTyped DEF Typed, QueuesTyped
<1>2. PICK v \in Items(csQueue) : Consumer \in v.route /\ v.packet.name = name
  BY DEF Answering
<1>3. ~IsInterest(v) /\ v \in Items(Append(csQueue, w))
  BY <1>1, <1>2, AnsweringIsContent, AppendItems
<1> QED
  BY <1>1, <1>2, <1>3, SameContent DEF Answering

LEMMA CsPushAnswers ==
  ASSUME Typed, NEW w \in InStore, ~IsInterest(w), CsPush(w), now' = now, Consumer \in w.route,
         NEW name, w.packet.name = name
  PROVE  Answering(name)'
<1>1. csQueue \in Seq(InStore) /\ SameQueue(csQueue', Append(csQueue, w))
  BY CsPushTyped DEF Typed, QueuesTyped
<1>2. w \in Items(Append(csQueue, w))
  BY <1>1, AppendItems
<1> QED
  BY <1>1, <1>2, SameContent DEF Answering

\* All but the item whose service ended.
LEMMA CsPopAnswering ==
  ASSUME Typed, Local, NEW i \in DOMAIN csQueue, CsPop(i), now' = now, NEW name, Answering(name)
  PROVE  \/ Answering(name)'
         \/ Consumer \in csQueue[i].route /\ csQueue[i].packet.name = name /\ ~IsInterest(csQueue[i])
<1>1. csQueue \in Seq(InStore) /\ SameQueue(csQueue', RemoveAt(csQueue, i))
  BY CsPopTyped DEF Typed, QueuesTyped
<1>2. PICK v \in Items(csQueue) : Consumer \in v.route /\ v.packet.name = name
  BY DEF Answering
<1>3. ~IsInterest(v)
  BY <1>2, AnsweringIsContent
<1>4. ASSUME v # csQueue[i] PROVE Answering(name)'
  <2>1. v \in Items(RemoveAt(csQueue, i))
    BY <1>1, <1>4, RemoveItems
  <2> QED
    BY <1>1, <1>2, <1>3, <2>1, SameContent DEF Answering
<1> QED
  BY <1>2, <1>3, <1>4

\* An Interest takes no live route out of the PIT, and adds its own.
LEMMA ReceiveKeepsPending ==
  ASSUME PP!IInv, NEW key \in PP!Keys, NEW ingress \in Connections, NEW lifetime \in Nat,
         PP!ReceiveInterest(key, FALSE, ingress, lifetime)
  PROVE  /\ \A k \in PP!Keys : Pending(k) => Pending(k)'
         /\ lifetime > 0 /\ ingress = Consumer => Pending(key)'
<1> DEFINE e == PP!Cleaned(PP!Extend(pit[key], now + lifetime))
<1>1. pit \in [PP!Keys -> PP!Entry] /\ now \in Nat /\ now + lifetime \in Nat /\ pit[key] \in PP!Entry
  BY DEF PP!IInv, PP!TypeOK
<1>2. /\ pit' = [pit EXCEPT ![key] = [e EXCEPT !.routes = @ \cup {ingress}]] /\ now' = now
  BY DEF PP!ReceiveInterest, PP!EntryFor
<1>3. /\ \A t \in PP!Time : t > now /\ (t <= pit[key].expiry \/ t <= now + lifetime)
           => t <= e.expiry /\ e.routes = pit[key].routes
  BY <1>1, PP!ExtendKeepsLive, PitAssumptions
<1>4. e \in PP!Entry
  <2>1. PP!Extend(pit[key], now + lifetime) \in PP!Entry
    BY <1>1, PP!EntryTypes, PitAssumptions
  <2> QED
    BY <1>1, <2>1, PP!EntryTypes, PitAssumptions
<1> HIDE DEF e
<1>5. pit'[key].routes = e.routes \cup {ingress} /\ pit'[key].expiry = e.expiry
      /\ \A k \in PP!Keys \ {key} : pit'[k] = pit[k]
  BY <1>1, <1>2, <1>4 DEF PP!Entry
<1>6. e.expiry \in PP!Time /\ pit[key].expiry \in PP!Time /\ \A t \in PP!Time : t \in Int
  BY <1>1, <1>4 DEF PP!Entry, PP!Time, PP!Never
<1>7. ASSUME NEW k \in PP!Keys, Pending(k) PROVE Pending(k)'
  <2>1. Consumer \in pit[k].routes /\ ~(pit[k].expiry <= now)
    BY <1>7 DEF Pending, PP!LiveRoutes, PP!IsExpired
  <2>2. Consumer \in pit'[k].routes /\ ~(pit'[k].expiry <= now')
    <3>1. CASE k = key
      <4>1. pit[key].expiry > now /\ pit[key].expiry <= pit[key].expiry
        BY <1>1, <1>6, <2>1, <3>1
      <4>2. pit[key].expiry <= e.expiry /\ e.routes = pit[key].routes
        BY <1>3, <1>6, <4>1
      <4> QED
        BY <1>1, <1>2, <1>5, <1>6, <2>1, <3>1, <4>1, <4>2
    <3>2. CASE k # key
      BY <1>2, <1>5, <2>1, <3>2
    <3> QED
      BY <3>1, <3>2
  <2> QED
    BY <2>2 DEF Pending, PP!LiveRoutes, PP!IsExpired
<1>8. ASSUME lifetime > 0, ingress = Consumer PROVE Pending(key)'
  <2>1. now + lifetime > now /\ now + lifetime \in PP!Time
    BY <1>1, <1>8 DEF PP!Time
  <2>2. now + lifetime <= e.expiry
    BY <1>1, <1>3, <2>1
  <2>3. Consumer \in pit'[key].routes /\ ~(pit'[key].expiry <= now')
    BY <1>1, <1>2, <1>5, <1>6, <1>8, <2>1, <2>2
  <2> QED
    BY <2>3 DEF Pending, PP!LiveRoutes, PP!IsExpired
<1> QED
  BY <1>7, <1>8

\* Content takes the routes of its name and of its hash only, to answer them.
LEMMA SatisfyAnswersPending ==
  ASSUME PP!IInv, NEW name, NEW hash, NEW ingress, ingress # Consumer,
         PP!SatisfyInterest(name, hash, ingress), NEW k \in PP!Keys, Pending(k)
  PROVE  \/ Pending(k)'
         \/ k \in {name, hash} /\ Consumer \in pitResult'.egress
<1>1. CASE k \in {name, hash}
  <2>1. k \in PP!ContentKeys(name, hash)
    BY <1>1 DEF PP!ContentKeys
  <2>2. Consumer \in PP!Answer(pit[k], ingress)
    BY DEF Pending, PP!Answer
  <2>3. pitResult'.egress = UNION {PP!Answer(pit[j], ingress) : j \in PP!ContentKeys(name, hash)}
    BY DEF PP!SatisfyInterest
  <2> QED
    BY <1>1, <2>1, <2>2, <2>3
<1>2. CASE k \notin {name, hash}
  <2>1. pit'[k] = pit[k] /\ now' = now
    BY <1>2 DEF PP!SatisfyInterest, PP!ContentKeys
  <2> QED
    BY <2>1 DEF Pending, PP!LiveRoutes, PP!IsExpired
<1> QED
  BY <1>1, <1>2

\* What the forwarder returns to the consumer is given to it.
LEMMA ReturnsGive ==
  ASSUME Typed, Conserved, Local, RouteCallback, NEW w, Returns(w), Consumer \in Egress(w),
         NEW name, w.packet.name = name
  PROVE  Given(name)'
<1>1. inbox' = [to : Receivers(Egress(w)), item : {w}]
  BY CallbackGives
<1>2. [to |-> Consumer, item |-> w] \in inbox'
  BY <1>1, PortalTypes DEF Receivers
<1> QED
  BY <1>2 DEF Given

\* A step of the forwarder, and a name that may be asked for.
Tracks(name) ==
  /\ Typed /\ Conserved /\ Local /\ RouteCallback /\ inbox = {}
  /\ name \in Names /\ name \in RandomNames /\ Tracked(name)

LEMMA NamesAreKeys ==
  /\ \A name \in Names : /\ name \in PP!Keys /\ name # NoName /\ name # NullHash /\ name \notin Hashes
                         /\ \A i \in Interests : i.name = name => Key(i) = name
  /\ RandomNames \subseteq Names
<1>1. \A name \in Names : name \in PP!Keys /\ name # NoName /\ name # NullHash /\ name \notin Hashes
  BY PitAssumptions DEF PP!KeysAssumption, PP!Keys
<1> QED
  BY <1>1, KeyTypes, ApplicationsAssumption DEF RandomNames

LEMMA NothingGiven ==
  ASSUME NEW name, Tracks(name)
  PROVE  OnItsWay(inputQueue, name) \/ OnItsWay(pitQueue, name) \/ Pending(name) \/ Answering(name)
BY Stages DEF Tracks, Given

LEMMA ServiceInputQueueTracks ==
  ASSUME NEW name, Tracks(name), ServiceInputQueue
  PROVE  Tracked(name)'
<1>1. PICK i \in Served(inputQueue) :
        /\ inputQueue' = RemoveAt(inputQueue, i) /\ pitQueue' = Append(pitQueue, inputQueue[i])
        /\ UNCHANGED <<csQueue, now, pit>>
  BY DEF ServiceInputQueue, PitPush, Enqueue, pitVars
<1>2. /\ inputQueue \in Seq(WorkItem) /\ pitQueue \in Seq(WorkItem) /\ i \in DOMAIN inputQueue
      /\ inputQueue[i] \in WorkItem
  BY ItemSets DEF Tracks, Typed, QueuesTyped, Served
<1>3. /\ \A w \in Items(inputQueue) : w \in Items(inputQueue') \/ w \in Items(pitQueue')
      /\ Items(pitQueue) \subseteq Items(pitQueue')
  BY <1>1, <1>2, AppendItems, RemoveItems
<1>4. Pending(name) \/ Answering(name) => Pending(name)' \/ Answering(name)'
  BY <1>1 DEF Pending, Answering, PP!LiveRoutes, PP!IsExpired, Items
<1>5. OnItsWay(inputQueue, name) \/ OnItsWay(pitQueue, name)
        => OnItsWay(inputQueue', name) \/ OnItsWay(pitQueue', name)
  BY <1>3 DEF OnItsWay
<1>6. \/ OnItsWay(inputQueue', name) \/ OnItsWay(pitQueue', name) \/ Pending(name)' \/ Answering(name)'
  BY <1>4, <1>5, NothingGiven
<1> QED
  BY <1>6, StagesNext

LEMMA PitReceiveInterestTracks ==
  ASSUME NEW name, Tracks(name), PitReceiveInterest
  PROVE  Tracked(name)'
<1>1. PICK i \in Served(pitQueue) : LET w == pitQueue[i] IN
        /\ IsInterest(w) /\ PitPop(i)
        /\ P!ReceiveInterest(Key(w.interest), FALSE, w.ingress, w.interest.lifetime)
        /\ \/ UNCHANGED csQueue
           \/ CsPush([w EXCEPT !.held = offered])
        /\ UNCHANGED inputQueue
  BY DEF PitReceiveInterest
<1> DEFINE w == pitQueue[i]
           v == [w EXCEPT !.held = offered]
           key == Key(w.interest)
<1>2. /\ pitQueue \in Seq(Waiting) /\ i \in DOMAIN pitQueue /\ w \in Waiting /\ w \in WorkItem
      /\ offered \subseteq Packets /\ PP!IInv /\ w \in Plain
  BY ItemSets DEF Tracks, Typed, QueuesTyped, Served, Local
<1>3. /\ w.interest \in Interests /\ w.ingress \in Connections /\ w.packet = NoPacket
      /\ key \in PP!Keys /\ now' = now
  BY <1>1, <1>2, ReceiveIsPitStep
<1>4. w.interest.lifetime \in Nat /\ PP!ReceiveInterest(key, FALSE, w.ingress, w.interest.lifetime)
  BY <1>1, <1>3, KeyTypes, SameTables
<1>5. name \in PP!Keys /\ name \in RandomNames /\ Local /\ Typed
      /\ \A j \in Interests : j.name = name => Key(j) = name
  BY NamesAreKeys DEF Tracks
<1>6. Pending(name) => Pending(name)'
  BY <1>2, <1>3, <1>4, <1>5, ReceiveKeepsPending
<1>7. w.ingress = Consumer /\ w.interest.name = name => Pending(name)'
  <2> SUFFICES ASSUME w.ingress = Consumer, w.interest.name = name PROVE Pending(name)'
    OBVIOUS
  <2>1. key = name /\ w.interest.lifetime > 0
    BY <1>1, <1>2, <1>3, <1>5, PlainItem
  <2>2. PP!ReceiveInterest(name, FALSE, w.ingress, w.interest.lifetime)
    BY <1>4, <2>1
  <2> QED
    BY <1>2, <1>3, <1>4, <1>5, <2>1, <2>2, ReceiveKeepsPending
<1>8. OnItsWay(pitQueue, name) => OnItsWay(pitQueue', name) \/ Pending(name)'
  <2> SUFFICES ASSUME NEW x \in Items(pitQueue), IsInterest(x), x.ingress = Consumer,
                      x.interest.name = name
               PROVE  OnItsWay(pitQueue', name) \/ Pending(name)'
    BY DEF OnItsWay
  <2>1. CASE x = w
    BY <1>7, <2>1
  <2>2. CASE x # w
    <3>1. x \in Items(pitQueue')
      BY <1>1, <1>2, <2>2, RemoveItems DEF PitPop
    <3> QED
      BY <3>1 DEF OnItsWay
  <2> QED
    BY <2>1, <2>2
<1>9. Answering(name) => Answering(name)'
  <2>1. CASE UNCHANGED csQueue
    BY <2>1 DEF Answering, Items
  <2>2. CASE CsPush(v)
    <3>1. v \in WorkItem /\ v.interest = w.interest /\ v.ingress = w.ingress /\ v.packet = w.packet
      BY <1>2 DEF WorkItem
    <3>2. v \in InStore
      BY <1>1, <1>3, <3>1 DEF InStore, IsInterest
    <3> HIDE DEF v
    <3> QED
      BY <1>3, <1>5, <2>2, <3>2, CsPushAnswering
  <2> QED
    BY <1>1, <2>1, <2>2
<1>10. OnItsWay(inputQueue, name) => OnItsWay(inputQueue', name)
  BY <1>1
<1> QED
  BY <1>6, <1>8, <1>9, <1>10, NothingGiven, StagesNext

LEMMA PitSatisfyInterestTracks ==
  ASSUME NEW name, Tracks(name), PitSatisfyInterest
  PROVE  Tracked(name)'
<1>1. PICK i \in Served(pitQueue) : LET w == pitQueue[i]
                                        route == pitResult'.egress
                                        next == AfterSatisfy(w, route) IN
        /\ ~IsInterest(w) /\ PitPop(i)
        /\ P!SatisfyInterest(w.packet.name, w.packet.hash, w.ingress)
        /\ next = "drop"   => UNCHANGED csQueue
        /\ next = "store"  => CsPush([w EXCEPT !.route = route])
        /\ next = "finish" => FinishRouteLookup(w, route) /\ UNCHANGED csQueue
        /\ UNCHANGED inputQueue
  BY Zenon DEF PitSatisfyInterest, csVars
<1> DEFINE w == pitQueue[i]
           route == pitResult'.egress
           v == [w EXCEPT !.route = route]
<1>2. /\ pitQueue \in Seq(Waiting) /\ i \in DOMAIN pitQueue /\ w \in Waiting /\ w \in WorkItem
      /\ PP!IInv /\ w \in Plain /\ w \in Items(pitQueue)
  BY ItemSets DEF Tracks, Typed, QueuesTyped, Served, Local, Items
<1>3. w.packet \in Packets /\ w.egress = NoConnection /\ now' = now /\ route \subseteq Connections
      /\ PP!SatisfyInterest(w.packet.name, w.packet.hash, w.ingress) /\ w.ingress # Consumer
  BY <1>1, <1>2, SatisfyIsPitStep, PitTyped, SameTables, PlainItem
<1>4. /\ name \in PP!Keys /\ name # NullHash /\ name \notin Hashes /\ Local /\ Typed /\ Conserved
      /\ RouteCallback
  BY NamesAreKeys DEF Tracks
<1> HIDE DEF route
<1>5. OnItsWay(inputQueue, name) \/ OnItsWay(pitQueue, name)
        => OnItsWay(inputQueue', name) \/ OnItsWay(pitQueue', name)
  <2>1. \A x \in Items(pitQueue) : IsInterest(x) => x \in Items(pitQueue')
    BY <1>1, <1>2, RemoveItems DEF PitPop
  <2> QED
    BY <1>1, <2>1 DEF OnItsWay
<1>6. /\ AfterSatisfy(w, route) = "store" => /\ v \in InStore /\ CsPush(v) /\ ~IsInterest(v)
                                             /\ v.packet = w.packet /\ v.route = route
  <2> SUFFICES ASSUME AfterSatisfy(w, route) = "store"
               PROVE  v \in InStore /\ CsPush(v) /\ ~IsInterest(v) /\ v.packet = w.packet /\ v.route = route
    OBVIOUS
  <2>1. /\ v \in WorkItem /\ v.interest = w.interest /\ v.ingress = w.ingress
        /\ v.packet = w.packet /\ v.egress = w.egress /\ v.route = route
    BY <1>2, <1>3 DEF WorkItem
  <2>2. route # {} /\ w.ingress # NoConnection
    BY DEF AfterSatisfy
  <2>3. v \in InStore
    BY <1>1, <1>3, <2>1, <2>2 DEF InStore, IsInterest
  <2> QED
    BY <1>1, <2>1, <2>3 DEF route, IsInterest
<1> HIDE DEF v
<1>7. Answering(name) => Answering(name)'
  <2>1. CASE UNCHANGED csQueue
    BY <2>1 DEF Answering, Items
  <2>2. CASE AfterSatisfy(w, route) = "store"
    BY <1>3, <1>4, <1>6, <2>2, CsPushAnswering
  <2> QED
    BY <1>1, <2>1, <2>2 DEF AfterSatisfy, route
<1>8. Pending(name) => Pending(name)' \/ Answering(name)' \/ Given(name)'
  <2> SUFFICES ASSUME Pending(name), ~Pending(name)' PROVE Answering(name)' \/ Given(name)'
    OBVIOUS
  <2>1. name \in {w.packet.name, w.packet.hash} /\ Consumer \in route
    BY <1>2, <1>3, <1>4, SatisfyAnswersPending DEF route
  <2>2. w.packet.name = name
    <3>1. w.packet.hash \in Hashes \cup {NullHash}
      BY <1>3, KeyTypes
    <3> QED
      BY <1>4, <2>1, <3>1
  <2>3. CASE AfterSatisfy(w, route) = "store"
    <3>1. v.packet.name = name
      BY <1>6, <2>2, <2>3
    <3> QED
      BY <1>3, <1>4, <1>6, <2>1, <2>3, <3>1, CsPushAnswers
  <2>4. CASE AfterSatisfy(w, route) = "finish"
    <3>1. FinishRouteLookup(w, route)
      BY <1>1, <2>4 DEF route
    <3>2. Returns(w) /\ Egress(w) = Outputs(w, route)
      BY <1>1, <1>2, <1>4, <3>1, FinishReturns DEF route
    <3>3. Consumer \in Egress(w)
      BY <1>3, <2>1, <3>2 DEF Outputs
    <3> QED
      BY <1>4, <2>2, <3>2, <3>3, ReturnsGive
  <2> QED
    BY <2>1, <2>3, <2>4 DEF AfterSatisfy
<1> QED
  BY <1>5, <1>7, <1>8, NothingGiven, StagesNext

LEMMA CsMatchInterestTracks ==
  ASSUME NEW name, Tracks(name), CsMatchInterest
  PROVE  Tracked(name)'
<1>1. PICK i \in Served(csQueue) : LET w == csQueue[i] IN
        /\ IsInterest(w) /\ CsPop(i)
        /\ pitQueue' = pitQueue \/ \E x \in WorkItem : pitQueue' = Append(pitQueue, x)
        /\ UNCHANGED <<inputQueue, now, pit>>
  <2>1. PICK i \in Served(csQueue) : LET w == csQueue[i] IN
          /\ IsInterest(w) /\ CsPop(i)
          /\ w.packet # NoPacket => pitQueue' = Append(pitQueue, ContentItem(w.id, w.packet, NoConnection))
          /\ w.packet = NoPacket => pitQueue' = pitQueue
          /\ UNCHANGED <<inputQueue, now, pit>>
    BY DEF CsMatchInterest, PitPush, Enqueue, pitVars
  <2> DEFINE w == csQueue[i]
  <2>2. w \in WorkItem
    BY ItemSets DEF Tracks, Typed, QueuesTyped, Served
  <2>3. w.packet # NoPacket => ContentItem(w.id, w.packet, NoConnection) \in WorkItem
    BY <2>2 DEF ContentItem, WorkItem
  <2> QED
    BY <2>1, <2>3
<1>2. i \in DOMAIN csQueue /\ pitQueue \in Seq(WorkItem) /\ Local /\ Typed
  BY ItemSets DEF Tracks, Typed, QueuesTyped, Served
<1>3. Answering(name) => Answering(name)'
  BY <1>1, <1>2, CsPopAnswering
<1>4. Items(pitQueue) \subseteq Items(pitQueue')
  BY <1>1, <1>2, AppendItems
<1>5. OnItsWay(inputQueue, name) \/ OnItsWay(pitQueue, name)
        => OnItsWay(inputQueue', name) \/ OnItsWay(pitQueue', name)
  BY <1>1, <1>4 DEF OnItsWay
<1>6. Pending(name) => Pending(name)'
  BY <1>1 DEF Pending, PP!LiveRoutes, PP!IsExpired
<1> QED
  BY <1>3, <1>5, <1>6, NothingGiven, StagesNext

LEMMA CsAddContentObjectTracks ==
  ASSUME NEW name, Tracks(name), CsAddContentObject
  PROVE  Tracked(name)'
<1>1. PICK i \in Served(csQueue) :
        /\ CsPop(i) /\ FinishRouteLookup(csQueue[i], csQueue[i].route)
        /\ UNCHANGED <<inputQueue, pitQueue, now, pit>>
  BY DEF CsAddContentObject, pitVars
<1> DEFINE w == csQueue[i]
<1>2. i \in DOMAIN csQueue /\ Local /\ Typed /\ Conserved /\ RouteCallback /\ w \in Plain
      /\ w \in Items(csQueue)
  BY DEF Tracks, Served, Local, Items
<1>3. Answering(name) => Answering(name)' \/ Given(name)'
  <2> SUFFICES ASSUME Answering(name), ~Answering(name)' PROVE Given(name)'
    OBVIOUS
  <2>1. Consumer \in w.route /\ w.packet.name = name
    BY <1>1, <1>2, CsPopAnswering
  <2>2. Returns(w) /\ Egress(w) = Outputs(w, w.route)
    BY <1>1, <1>2, FinishReturns
  <2>3. Consumer \in Egress(w)
    BY <1>2, <2>1, <2>2, PlainItem DEF Outputs
  <2> QED
    BY <1>2, <2>1, <2>2, <2>3, ReturnsGive
<1>4. OnItsWay(inputQueue, name) \/ OnItsWay(pitQueue, name)
        => OnItsWay(inputQueue', name) \/ OnItsWay(pitQueue', name)
  BY <1>1
<1>5. Pending(name) => Pending(name)'
  BY <1>1 DEF Pending, PP!LiveRoutes, PP!IsExpired
<1> QED
  BY <1>3, <1>4, <1>5, NothingGiven, StagesNext

LEMMA FibLookupTracks ==
  ASSUME NEW name, Tracks(name), FibLookup
  PROVE  Tracked(name)'
<1>1. UNCHANGED <<inputQueue, pitQueue, csQueue, now, pit>>
  BY DEF FibLookup, pitVars
<1>2. Pending(name) \/ Answering(name) => Pending(name)' \/ Answering(name)'
  BY <1>1 DEF Pending, Answering, PP!LiveRoutes, PP!IsExpired, Items
<1>3. OnItsWay(inputQueue, name) \/ OnItsWay(pitQueue, name)
        => OnItsWay(inputQueue', name) \/ OnItsWay(pitQueue', name)
  BY <1>1
<1> QED
  BY <1>2, <1>3, NothingGiven, StagesNext

\* A packet that arrives, or no packet.
LEMMA StaysTracked ==
  ASSUME Typed, NEW name, Tracked(name),
         inputQueue' = inputQueue \/ \E w \in WorkItem : inputQueue' = Append(inputQueue, w),
         UNCHANGED <<pitQueue, csQueue, now, pit>>,
         Given(name) => Given(name)'
  PROVE  Tracked(name)'
<1>1. Items(inputQueue) \subseteq Items(inputQueue')
  <2>1. inputQueue \in Seq(WorkItem)
    BY ItemSets DEF Typed, QueuesTyped
  <2> QED
    BY <2>1, AppendItems
<1>2. OnItsWay(inputQueue, name) \/ OnItsWay(pitQueue, name)
        => OnItsWay(inputQueue', name) \/ OnItsWay(pitQueue', name)
  BY <1>1 DEF OnItsWay
<1>3. Pending(name) \/ Answering(name) => Pending(name)' \/ Answering(name)'
  BY DEF Pending, Answering, PP!LiveRoutes, PP!IsExpired, Items
<1> QED
  BY <1>2, <1>3, Stages, StagesNext

LEMMA ArrivalKeepsTables ==
  ASSUME NEW w \in Plain, Arrives(w)
  PROVE  /\ \E v \in WorkItem : inputQueue' = Append(inputQueue, v)
         /\ inputQueue' = Append(inputQueue, w)
         /\ UNCHANGED <<pitQueue, csQueue, now, pit>>
BY PlainItem DEF Arrives, Arrive, Enqueue, pitVars

\* Every request that the consumer counts as outstanding is at one of its stages.
Tracking == outstanding \subseteq RandomNames /\ OutstandingIsTracked

LEMMA ForwarderWorksTracks ==
  ASSUME Typed, Conserved, Local, Tracking, ForwarderWorks
  PROVE  Tracking'
<1>1. ~aborted /\ inbox = {} /\ RouteCallback /\ outstanding' = outstanding /\ aborted' = aborted
  BY DEF ForwarderWorks, Forwarding, Idle, consumerVars
<1>2. \A name \in outstanding : Tracks(name)
  BY <1>1, NamesAreKeys DEF Tracking, OutstandingIsTracked, Tracks
<1>3. ASSUME NEW name \in outstanding PROVE Tracked(name)'
  BY <1>2, ServiceInputQueueTracks, PitReceiveInterestTracks, PitSatisfyInterestTracks,
     CsMatchInterestTracks, CsAddContentObjectTracks, FibLookupTracks DEF ForwarderWorks, Forwarding
<1> QED
  BY <1>1, <1>3 DEF Tracking, OutstandingIsTracked, RandomNames

\* When the consumer receives, it strikes the name of the content out, and is to receive
\* nothing else.
LEMMA DeliverTracks ==
  ASSUME Typed, Accounted, Tracking, Deliver
  PROVE  Tracking'
<1>1. PICK d \in inbox :
        /\ inbox' = inbox \ {d}
        /\ IF d.to = Consumer THEN ConsumerReceives(d.item) ELSE ProducerReceives(d.item)
  BY DEF Deliver
<1>2. ~aborted /\ outstanding \subseteq RandomNames
  BY DEF Deliver, Tracking
<1>3. CASE d.to = Consumer
  <2>1. UNCHANGED vars /\ outstanding' = outstanding \ {d.item.packet.name}
    BY <1>1, <1>3 DEF ConsumerReceives, Accounted
  <2>2. ASSUME NEW name \in outstanding' PROVE Tracked(name)'
    <3>1. name \in outstanding /\ name # d.item.packet.name
      BY <2>1, <2>2
    <3>2. Tracked(name)
      BY <1>2, <3>1 DEF Tracking, OutstandingIsTracked
    <3>3. Given(name) => Given(name)'
      BY <1>1, <3>1 DEF Given
    <3>4. UNCHANGED <<inputQueue, pitQueue, csQueue, now, pit>>
      BY <2>1 DEF vars, pitVars
    <3> QED
      BY <3>2, <3>3, <3>4, StaysTracked
  <2> QED
    BY <1>2, <2>1, <2>2 DEF Tracking, OutstandingIsTracked, RandomNames
<1>4. CASE d.to # Consumer
  <2>1. outstanding' = outstanding
    BY <1>1, <1>4 DEF ProducerReceives, consumerVars
  <2>2. ASSUME NEW name \in outstanding, ~aborted' PROVE Tracked(name)'
    <3>1. Tracked(name)
      BY <1>2, <2>2 DEF Tracking, OutstandingIsTracked
    <3>2. Given(name) => Given(name)'
      BY <1>1, <1>4 DEF Given
    <3>3. UNCHANGED vars \/ \E v \in Plain : Arrives(v)
      BY <1>1, <1>4, NodeArrivals
    <3>4. /\ UNCHANGED <<pitQueue, csQueue, now, pit>>
          /\ inputQueue' = inputQueue \/ \E v \in WorkItem : inputQueue' = Append(inputQueue, v)
      BY <3>3, ArrivalKeepsTables DEF vars, pitVars
    <3> QED
      BY <3>1, <3>2, <3>4, StaysTracked
  <2> QED
    BY <1>2, <2>1, <2>2 DEF Tracking, OutstandingIsTracked, RandomNames
<1> QED
  BY <1>3, <1>4

\* A request starts as an Interest in the input queue.
LEMMA GenerateTrafficTracks ==
  ASSUME Typed, Tracking, GenerateTraffic
  PROVE  Tracking'
<1>1. PICK w \in Plain : /\ Arrives(w) /\ IsInterest(w) /\ w.ingress = Consumer
                         /\ w.interest.name \in RandomNames
                         /\ outstanding' = outstanding \cup {w.interest.name}
  BY NodeArrivals
<1>2. ~aborted /\ inbox' = inbox /\ outstanding \subseteq RandomNames
  BY DEF GenerateTraffic, Idle, portalVars, Tracking
<1>3. /\ inputQueue' = Append(inputQueue, w) /\ UNCHANGED <<pitQueue, csQueue, now, pit>>
      /\ w \in WorkItem /\ inputQueue \in Seq(WorkItem)
  BY <1>1, ArrivalKeepsTables, PlainItem, ItemSets DEF Typed, QueuesTyped
<1>4. ASSUME NEW name \in outstanding' PROVE Tracked(name)'
  <2>1. CASE name = w.interest.name
    <3>1. w \in Items(inputQueue')
      BY <1>3, AppendItems
    <3>2. OnItsWay(inputQueue', name)
      BY <1>1, <2>1, <3>1 DEF OnItsWay
    <3> QED
      BY <3>2, StagesNext
  <2>2. CASE name # w.interest.name
    <3>1. Tracked(name)
      BY <1>1, <1>2, <1>4, <2>2 DEF Tracking, OutstandingIsTracked
    <3>2. Given(name) => Given(name)'
      BY <1>2 DEF Given
    <3> QED
      BY <1>3, <3>1, <3>2, StaysTracked
  <2> QED
    BY <2>1, <2>2
<1> QED
  BY <1>1, <1>2, <1>4 DEF Tracking, OutstandingIsTracked, RandomNames

LEMMA TrackingStep ==
  Typed /\ Conserved /\ Local /\ Accounted /\ Tracking /\ [NodeNext]_nodeVars => Tracking'
<1> SUFFICES ASSUME Typed, Conserved, Local, Accounted, Tracking, [NodeNext]_nodeVars PROVE Tracking'
  OBVIOUS
\* What neither starts nor ends a request.
<1>1. ASSUME UNCHANGED <<inbox, outstanding, aborted, pitQueue, csQueue, now, pit>>,
             inputQueue' = inputQueue \/ \E w \in WorkItem : inputQueue' = Append(inputQueue, w)
      PROVE  Tracking'
  <2>1. ASSUME NEW name \in outstanding, ~aborted PROVE Tracked(name)'
    <3>1. Tracked(name)
      BY <2>1 DEF Tracking, OutstandingIsTracked
    <3>2. Given(name) => Given(name)'
      BY <1>1 DEF Given
    <3> QED
      BY <1>1, <3>1, <3>2, StaysTracked
  <2> QED
    BY <1>1, <2>1 DEF Tracking, OutstandingIsTracked, RandomNames
<1>2. ASSUME NEW c \in Connections \ Portals, ReceiveFromLayer2(c) PROVE Tracking'
  <2>1. PICK w \in Plain : Arrives(w)
    BY <1>2, NodeArrivals
  <2>2. UNCHANGED <<inbox, outstanding, aborted>>
    BY <1>2 DEF ReceiveFromLayer2, portalVars, consumerVars
  <2> QED
    BY <1>1, <2>1, <2>2, ArrivalKeepsTables
<1>3. CASE StartConsumer \/ StopConsumer \/ UNCHANGED nodeVars
  <2>1. UNCHANGED <<inbox, outstanding, aborted, pitQueue, csQueue, now, pit, inputQueue>>
    BY <1>3 DEF StartConsumer, StopConsumer, nodeVars, vars, pitVars, consumerVars, portalVars
  <2> QED
    BY <1>1, <2>1
<1>4. CASE StartProducer \/ StopProducer
  <2>1. UNCHANGED <<inbox, outstanding, aborted>>
    BY <1>4 DEF StartProducer, StopProducer, consumerVars
  <2>2. UNCHANGED <<pitQueue, csQueue, now, pit, inputQueue>>
    BY <1>4 DEF StartProducer, StopProducer, RegisterAnchor, UnregisterAnchor, InnerAddRoute,
                InnerRemoveRoute, RouteChange, pitVars
  <2> QED
    BY <1>1, <2>1, <2>2
<1> QED
  BY <1>2, <1>3, <1>4, ForwarderWorksTracks, DeliverTracks, GenerateTrafficTracks DEF NodeNext

\* No Interest of the consumer gets lost in its node, and no content is taken from a request
\* without being given to the consumer: unless the program has ended, each outstanding
\* request is on its way to the PIT, pending there, or being answered, whatever neighbors ask
\* for and send, whether or not the producer runs, and whatever content comes meanwhile.
THEOREM RequestsAreTracked == NodeSpec => []OutstandingIsTracked
<1>1. NodeInit => Tracking
  BY DEF NodeInit, Tracking, OutstandingIsTracked
<1>2. Tracking => OutstandingIsTracked
  BY DEF Tracking
<1> QED
  BY <1>1, <1>2, TrackingStep, AccountedAlways, NodeInvariant, PTL DEF NodeSpec
=============================================================================
