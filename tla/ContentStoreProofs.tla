-------------------------- MODULE ContentStoreProofs --------------------------
(***************************************************************************)
(* What the content store guarantees for any packets, any capacity and any *)
(* length of time: the maps and the list agree, the list is bounded, and   *)
(* the store is the LRU cache of LruCache.                                 *)
(*                                                                         *)
(* All of it rests on the packets being Uniform, but for the types and     *)
(* that a map leads to packets with its key.  The inductive invariant      *)
(* adds to the agreement of maps and list that no entry is in the list     *)
(* twice and that a map leads to entries of packets with its key.          *)
(***************************************************************************)
EXTENDS ContentStore, SequenceTheorems, TLAPS

\* The maps and the list of a store s, over the entries of packets c.
StoreOf(c) == [byName : [Names -> DOMAIN c \cup {NoEntry}],
               byHash : [Hashes -> DOMAIN c \cup {NoEntry}], lru : Seq(DOMAIN c)]

\* No entry is in the list twice.
ListedOnce(s) == \A i, j \in DOMAIN s.lru : s.lru[i] = s.lru[j] => i = j

\* A map leads to listed entries of packets with its key.
MappedByKey(s, c) ==
  /\ \A n \in Names : s.byName[n] # NoEntry =>
       s.byName[n] \in ToSet(s.lru) /\ c[s.byName[n]].name = n
  /\ \A h \in Hashes : s.byHash[h] # NoEntry =>
       s.byHash[h] \in ToSet(s.lru) /\ c[s.byHash[h]].hash = h

\* A listed entry is the one its packet leads to.
ListedAreFound(s, c) == \A e \in ToSet(s.lru) : EntryOf(s, c[e]) = e

Agrees(s, c) == s \in StoreOf(c) /\ ListedOnce(s) /\ MappedByKey(s, c) /\ ListedAreFound(s, c)

\* What holds of any packets: a hit has the name or the hash that was asked for.
KeysKept(s, c) ==
  /\ \A n \in Names  : s.byName[n] # NoEntry => c[s.byName[n]].name = n
  /\ \A h \in Hashes : s.byHash[h] # NoEntry => c[s.byHash[h]].hash = h

Typed ==
  /\ now \in Nat /\ created \in Seq(Packets) /\ served \in Packets \cup {NoPacket}
  /\ store \in StoreOf(created) /\ KeysKept(store, created)

IInv ==
  /\ now \in Nat /\ created \in Seq(Packets) /\ served \in Packets \cup {NoPacket}
  /\ Agrees(store, created) /\ CapacityRespected

-----------------------------------------------------------------------------
(* Lists *)

\* RemoveAt moves what follows one place forward.
LEMMA RemoveAtElements ==
  ASSUME NEW S, NEW s \in Seq(S), NEW k \in DOMAIN s
  PROVE  /\ RemoveAt(s, k) \in Seq(S)
         /\ Len(RemoveAt(s, k)) = Len(s) - 1
         /\ DOMAIN RemoveAt(s, k) = 1 .. Len(s) - 1
         /\ \A i \in 1 .. Len(s) - 1 : RemoveAt(s, k)[i] = IF i < k THEN s[i] ELSE s[i + 1]
<1> DEFINE a == SubSeq(s, 1, k - 1)
           b == SubSeq(s, k + 1, Len(s))
<1>1. k \in 1 .. Len(s) /\ Len(s) \in Nat /\ k \in Nat
  OBVIOUS
<1>2. a \in Seq(S) /\ Len(a) = k - 1 /\ \A i \in 1 .. k - 1 : a[i] = s[i]
  BY <1>1
<1>3. b \in Seq(S) /\ Len(b) = Len(s) - k /\ \A i \in 1 .. Len(s) - k : b[i] = s[i + k]
  BY <1>1
<1>a. RemoveAt(s, k) = a \o b
  BY DEF RemoveAt
<1> HIDE DEF a, b
<1>4. a \o b \in Seq(S) /\ Len(a \o b) = Len(s) - 1
  BY <1>1, <1>2, <1>3
<1>5. \A i \in 1 .. Len(s) - 1 : (a \o b)[i] = IF i < k THEN s[i] ELSE s[i + 1]
  <2> SUFFICES ASSUME NEW i \in 1 .. Len(s) - 1
               PROVE  (a \o b)[i] = IF i < k THEN s[i] ELSE s[i + 1]
    OBVIOUS
  <2>1. (a \o b)[i] = IF i <= Len(a) THEN a[i] ELSE b[i - Len(a)]
    BY <1>1, <1>2, <1>3
  <2>2. CASE i < k
    BY <2>1, <2>2, <1>1, <1>2
  <2>3. CASE i >= k
    <3>1. i - (k - 1) \in 1 .. Len(s) - k /\ (i - (k - 1)) + k = i + 1
      BY <2>3, <1>1
    <3> QED
      BY <2>1, <2>3, <3>1, <1>1, <1>2, <1>3
  <2>4. i < k \/ i >= k
    BY <1>1
  <2> QED
    BY <2>2, <2>3, <2>4, Zenon
<1> QED
  BY <1>a, <1>1, <1>4, <1>5

\* Without takes an entry that is in the list once out of it, wherever it is, and keeps
\* the others in their order.
LEMMA WithoutElements ==
  ASSUME NEW S, NEW lru \in Seq(S), NEW k \in DOMAIN lru,
         \A i, j \in DOMAIN lru : lru[i] = lru[j] => i = j
  PROVE  /\ Without(lru, lru[k]) = RemoveAt(lru, k)
         /\ ToSet(Without(lru, lru[k])) = ToSet(lru) \ {lru[k]}
         /\ \A i, j \in DOMAIN Without(lru, lru[k]) :
              Without(lru, lru[k])[i] = Without(lru, lru[k])[j] => i = j
<1>1. (CHOOSE i \in DOMAIN lru : lru[i] = lru[k]) = k
  OBVIOUS
<1>2. Without(lru, lru[k]) = RemoveAt(lru, k)
  BY <1>1 DEF Without, ToSet
<1> DEFINE w == RemoveAt(lru, k)
<1>3. /\ DOMAIN w = 1 .. Len(lru) - 1
      /\ \A i \in 1 .. Len(lru) - 1 : w[i] = IF i < k THEN lru[i] ELSE lru[i + 1]
      /\ DOMAIN lru = 1 .. Len(lru) /\ Len(lru) \in Nat /\ k \in Nat /\ k <= Len(lru)
  <2>1. DOMAIN lru = 1 .. Len(lru) /\ Len(lru) \in Nat /\ k \in Nat /\ k <= Len(lru)
    OBVIOUS
  <2>2. /\ DOMAIN w = 1 .. Len(lru) - 1
        /\ \A i \in 1 .. Len(lru) - 1 : w[i] = IF i < k THEN lru[i] ELSE lru[i + 1]
    BY RemoveAtElements, Zenon
  <2> QED
    BY <2>1, <2>2
<1> HIDE DEF w
<1>4. \A i \in DOMAIN w : w[i] \in ToSet(lru) \ {lru[k]}
  <2> SUFFICES ASSUME NEW i \in DOMAIN w
               PROVE  w[i] \in ToSet(lru) \ {lru[k]}
    OBVIOUS
  <2>1. PICK j \in DOMAIN lru : w[i] = lru[j] /\ j # k
    BY <1>3
  <2> QED
    BY <2>1 DEF ToSet
<1>5. \A j \in DOMAIN lru : j # k => \E i \in DOMAIN w : w[i] = lru[j]
  <2> SUFFICES ASSUME NEW j \in DOMAIN lru, j # k
               PROVE  \E i \in DOMAIN w : w[i] = lru[j]
    OBVIOUS
  <2>1. CASE j < k
    BY <2>1, <1>3
  <2>2. CASE j > k
    <3>1. j - 1 \in DOMAIN w /\ w[j - 1] = lru[j]
      BY <2>2, <1>3
    <3> QED
      BY <3>1
  <2> QED
    BY <2>1, <2>2, <1>3
<1>6. ToSet(w) = ToSet(lru) \ {lru[k]}
  BY <1>4, <1>5 DEF ToSet
<1>7. \A i, j \in DOMAIN w : w[i] = w[j] => i = j
  <2> DEFINE old(i) == IF i < k THEN i ELSE i + 1
  <2>1. \A i \in DOMAIN w : old(i) \in DOMAIN lru /\ w[i] = lru[old(i)]
    BY <1>3
  <2>2. \A i, j \in DOMAIN w : old(i) = old(j) => i = j
    BY <1>3
  <2> HIDE DEF old
  <2> QED
    BY <2>1, <2>2
<1> QED
  BY <1>2, <1>6, <1>7 DEF w

\* An entry put in front of a list is the first of it.
LEMMA FrontElements ==
  ASSUME NEW S, NEW s \in Seq(S), NEW e \in S
  PROVE  /\ <<e>> \o s \in Seq(S)
         /\ Len(<<e>> \o s) = Len(s) + 1
         /\ DOMAIN (<<e>> \o s) = 1 .. Len(s) + 1
         /\ ToSet(<<e>> \o s) = ToSet(s) \cup {e}
         /\ \A i \in 1 .. Len(s) + 1 : (<<e>> \o s)[i] = IF i = 1 THEN e ELSE s[i - 1]
<1>1. <<e>> \in Seq(S) /\ Len(<<e>>) = 1 /\ <<e>>[1] = e
  OBVIOUS
<1> DEFINE t == <<e>> \o s
<1>2. /\ t \in Seq(S) /\ Len(t) = Len(s) + 1 /\ DOMAIN t = 1 .. Len(s) + 1
      /\ DOMAIN s = 1 .. Len(s) /\ Len(s) \in Nat
      /\ \A i \in 1 .. Len(s) + 1 : t[i] = IF i = 1 THEN e ELSE s[i - 1]
  BY <1>1
<1> HIDE DEF t
<1>3. \A i \in DOMAIN t : t[i] \in ToSet(s) \cup {e}
  <2> SUFFICES ASSUME NEW i \in DOMAIN t
               PROVE  t[i] \in ToSet(s) \cup {e}
    OBVIOUS
  <2>1. i = 1 \/ i - 1 \in DOMAIN s
    BY <1>2
  <2> QED
    BY <2>1, <1>2 DEF ToSet
<1>4. e \in ToSet(t)
  BY <1>2 DEF ToSet
<1>5. \A i \in DOMAIN s : s[i] \in ToSet(t)
  <2> SUFFICES ASSUME NEW i \in DOMAIN s
               PROVE  s[i] \in ToSet(t)
    OBVIOUS
  <2>1. i + 1 \in DOMAIN t /\ t[i + 1] = s[i]
    BY <1>2
  <2> QED
    BY <2>1 DEF ToSet
<1>6. ToSet(t) = ToSet(s) \cup {e}
  BY <1>3, <1>4, <1>5 DEF ToSet
<1> QED
  BY <1>2, <1>6 DEF t

-----------------------------------------------------------------------------
(* Types, for any packets *)

LEMMA WithoutTyped ==
  ASSUME NEW S, NEW lru \in Seq(S), NEW e
  PROVE  Without(lru, e) \in Seq(S) /\ Refresh(lru, e) \in Seq(S \cup {e})
<1>1. Without(lru, e) \in Seq(S)
  <2>1. CASE e \in ToSet(lru)
    <3>1. \E i \in DOMAIN lru : lru[i] = e
      BY <2>1 DEF ToSet
    <3>2. PICK k : k = CHOOSE i \in DOMAIN lru : lru[i] = e
      OBVIOUS
    <3>3. k \in DOMAIN lru
      BY <3>1, <3>2
    <3> QED
      BY <2>1, <3>2, <3>3, RemoveAtElements, Zenon DEF Without
  <2> QED
    BY <2>1 DEF Without
<1>2. Without(lru, e) \in Seq(S \cup {e})
  BY <1>1
<1> QED
  BY <1>1, <1>2, FrontElements DEF Refresh

\* The entry found for a packet is one of those in the maps.
LEMMA EntryOfTyped ==
  ASSUME NEW c, NEW s \in StoreOf(c), NEW p \in Packets
  PROVE  EntryOf(s, p) \in DOMAIN c \cup {NoEntry}
BY PacketsAssumption DEF EntryOf, StoreOf

LEMMA DeletedTyped ==
  ASSUME NEW c \in Seq(Packets), NEW s \in StoreOf(c), KeysKept(s, c), NEW p \in Packets
  PROVE  Deleted(s, p) \in StoreOf(c) /\ KeysKept(Deleted(s, p), c)
<1> DEFINE e == EntryOf(s, p)
           u == Unmapped(s, p)
           l == Without(u.lru, e)
<1>1. u \in StoreOf(c) /\ KeysKept(u, c)
  BY DEF Unmapped, Mapped, StoreOf, KeysKept, NoEntry
<1>2. l \in Seq(DOMAIN c)
  BY <1>1, WithoutTyped DEF StoreOf
<1> HIDE DEF u, l, e
<1>3. [u EXCEPT !.lru = l] \in StoreOf(c) /\ KeysKept([u EXCEPT !.lru = l], c)
  BY <1>1, <1>2 DEF StoreOf, KeysKept
<1>4. Deleted(s, p) = IF e = NoEntry THEN s ELSE [u EXCEPT !.lru = l]
  BY DEF Deleted, e, u, l
<1> QED
  BY <1>3, <1>4

LEMMA TypedInit == Init => Typed
BY DEF Init, Typed, StoreOf, KeysKept, NoEntry

LEMMA MatchInterestTyped ==
  ASSUME Typed, NEW name \in Names \cup {NoName}, NEW hash,
         name \in Names \/ hash \in Hashes, NEW other \in BOOLEAN, MatchInterest(name, hash, other)
  PROVE  /\ Typed'
         /\ served' # NoPacket => IF name # NoName THEN served'.name = name ELSE served'.hash = hash
<1> DEFINE e == Found(name, hash, other)
<1>1. /\ now' = now /\ created' = created
      /\ served' = IF e # NoEntry /\ IsEntryValid(e) THEN created[e] ELSE NoPacket
      /\ store' = IF e = NoEntry THEN store
                  ELSE IF IsEntryValid(e) THEN [store EXCEPT !.lru = Refresh(@, e)]
                  ELSE Deleted(store, created[e])
  BY DEF MatchInterest
<1>2. /\ store \in StoreOf(created) /\ KeysKept(store, created) /\ created \in Seq(Packets)
      /\ now \in Nat
  BY DEF Typed
<1>3. /\ e \in DOMAIN created \cup {NoEntry}
      /\ e # NoEntry => IF name # NoName THEN created[e].name = name ELSE created[e].hash = hash
  BY <1>2, NullAssumption DEF Found, StoreOf, KeysKept, NoEntry
<1> HIDE DEF e
<1>4. e # NoEntry => created[e] \in Packets
  BY <1>2, <1>3
<1>5. store' \in StoreOf(created) /\ KeysKept(store', created)
  <2>1. CASE e = NoEntry
    BY <2>1, <1>1, <1>2
  <2>2. CASE e # NoEntry /\ IsEntryValid(e)
    <3>1. Refresh(store.lru, e) \in Seq(DOMAIN created \cup {e}) /\ DOMAIN created \cup {e} = DOMAIN created
      BY <2>2, <1>2, <1>3, WithoutTyped DEF StoreOf
    <3> DEFINE l == Refresh(store.lru, e)
    <3> HIDE DEF l
    <3>2. [store EXCEPT !.lru = l] \in StoreOf(created) /\ KeysKept([store EXCEPT !.lru = l], created)
      BY <3>1, <1>2 DEF StoreOf, KeysKept, l
    <3> QED
      BY <2>2, <3>2, <1>1 DEF l
  <2>3. CASE e # NoEntry /\ ~IsEntryValid(e)
    BY <2>3, <1>1, <1>2, <1>4, DeletedTyped
  <2> QED
    BY <2>1, <2>2, <2>3
<1> QED
  BY <1>1, <1>2, <1>3, <1>4, <1>5 DEF Typed

LEMMA DeleteContentObjectTyped ==
  ASSUME Typed, NEW p \in Packets, DeleteContentObject(p)
  PROVE  Typed'
BY DeletedTyped DEF Typed, DeleteContentObject

LEMMA AddContentObjectTyped ==
  ASSUME Typed, NEW p \in Packets, AddContentObject(p)
  PROVE  Typed'
<1>1. /\ store \in StoreOf(created) /\ KeysKept(store, created) /\ created \in Seq(Packets)
      /\ now \in Nat
  BY DEF Typed
<1>2. CASE EntryOf(store, p) # NoEntry
  BY <1>2, <1>1 DEF AddContentObject, Typed
<1>3. CASE EntryOf(store, p) = NoEntry
  <2> DEFINE s == Evict(store)
             e == Len(created) + 1
             l == Refresh(s.lru, e)
             c == Append(created, p)
             f == [s EXCEPT !.lru = l]
             m == Mapped(f, p, e)
  <2>1. s \in StoreOf(created) /\ KeysKept(s, created)
    <3>1. CASE Len(store.lru) < Capacity
      BY <3>1, <1>1 DEF Evict
    <3>2. CASE ~(Len(store.lru) < Capacity)
      <4>1. Len(store.lru) \in Nat \ {0} /\ store.lru \in Seq(DOMAIN created)
        BY <3>2, <1>1, CapacityAssumption DEF StoreOf
      <4>2. created[Last(store.lru)] \in Packets
        BY <4>1, <1>1 DEF Last
      <4> QED
        BY <3>2, <4>2, <1>1, DeletedTyped DEF Evict
    <3> QED
      BY <3>1, <3>2
  <2>2. /\ created' = c /\ now' = now /\ served' = NoPacket /\ store' = m
    BY <1>3 DEF AddContentObject
  <2>3. /\ e \in Nat /\ e # NoEntry /\ c \in Seq(Packets) /\ DOMAIN c = DOMAIN created \cup {e}
        /\ c[e] = p /\ \A i \in DOMAIN created : c[i] = created[i]
    BY <1>1 DEF NoEntry
  <2> HIDE DEF s, e, c
  <2>4. l \in Seq(DOMAIN c)
    BY <2>1, <2>3, WithoutTyped DEF StoreOf
  <2> HIDE DEF l
  <2>5. /\ f.byName = s.byName /\ f.byHash = s.byHash /\ f.lru = l
    BY <2>1 DEF StoreOf
  <2> HIDE DEF f
  <2>6. /\ m = [byName |-> [n \in Names  |-> IF n = p.name THEN e ELSE s.byName[n]],
                byHash |-> [h \in Hashes |-> IF h = p.hash THEN e ELSE s.byHash[h]], lru |-> l]
    BY <2>5 DEF Mapped
  <2> HIDE DEF m
  <2>7. /\ s.byName \in [Names -> DOMAIN created \cup {NoEntry}]
        /\ s.byHash \in [Hashes -> DOMAIN created \cup {NoEntry}]
    BY <2>1 DEF StoreOf
  <2>8. m \in StoreOf(c)
    BY <2>3, <2>4, <2>6, <2>7 DEF StoreOf
  <2>9. KeysKept(m, c)
    BY <2>1, <2>3, <2>6, <2>7 DEF KeysKept
  <2> QED
    BY <1>1, <2>2, <2>3, <2>8, <2>9 DEF Typed
<1> QED
  BY <1>2, <1>3

LEMMA NextTyped == Typed /\ [Next]_vars => Typed'
<1> SUFFICES ASSUME Typed, [Next]_vars PROVE Typed'
  OBVIOUS
<1>1. CASE Tick
  BY <1>1 DEF Tick, Typed
<1>2. ASSUME NEW name \in Names, NEW hash \in Hashes \cup {NullHash}, NEW other \in BOOLEAN,
             MatchInterest(name, hash, other)
      PROVE  Typed'
  BY <1>2, MatchInterestTyped
<1>3. ASSUME NEW hash \in Hashes, NEW other \in BOOLEAN, MatchInterest(NoName, hash, other)
      PROVE  Typed'
  BY <1>3, MatchInterestTyped
<1>4. ASSUME NEW p \in Packets, AddContentObject(p) \/ DeleteContentObject(p)
      PROVE  Typed'
  BY <1>4, AddContentObjectTyped, DeleteContentObjectTyped
<1>5. CASE UNCHANGED vars
  BY <1>5 DEF vars, Typed
<1> QED
  BY <1>1, <1>2, <1>3, <1>4, <1>5 DEF Next

-----------------------------------------------------------------------------
(* The operations of the store keep maps and list in agreement. *)

\* An entry in the list, or found for a packet, is the number of a packet; the entry found
\* for a packet is listed, and is that of a packet with the same hash, or without one and
\* with the same name.
LEMMA FoundIsListed ==
  ASSUME NEW c \in Seq(Packets), NEW s, Agrees(s, c), NEW p \in Packets,
         EntryOf(s, p) # NoEntry
  PROVE  /\ EntryOf(s, p) \in ToSet(s.lru)
         /\ EntryOf(s, p) \in DOMAIN c
         /\ c[EntryOf(s, p)] \in Packets
         /\ IF p.hash # NullHash THEN c[EntryOf(s, p)].hash = p.hash
            ELSE c[EntryOf(s, p)].name = p.name
<1>1. p.name \in Names \cup {NoName} /\ p.hash \in Hashes \cup {NullHash}
  BY PacketsAssumption
<1>2. EntryOf(s, p) \in ToSet(s.lru) /\ IF p.hash # NullHash THEN c[EntryOf(s, p)].hash = p.hash
                                        ELSE c[EntryOf(s, p)].name = p.name
  BY <1>1 DEF Agrees, MappedByKey, EntryOf
<1>3. EntryOf(s, p) \in DOMAIN c
  BY <1>1 DEF Agrees, StoreOf, EntryOf
<1> QED
  BY <1>2, <1>3

\* DeleteContentObject takes from the list the entry found for the packet, and the maps
\* no longer lead to it.
LEMMA DeletedAgrees ==
  ASSUME Uniform, NEW c \in Seq(Packets), NEW s, Agrees(s, c), NEW p \in Packets
  PROVE  Agrees(Deleted(s, p), c)
<1>1. CASE EntryOf(s, p) = NoEntry
  BY <1>1 DEF Deleted
<1>2. CASE EntryOf(s, p) # NoEntry
  <2> DEFINE e == EntryOf(s, p)
             d == Deleted(s, p)
  <2>1. /\ e \in ToSet(s.lru) /\ e \in DOMAIN c /\ c[e] \in Packets
        /\ IF p.hash # NullHash THEN c[e].hash = p.hash ELSE c[e].name = p.name
    BY <1>2, FoundIsListed
  <2>2. PICK k \in DOMAIN s.lru : s.lru[k] = e
    BY <2>1 DEF ToSet
  <2>3. s \in StoreOf(c) /\ s.lru \in Seq(DOMAIN c) /\ ListedOnce(s)
    BY DEF Agrees, StoreOf
  <2>4. /\ Without(s.lru, e) = RemoveAt(s.lru, k)
        /\ ToSet(Without(s.lru, e)) = ToSet(s.lru) \ {e}
        /\ \A i, j \in DOMAIN Without(s.lru, e) :
             Without(s.lru, e)[i] = Without(s.lru, e)[j] => i = j
        /\ Without(s.lru, e) \in Seq(DOMAIN c)
    <3>1. \A i, j \in DOMAIN s.lru : s.lru[i] = s.lru[j] => i = j
      BY <2>3 DEF ListedOnce
    <3>2. /\ Without(s.lru, s.lru[k]) = RemoveAt(s.lru, k)
          /\ ToSet(Without(s.lru, s.lru[k])) = ToSet(s.lru) \ {s.lru[k]}
          /\ \A i, j \in DOMAIN Without(s.lru, s.lru[k]) :
               Without(s.lru, s.lru[k])[i] = Without(s.lru, s.lru[k])[j] => i = j
      BY <2>3, <3>1, WithoutElements, Zenon
    <3>3. RemoveAt(s.lru, k) \in Seq(DOMAIN c)
      BY <2>3, RemoveAtElements, Zenon
    <3> HIDE DEF e
    <3> QED
      BY <3>2, <3>3, <2>2, Zenon
  <2>5. /\ d = [byName |-> [n \in Names |-> IF n = p.name THEN NoEntry ELSE s.byName[n]],
                byHash |-> [h \in Hashes |-> IF h = p.hash THEN NoEntry ELSE s.byHash[h]],
                lru |-> Without(s.lru, e)]
    BY <1>2, <2>3 DEF Deleted, Unmapped, Mapped, StoreOf
  <2> HIDE DEF d, e
  <2>6. d \in StoreOf(c) /\ ListedOnce(d)
    BY <2>3, <2>4, <2>5 DEF StoreOf, ListedOnce
  <2>7. MappedByKey(d, c)
    <3>1. ASSUME NEW n \in Names, d.byName[n] # NoEntry
          PROVE  d.byName[n] \in ToSet(d.lru) /\ c[d.byName[n]].name = n
      <4>1. n # p.name /\ d.byName[n] = s.byName[n] /\ s.byName[n] # NoEntry
        BY <3>1, <2>5
      <4>2. s.byName[n] \in ToSet(s.lru) /\ c[s.byName[n]].name = n
        BY <4>1 DEF Agrees, MappedByKey
      <4>3. s.byName[n] # e
        BY <4>1, <4>2, <2>1 DEF Uniform
      <4> QED
        BY <4>1, <4>2, <4>3, <2>4, <2>5
    <3>2. ASSUME NEW h \in Hashes, d.byHash[h] # NoEntry
          PROVE  d.byHash[h] \in ToSet(d.lru) /\ c[d.byHash[h]].hash = h
      <4>1. h # p.hash /\ d.byHash[h] = s.byHash[h] /\ s.byHash[h] # NoEntry
        BY <3>2, <2>5
      <4>2. s.byHash[h] \in ToSet(s.lru) /\ c[s.byHash[h]].hash = h
        BY <4>1 DEF Agrees, MappedByKey
      <4>3. s.byHash[h] # e
        BY <4>1, <4>2, <2>1, NullAssumption DEF Uniform
      <4> QED
        BY <4>1, <4>2, <4>3, <2>4, <2>5
    <3> QED
      BY <3>1, <3>2 DEF MappedByKey
  <2>8. ListedAreFound(d, c)
    <3> SUFFICES ASSUME NEW f \in ToSet(d.lru)
                 PROVE  EntryOf(d, c[f]) = f
      BY DEF ListedAreFound
    <3>1. f \in ToSet(s.lru) /\ f # e /\ EntryOf(s, c[f]) = f
      BY <2>4, <2>5 DEF Agrees, ListedAreFound
    <3>2. f \in DOMAIN c /\ c[f] \in Packets
      BY <3>1, <2>3 DEF ToSet
    <3> DEFINE q == c[f]
    <3>3. /\ q.name \in Names \cup {NoName} /\ q.hash \in Hashes \cup {NullHash}
          /\ q \in Packets
      BY <3>2, PacketsAssumption
    <3>4. CASE q.hash # NullHash
      <4>1. EntryOf(s, q) = s.byHash[q.hash] /\ EntryOf(d, q) = d.byHash[q.hash]
        BY <3>4 DEF EntryOf
      <4>2. q.hash # p.hash
        BY <3>1, <3>4, <4>1 DEF EntryOf, e
      <4> QED
        BY <4>1, <4>2, <3>1, <3>3, <3>4, <2>5
    <3>5. CASE q.hash = NullHash
      <4>1. q.name # NoName /\ q.name \in Names
        BY <3>3, <3>5 DEF Uniform
      <4>2. EntryOf(s, q) = s.byName[q.name] /\ EntryOf(d, q) = d.byName[q.name]
        BY <3>5, <4>1 DEF EntryOf
      <4>3. q.name # p.name
        <5> SUFFICES ASSUME q.name = p.name PROVE FALSE
          OBVIOUS
        <5>1. p.hash = NullHash
          BY <3>3, <3>5 DEF Uniform
        <5> QED
          BY <5>1, <3>1, <4>1, <4>2 DEF EntryOf, e
      <4> QED
        BY <4>1, <4>2, <4>3, <3>1, <2>5
    <3> QED
      BY <3>4, <3>5
  <2> QED
    BY <2>6, <2>7, <2>8 DEF Agrees, d
<1> QED
  BY <1>1, <1>2

\* The list of a store whose packet was deleted: what is left is in its old order.
LEMMA DeletedList ==
  ASSUME NEW c \in Seq(Packets), NEW s, Agrees(s, c), NEW p \in Packets,
         EntryOf(s, p) # NoEntry
  PROVE  \E k \in DOMAIN s.lru : s.lru[k] = EntryOf(s, p) /\ Deleted(s, p).lru = RemoveAt(s.lru, k)
<1>1. EntryOf(s, p) \in ToSet(s.lru)
  BY FoundIsListed
<1>2. PICK k \in DOMAIN s.lru : s.lru[k] = EntryOf(s, p)
  BY <1>1 DEF ToSet
<1>3. s \in StoreOf(c) /\ s.lru \in Seq(DOMAIN c) /\ \A i, j \in DOMAIN s.lru : s.lru[i] = s.lru[j] => i = j
  BY DEF Agrees, StoreOf, ListedOnce
<1>4. Without(s.lru, s.lru[k]) = RemoveAt(s.lru, k)
  BY <1>3, WithoutElements, Zenon
<1>5. Deleted(s, p).lru = Without(s.lru, EntryOf(s, p))
  BY <1>3 DEF Deleted, Unmapped, Mapped, StoreOf
<1> QED
  BY <1>2, <1>4, <1>5

\* AddEntry of an entry that is in the list moves it to the front.
LEMMA RefreshAgrees ==
  ASSUME NEW c \in Seq(Packets), NEW s, Agrees(s, c), NEW e \in ToSet(s.lru)
  PROVE  /\ Agrees([s EXCEPT !.lru = Refresh(@, e)], c)
         /\ \E k \in DOMAIN s.lru : s.lru[k] = e /\ Refresh(s.lru, e) = <<e>> \o RemoveAt(s.lru, k)
<1>1. PICK k \in DOMAIN s.lru : s.lru[k] = e
  BY DEF ToSet
<1>2. /\ s \in StoreOf(c) /\ s.lru \in Seq(DOMAIN c) /\ e \in DOMAIN c
      /\ \A i, j \in DOMAIN s.lru : s.lru[i] = s.lru[j] => i = j
  BY <1>1 DEF Agrees, StoreOf, ListedOnce
<1> DEFINE w == RemoveAt(s.lru, k)
           r == Refresh(s.lru, e)
<1>3. /\ Without(s.lru, e) = w /\ ToSet(w) = ToSet(s.lru) \ {e}
      /\ \A i, j \in DOMAIN w : w[i] = w[j] => i = j
  <2>1. /\ Without(s.lru, s.lru[k]) = w /\ ToSet(Without(s.lru, s.lru[k])) = ToSet(s.lru) \ {s.lru[k]}
        /\ \A i, j \in DOMAIN Without(s.lru, s.lru[k]) :
             Without(s.lru, s.lru[k])[i] = Without(s.lru, s.lru[k])[j] => i = j
    BY <1>2, WithoutElements, Zenon
  <2> HIDE DEF w
  <2> QED
    BY <2>1, <1>1
<1>4. w \in Seq(DOMAIN c)
  BY <1>2, RemoveAtElements, Zenon
<1>5. r = <<e>> \o w
  BY <1>3 DEF Refresh
<1> HIDE DEF w
<1>6. /\ r \in Seq(DOMAIN c) /\ ToSet(r) = ToSet(w) \cup {e} /\ DOMAIN r = 1 .. Len(w) + 1
      /\ \A i \in 1 .. Len(w) + 1 : r[i] = IF i = 1 THEN e ELSE w[i - 1]
  BY <1>2, <1>4, <1>5, FrontElements DEF r
<1> HIDE DEF r
<1>7. ToSet(r) = ToSet(s.lru)
  BY <1>3, <1>6
<1>8. \A i, j \in DOMAIN r : r[i] = r[j] => i = j
  <2> SUFFICES ASSUME NEW i \in DOMAIN r, NEW j \in DOMAIN r, r[i] = r[j]
               PROVE  i = j
    OBVIOUS
  <2>1. DOMAIN w = 1 .. Len(w) /\ Len(w) \in Nat
    BY <1>4
  <2>2. \A m \in DOMAIN w : w[m] # e
    BY <1>3 DEF ToSet
  <2>3. (i = 1 \/ i - 1 \in DOMAIN w) /\ (j = 1 \/ j - 1 \in DOMAIN w) /\ i \in Nat /\ j \in Nat
    BY <1>6, <2>1
  <2> QED
    BY <1>3, <1>6, <2>1, <2>2, <2>3
<1> DEFINE t == [s EXCEPT !.lru = Refresh(@, e)]
<1>9. t = [byName |-> s.byName, byHash |-> s.byHash, lru |-> r]
  <2>1. t = [s EXCEPT !.lru = r]
    BY DEF r
  <2> HIDE DEF t
  <2>2. QED
    BY <1>2, <2>1 DEF StoreOf
<1>10. t \in StoreOf(c)
  BY <1>2, <1>6, <1>9 DEF StoreOf
<1>11. \A p : EntryOf(t, p) = EntryOf(s, p)
  BY <1>9 DEF EntryOf
<1> HIDE DEF t
<1>12. Agrees(t, c)
  BY <1>7, <1>8, <1>9, <1>10, <1>11 DEF Agrees, ListedOnce, MappedByKey, ListedAreFound
<1> QED
  BY <1>1, <1>5, <1>12 DEF t, r, w

\* Making room takes the last entry of a full list and leaves maps and list in agreement;
\* a packet for which no entry was found has none after it either.
LEMMA EvictAgrees ==
  ASSUME Uniform, created \in Seq(Packets), Agrees(store, created), CapacityRespected
  PROVE  /\ Agrees(Evict(store), created)
         /\ Len(Evict(store).lru) < Capacity
         /\ \A p \in Packets : EntryOf(store, p) = NoEntry => EntryOf(Evict(store), p) = NoEntry
         /\ Evict(store).lru = IF Len(store.lru) < Capacity THEN store.lru
                               ELSE RemoveAt(store.lru, Len(store.lru))
<1>1. CASE Len(store.lru) < Capacity
  BY <1>1 DEF Evict
<1>2. CASE ~(Len(store.lru) < Capacity)
  <2>1. /\ store \in StoreOf(created) /\ store.lru \in Seq(DOMAIN created)
        /\ \A i, j \in DOMAIN store.lru : store.lru[i] = store.lru[j] => i = j
        /\ DOMAIN store.lru = 1 .. Len(store.lru) /\ Len(store.lru) \in Nat
    BY DEF Agrees, StoreOf, ListedOnce
  <2>2. Len(store.lru) = Capacity /\ Len(store.lru) \in DOMAIN store.lru
    BY <1>2, <2>1, CapacityAssumption DEF CapacityRespected
  <2> DEFINE e == Last(store.lru)
             q == created[e]
  <2>3. e = store.lru[Len(store.lru)] /\ e \in ToSet(store.lru) /\ e \in DOMAIN created
    BY <2>1, <2>2 DEF Last, ToSet
  <2>4. q \in Packets /\ EntryOf(store, q) = e /\ e # NoEntry
    BY <2>3 DEF Agrees, ListedAreFound, NoEntry
  <2> HIDE DEF e, q
  <2>5. Evict(store) = Deleted(store, q)
    BY <1>2 DEF Evict, e, q
  <2>6. PICK k \in DOMAIN store.lru :
          store.lru[k] = EntryOf(store, q) /\ Deleted(store, q).lru = RemoveAt(store.lru, k)
    BY <2>4, DeletedList, Zenon
  <2>7. k = Len(store.lru)
    BY <2>1, <2>2, <2>3, <2>4, <2>6
  <2>8. Evict(store).lru = RemoveAt(store.lru, Len(store.lru))
    BY <2>5, <2>6, <2>7
  <2>9. Len(RemoveAt(store.lru, Len(store.lru))) = Len(store.lru) - 1
    BY <2>1, <2>2, RemoveAtElements, Zenon
  <2>10. Len(Evict(store).lru) < Capacity
    BY <2>2, <2>8, <2>9, CapacityAssumption
  <2>11. Agrees(Evict(store), created)
    BY <2>4, <2>5, DeletedAgrees
  <2>12. ASSUME NEW p \in Packets, EntryOf(store, p) = NoEntry
         PROVE  EntryOf(Evict(store), p) = NoEntry
    BY <2>1, <2>4, <2>5, <2>12, PacketsAssumption
       DEF Deleted, Unmapped, Mapped, EntryOf, StoreOf
  <2> QED
    BY <1>2, <2>8, <2>10, <2>11, <2>12
<1> QED
  BY <1>1, <1>2

\* The store with an entry for a packet it has none for.
LEMMA AddedAgrees ==
  ASSUME Uniform, NEW c \in Seq(Packets), NEW s, Agrees(s, c), NEW p \in Packets,
         EntryOf(s, p) = NoEntry, NEW e, e = Len(c) + 1
  PROVE  /\ Agrees(Mapped([s EXCEPT !.lru = Refresh(@, e)], p, e), Append(c, p))
         /\ Mapped([s EXCEPT !.lru = Refresh(@, e)], p, e).lru = <<e>> \o s.lru
<1> DEFINE a == Mapped([s EXCEPT !.lru = Refresh(@, e)], p, e)
           c2 == Append(c, p)
<1>1. /\ s \in StoreOf(c) /\ s.lru \in Seq(DOMAIN c)
      /\ \A i, j \in DOMAIN s.lru : s.lru[i] = s.lru[j] => i = j
      /\ ToSet(s.lru) \subseteq DOMAIN c
  BY DEF Agrees, StoreOf, ListedOnce, ToSet
<1>2. /\ c2 \in Seq(Packets) /\ DOMAIN c2 = DOMAIN c \cup {e} /\ c2[e] = p
      /\ \A x \in DOMAIN c : c2[x] = c[x]
      /\ e \notin DOMAIN c /\ e # NoEntry /\ NoEntry \notin DOMAIN c
  BY DEF NoEntry
<1> HIDE DEF c2
<1>3. Refresh(s.lru, e) = <<e>> \o s.lru
  BY <1>1, <1>2 DEF Refresh, Without
<1> DEFINE r == <<e>> \o s.lru
<1>4. a = [byName |-> [n \in Names |-> IF n = p.name THEN e ELSE s.byName[n]],
           byHash |-> [h \in Hashes |-> IF h = p.hash THEN e ELSE s.byHash[h]], lru |-> r]
  <2> DEFINE x == [s EXCEPT !.lru = Refresh(@, e)]
  <2>0. r = Refresh(s.lru, e)
    BY <1>3
  <2> HIDE DEF r
  <2>1. x = [byName |-> s.byName, byHash |-> s.byHash, lru |-> r]
    BY <1>1, <2>0 DEF StoreOf
  <2> HIDE DEF x
  <2>2. Mapped(x, p, e) =
          [byName |-> [n \in Names |-> IF n = p.name THEN e ELSE s.byName[n]],
           byHash |-> [h \in Hashes |-> IF h = p.hash THEN e ELSE s.byHash[h]], lru |-> r]
    BY <2>1 DEF Mapped
  <2> QED
    BY <2>2, Zenon DEF x
<1>5. /\ r \in Seq(DOMAIN c2) /\ ToSet(r) = ToSet(s.lru) \cup {e} /\ DOMAIN r = 1 .. Len(s.lru) + 1
      /\ \A i \in 1 .. Len(s.lru) + 1 : r[i] = IF i = 1 THEN e ELSE s.lru[i - 1]
  <2>1. s.lru \in Seq(DOMAIN c2) /\ e \in DOMAIN c2
    BY <1>1, <1>2
  <2> QED
    BY <2>1, FrontElements
<1> HIDE DEF a, r
<1>6. a \in StoreOf(c2)
  BY <1>1, <1>2, <1>4, <1>5 DEF StoreOf
<1>7. ListedOnce(a)
  <2> SUFFICES ASSUME NEW i \in DOMAIN r, NEW j \in DOMAIN r, r[i] = r[j]
               PROVE  i = j
    BY <1>4 DEF ListedOnce
  <2>1. DOMAIN s.lru = 1 .. Len(s.lru) /\ Len(s.lru) \in Nat
    BY <1>1
  <2>2. \A m \in DOMAIN s.lru : s.lru[m] # e
    BY <1>1, <1>2
  <2>3. (i = 1 \/ i - 1 \in DOMAIN s.lru) /\ (j = 1 \/ j - 1 \in DOMAIN s.lru) /\ i \in Nat /\ j \in Nat
    BY <1>5, <2>1
  <2>4. r[i] = (IF i = 1 THEN e ELSE s.lru[i - 1]) /\ r[j] = IF j = 1 THEN e ELSE s.lru[j - 1]
    BY <1>5, Zenon
  <2>5. i = 1 <=> j = 1
    BY <2>2, <2>3, <2>4
  <2>6. ASSUME i # 1 /\ j # 1
        PROVE  i - 1 = j - 1
    BY <2>6, <2>3, <2>4, <1>1
  <2> QED
    BY <2>3, <2>5, <2>6
<1>8. MappedByKey(a, c2)
  <2>1. ASSUME NEW n \in Names, a.byName[n] # NoEntry
        PROVE  a.byName[n] \in ToSet(a.lru) /\ c2[a.byName[n]].name = n
    <3>1. CASE n = p.name
      BY <3>1, <1>2, <1>4, <1>5
    <3>2. CASE n # p.name
      <4>1. a.byName[n] = s.byName[n] /\ s.byName[n] # NoEntry
        BY <3>2, <2>1, <1>4
      <4>2. s.byName[n] \in ToSet(s.lru) /\ c[s.byName[n]].name = n
        BY <4>1 DEF Agrees, MappedByKey
      <4> QED
        BY <4>1, <4>2, <1>1, <1>2, <1>4, <1>5
    <3> QED
      BY <3>1, <3>2
  <2>2. ASSUME NEW h \in Hashes, a.byHash[h] # NoEntry
        PROVE  a.byHash[h] \in ToSet(a.lru) /\ c2[a.byHash[h]].hash = h
    <3>1. CASE h = p.hash
      BY <3>1, <1>2, <1>4, <1>5
    <3>2. CASE h # p.hash
      <4>1. a.byHash[h] = s.byHash[h] /\ s.byHash[h] # NoEntry
        BY <3>2, <2>2, <1>4
      <4>2. s.byHash[h] \in ToSet(s.lru) /\ c[s.byHash[h]].hash = h
        BY <4>1 DEF Agrees, MappedByKey
      <4> QED
        BY <4>1, <4>2, <1>1, <1>2, <1>4, <1>5
    <3> QED
      BY <3>1, <3>2
  <2> QED
    BY <2>1, <2>2 DEF MappedByKey
<1>9. ListedAreFound(a, c2)
  <2> SUFFICES ASSUME NEW f \in ToSet(a.lru)
               PROVE  EntryOf(a, c2[f]) = f
    BY DEF ListedAreFound
  <2>0. p.name \in Names \cup {NoName} /\ p.hash \in Hashes \cup {NullHash}
    BY PacketsAssumption
  <2>1. CASE f = e
    <3>1. p.hash = NullHash => p.name # NoName
      BY DEF Uniform
    <3> QED
      BY <2>0, <2>1, <3>1, <1>2, <1>4 DEF EntryOf
  <2>2. CASE f # e
    <3> DEFINE q == c[f]
    <3>1. f \in ToSet(s.lru) /\ f \in DOMAIN c /\ f # NoEntry /\ c2[f] = q /\ q \in Packets
      BY <2>2, <1>1, <1>2, <1>4, <1>5
    <3>2. EntryOf(s, q) = f
      BY <3>1 DEF Agrees, ListedAreFound
    <3>3. q.name \in Names \cup {NoName} /\ q.hash \in Hashes \cup {NullHash}
      BY <3>1, PacketsAssumption
    <3> HIDE DEF q
    <3>4. CASE q.hash # NullHash
      <4>1. EntryOf(s, q) = s.byHash[q.hash] /\ EntryOf(a, q) = a.byHash[q.hash]
        BY <3>4 DEF EntryOf
      <4>2. q.hash # p.hash
        BY <3>1, <3>2, <3>4, <4>1 DEF EntryOf
      <4> QED
        BY <4>1, <4>2, <3>1, <3>2, <3>3, <3>4, <1>4
    <3>5. CASE q.hash = NullHash
      <4>1. q.name # NoName /\ q.name \in Names
        BY <3>1, <3>3, <3>5 DEF Uniform
      <4>2. EntryOf(s, q) = s.byName[q.name] /\ EntryOf(a, q) = a.byName[q.name]
        BY <3>5, <4>1 DEF EntryOf
      <4>3. q.name # p.name
        <5> SUFFICES ASSUME q.name = p.name PROVE FALSE
          OBVIOUS
        <5>1. p.hash = NullHash
          BY <3>1, <3>5 DEF Uniform
        <5> QED
          BY <5>1, <3>1, <3>2, <4>1, <4>2 DEF EntryOf
      <4> QED
        BY <4>1, <4>2, <4>3, <3>1, <3>2, <1>4
    <3> QED
      BY <3>4, <3>5
  <2> QED
    BY <2>1, <2>2
<1>10. Agrees(a, c2) /\ a.lru = r
  BY <1>4, <1>6, <1>7, <1>8, <1>9 DEF Agrees
<1> QED
  BY <1>10, Zenon DEF a, c2, r

-----------------------------------------------------------------------------
(* What LruCache sees of a list: the packets of its entries. *)

Shown(l, c) == [i \in DOMAIN l |-> c[l[i]]]

LEMMA ShownList ==
  ASSUME NEW c \in Seq(Packets), NEW l \in Seq(DOMAIN c)
  PROVE  Shown(l, c) \in Seq(Packets) /\ Len(Shown(l, c)) = Len(l)
         /\ DOMAIN Shown(l, c) = 1 .. Len(l) /\ \A i \in 1 .. Len(l) : Shown(l, c)[i] = c[l[i]]
<1>1. \A i \in 1 .. Len(l) : l[i] \in DOMAIN c /\ c[l[i]] \in Packets
  OBVIOUS
<1>2. Shown(l, c) = [i \in 1 .. Len(l) |-> c[l[i]]] /\ Len(l) \in Nat
  BY DEF Shown
<1> QED
  BY <1>1, <1>2

\* An entry taken from the list is a packet taken from what is shown.
LEMMA ShownRemove ==
  ASSUME NEW c \in Seq(Packets), NEW l \in Seq(DOMAIN c), NEW k \in DOMAIN l
  PROVE  Shown(RemoveAt(l, k), c) = RemoveAt(Shown(l, c), k)
<1> DEFINE w == RemoveAt(l, k)
           v == RemoveAt(Shown(l, c), k)
<1>1. /\ Shown(l, c) \in Seq(Packets) /\ Len(Shown(l, c)) = Len(l)
      /\ DOMAIN Shown(l, c) = 1 .. Len(l) /\ \A i \in 1 .. Len(l) : Shown(l, c)[i] = c[l[i]]
  BY ShownList
<1>2. DOMAIN l = 1 .. Len(l) /\ Len(l) \in Nat /\ k \in Nat
  OBVIOUS
<1>3. /\ w \in Seq(DOMAIN c) /\ Len(w) = Len(l) - 1
      /\ \A i \in 1 .. Len(l) - 1 : w[i] = IF i < k THEN l[i] ELSE l[i + 1]
  BY RemoveAtElements, Zenon
<1>4. /\ v \in Seq(Packets) /\ Len(v) = Len(l) - 1
      /\ \A i \in 1 .. Len(l) - 1 : v[i] = IF i < k THEN Shown(l, c)[i] ELSE Shown(l, c)[i + 1]
  <2> HIDE DEF v
  <2>1. k \in DOMAIN Shown(l, c)
    BY <1>1, <1>2
  <2> QED
    BY <2>1, <1>1, RemoveAtElements DEF v
<1> HIDE DEF w, v
<1>5. Shown(w, c) \in Seq(Packets) /\ Len(Shown(w, c)) = Len(w)
      /\ \A i \in 1 .. Len(w) : Shown(w, c)[i] = c[w[i]]
  BY <1>3, ShownList, Zenon
<1>6. \A i \in 1 .. Len(l) - 1 : Shown(w, c)[i] = v[i]
  <2> SUFFICES ASSUME NEW i \in 1 .. Len(l) - 1
               PROVE  Shown(w, c)[i] = v[i]
    OBVIOUS
  <2>1. Shown(w, c)[i] = c[w[i]]
    BY <1>3, <1>5
  <2>2. i \in 1 .. Len(l) /\ i + 1 \in 1 .. Len(l)
    BY <1>2
  <2>3. CASE i < k
    <3>1. w[i] = l[i] /\ v[i] = Shown(l, c)[i]
      BY <2>3, <1>3, <1>4
    <3> QED
      BY <3>1, <2>1, <2>2, <1>1
  <2>4. CASE ~(i < k)
    <3>1. w[i] = l[i + 1] /\ v[i] = Shown(l, c)[i + 1]
      BY <2>4, <1>3, <1>4
    <3> QED
      BY <3>1, <2>1, <2>2, <1>1
  <2> QED
    BY <2>3, <2>4
<1>7. Shown(w, c) = v
  BY <1>3, <1>4, <1>5, <1>6, SeqEqual
<1> QED
  BY <1>7 DEF w, v

\* An entry put in front is a packet put in front.
LEMMA ShownFront ==
  ASSUME NEW c \in Seq(Packets), NEW l \in Seq(DOMAIN c), NEW e \in DOMAIN c
  PROVE  Shown(<<e>> \o l, c) = <<c[e]>> \o Shown(l, c)
<1> DEFINE w == <<e>> \o l
           s == Shown(l, c)
           v == <<c[e]>> \o s
<1>1. s \in Seq(Packets) /\ Len(s) = Len(l) /\ \A i \in 1 .. Len(l) : s[i] = c[l[i]]
  BY ShownList
<1>2. c[e] \in Packets /\ Len(l) \in Nat
  OBVIOUS
<1>3. /\ w \in Seq(DOMAIN c) /\ Len(w) = Len(l) + 1
      /\ \A i \in 1 .. Len(l) + 1 : w[i] = IF i = 1 THEN e ELSE l[i - 1]
  BY FrontElements
<1> HIDE DEF s
<1>4. /\ v \in Seq(Packets) /\ Len(v) = Len(s) + 1
      /\ \A i \in 1 .. Len(s) + 1 : v[i] = IF i = 1 THEN c[e] ELSE s[i - 1]
  BY <1>1, <1>2, FrontElements
<1> HIDE DEF w, v
<1>5. Shown(w, c) \in Seq(Packets) /\ Len(Shown(w, c)) = Len(w)
      /\ \A i \in 1 .. Len(w) : Shown(w, c)[i] = c[w[i]]
  BY <1>3, ShownList, Zenon
<1>6. \A i \in 1 .. Len(l) + 1 : Shown(w, c)[i] = v[i]
  <2> SUFFICES ASSUME NEW i \in 1 .. Len(l) + 1
               PROVE  Shown(w, c)[i] = v[i]
    OBVIOUS
  <2>1. CASE i = 1
    BY <2>1, <1>1, <1>3, <1>4, <1>5
  <2>2. CASE i # 1
    <3>1. i - 1 \in 1 .. Len(l)
      BY <2>2, <1>2
    <3>2. w[i] = l[i - 1] /\ v[i] = s[i - 1]
      BY <2>2, <1>1, <1>3, <1>4
    <3>3. Shown(w, c)[i] = c[w[i]]
      BY <1>3, <1>5
    <3> QED
      BY <3>1, <3>2, <3>3, <1>1
  <2> QED
    BY <2>1, <2>2
<1>7. Shown(w, c) = v
  BY <1>1, <1>2, <1>3, <1>4, <1>5, <1>6, SeqEqual
<1> QED
  BY <1>7 DEF w, v, s

\* A later packet changes nothing.
LEMMA ShownLater ==
  ASSUME NEW c \in Seq(Packets), NEW l \in Seq(DOMAIN c), NEW p \in Packets
  PROVE  Shown(l, Append(c, p)) = Shown(l, c) /\ l \in Seq(DOMAIN Append(c, p))
<1>1. \A i \in DOMAIN l : l[i] \in DOMAIN c /\ Append(c, p)[l[i]] = c[l[i]]
  OBVIOUS
<1>2. DOMAIN c \subseteq DOMAIN Append(c, p)
  OBVIOUS
<1> QED
  BY <1>1, <1>2 DEF Shown

-----------------------------------------------------------------------------
(* The steps *)

\* In the initial state everything is empty.
LEMMA InitInv == Init => IInv /\ Lru!Init
<1> SUFFICES ASSUME Init PROVE IInv /\ Lru!Init
  OBVIOUS
<1>1. created \in Seq(Packets) /\ store.lru = <<>> /\ store \in StoreOf(created)
      /\ now \in Nat /\ served \in Packets \cup {NoPacket}
  BY DEF Init, StoreOf, NoEntry
<1>2. ToSet(store.lru) = {} /\ DOMAIN store.lru = {} /\ Len(store.lru) = 0
  BY <1>1 DEF ToSet
<1>3. MappedByKey(store, created)
  BY DEF Init, MappedByKey
<1>4. Agrees(store, created) /\ CapacityRespected
  BY <1>1, <1>2, <1>3, CapacityAssumption DEF Agrees, ListedOnce, ListedAreFound, CapacityRespected
<1>5. Cached = <<>>
  BY <1>1 DEF Cached
<1> QED
  BY <1>1, <1>4, <1>5 DEF IInv, Lru!Init, Init

\* What follows from the invariant about a list it holds for.
LEMMA Listed ==
  ASSUME IInv
  PROVE  /\ store \in StoreOf(created) /\ store.lru \in Seq(DOMAIN created)
         /\ DOMAIN store.lru = 1 .. Len(store.lru) /\ Len(store.lru) \in Nat
         /\ \A e \in ToSet(store.lru) : e \in DOMAIN created /\ created[e] \in Packets /\ e # NoEntry
         /\ Cached = Shown(store.lru, created) /\ DOMAIN Cached = DOMAIN store.lru
<1>1. store \in StoreOf(created) /\ store.lru \in Seq(DOMAIN created) /\ created \in Seq(Packets)
  BY DEF IInv, Agrees, StoreOf
<1> QED
  BY <1>1 DEF ToSet, Cached, Shown, NoEntry

\* The packet deleted is one of those shown, and the others stay in their order.
LEMMA DeletedStep ==
  ASSUME Uniform, IInv, NEW p \in Packets
  PROVE  /\ Agrees(Deleted(store, p), created)
         /\ Len(Deleted(store, p).lru) <= Capacity
         /\ \/ Shown(Deleted(store, p).lru, created) = Cached
            \/ \E k \in DOMAIN Cached :
                 Shown(Deleted(store, p).lru, created) = Lru!Without(Cached, k)
<1>1. created \in Seq(Packets) /\ Agrees(store, created) /\ Len(store.lru) <= Capacity
  BY DEF IInv, CapacityRespected
<1>2. Agrees(Deleted(store, p), created)
  BY <1>1, DeletedAgrees
<1>3. CASE EntryOf(store, p) = NoEntry
  <2>1. Deleted(store, p) = store
    BY <1>3 DEF Deleted
  <2> QED
    BY <2>1, <1>1, <1>2, Listed
<1>4. CASE EntryOf(store, p) # NoEntry
  <2>1. PICK k \in DOMAIN store.lru : Deleted(store, p).lru = RemoveAt(store.lru, k)
    BY <1>1, <1>4, DeletedList, Zenon
  <2>2. Len(RemoveAt(store.lru, k)) = Len(store.lru) - 1
    BY Listed, RemoveAtElements, Zenon
  <2>3. Shown(RemoveAt(store.lru, k), created) = RemoveAt(Cached, k)
    BY <1>1, Listed, ShownRemove, Zenon
  <2>4. RemoveAt(Cached, k) = Lru!Without(Cached, k)
    BY DEF RemoveAt, Lru!Without
  <2>5. Len(Deleted(store, p).lru) <= Capacity
    BY <2>1, <2>2, <1>1, Listed, CapacityAssumption
  <2> QED
    BY <2>1, <2>3, <2>4, <2>5, <1>2, Listed
<1> QED
  BY <1>3, <1>4

\* A lookup uses an object, drops one, or misses.
LEMMA MatchInterestStep ==
  ASSUME Uniform, IInv, NEW name \in Names \cup {NoName}, NEW hash,
         name \in Names \/ hash \in Hashes, NEW other \in BOOLEAN, MatchInterest(name, hash, other)
  PROVE  IInv' /\ Lru!Next
<1> DEFINE e == Found(name, hash, other)
<1>1. created \in Seq(Packets) /\ Agrees(store, created) /\ Len(store.lru) <= Capacity /\ now \in Nat
  BY DEF IInv, CapacityRespected
<1>2. e = NoEntry \/ e \in ToSet(store.lru)
  BY <1>1, NullAssumption DEF Agrees, MappedByKey, Found
<1>3. created' = created /\ now' = now
  BY DEF MatchInterest
<1> HIDE DEF e
<1>4. CASE e = NoEntry
  <2>1. store' = store /\ served' = NoPacket
    BY <1>4 DEF MatchInterest, e
  <2>2. Cached' = Cached
    BY <2>1, <1>3 DEF Cached
  <2>3. IInv'
    BY <2>1, <1>3 DEF IInv, CapacityRespected, Agrees, StoreOf, ListedOnce, MappedByKey, ListedAreFound, EntryOf
  <2> QED
    BY <2>1, <2>2, <2>3 DEF Lru!Next, Lru!Miss
<1>5. CASE e # NoEntry /\ IsEntryValid(e)
  <2>1. store' = [store EXCEPT !.lru = Refresh(@, e)] /\ served' = created[e]
    BY <1>5 DEF MatchInterest, e
  <2>2. e \in ToSet(store.lru) /\ e \in DOMAIN created /\ created[e] \in Packets
    BY <1>2, <1>5, Listed
  <2>3. /\ Agrees([store EXCEPT !.lru = Refresh(@, e)], created)
        /\ \E k \in DOMAIN store.lru :
             store.lru[k] = e /\ Refresh(store.lru, e) = <<e>> \o RemoveAt(store.lru, k)
    BY <2>2, <1>1, RefreshAgrees, Zenon
  <2>4. PICK k \in DOMAIN store.lru :
          store.lru[k] = e /\ Refresh(store.lru, e) = <<e>> \o RemoveAt(store.lru, k)
    BY <2>3, Zenon
  <2> DEFINE w == RemoveAt(store.lru, k)
  <2>5. w \in Seq(DOMAIN created) /\ Len(w) = Len(store.lru) - 1
    BY Listed, RemoveAtElements, Zenon
  <2>6. store'.lru = <<e>> \o w
    BY <2>1, <2>4, Listed DEF StoreOf
  <2>7. Shown(w, created) = RemoveAt(Cached, k)
    BY <1>1, Listed, ShownRemove, Zenon
  <2> HIDE DEF w
  <2>8. Len(<<e>> \o w) = Len(w) + 1
    BY <2>2, <2>5, FrontElements, Zenon
  <2>9. Shown(<<e>> \o w, created) = <<created[e]>> \o Shown(w, created)
    BY <2>2, <2>5, <1>1, ShownFront, Zenon
  <2>10. IInv'
    <3>1. Agrees(store', created')
      BY <2>1, <2>3, <1>3, Zenon
    <3>2. Len(store'.lru) <= Capacity
      BY <2>5, <2>6, <2>8, <1>1, Listed
    <3> QED
      BY <3>1, <3>2, <2>1, <2>2, <1>1, <1>3 DEF IInv, CapacityRespected, Agrees, StoreOf, ListedOnce,
         MappedByKey, ListedAreFound, EntryOf
  <2>11. Lru!Use(k)
    <3>1. Cached' = Shown(store'.lru, created)
      BY <1>3 DEF Cached, Shown
    <3>2. Cached[k] = created[e]
      BY <2>4 DEF Cached
    <3>3. Lru!Without(Cached, k) = Shown(w, created)
      BY <2>7 DEF Lru!Without, RemoveAt
    <3> QED
      BY <3>1, <3>2, <3>3, <2>1, <2>6, <2>9 DEF Lru!Use
  <2> QED
    BY <2>10, <2>11, Listed DEF Lru!Next
<1>6. CASE e # NoEntry /\ ~IsEntryValid(e)
  <2>1. store' = Deleted(store, created[e]) /\ served' = NoPacket
    BY <1>6 DEF MatchInterest, e
  <2>2. created[e] \in Packets
    BY <1>2, <1>6, Listed
  <2>3. /\ Agrees(store', created) /\ Len(store'.lru) <= Capacity
        /\ \/ Shown(store'.lru, created) = Cached
           \/ \E k \in DOMAIN Cached : Shown(store'.lru, created) = Lru!Without(Cached, k)
    BY <2>1, <2>2, DeletedStep
  <2>4. Cached' = Shown(store'.lru, created)
    BY <1>3 DEF Cached, Shown
  <2>5. IInv'
    BY <2>1, <2>3, <1>1, <1>3 DEF IInv, CapacityRespected, Agrees, StoreOf, ListedOnce,
       MappedByKey, ListedAreFound, EntryOf
  <2> QED
    BY <2>1, <2>3, <2>4, <2>5 DEF Lru!Next, Lru!Miss, Lru!Drop
<1> QED
  BY <1>4, <1>5, <1>6

\* A deletion from outside drops an object, or does nothing.
LEMMA DeleteContentObjectStep ==
  ASSUME Uniform, IInv, NEW p \in Packets, DeleteContentObject(p)
  PROVE  IInv' /\ Lru!Next
<1>1. store' = Deleted(store, p) /\ served' = NoPacket /\ created' = created /\ now' = now
  BY DEF DeleteContentObject
<1>2. /\ Agrees(store', created) /\ Len(store'.lru) <= Capacity
      /\ \/ Shown(store'.lru, created) = Cached
         \/ \E k \in DOMAIN Cached : Shown(store'.lru, created) = Lru!Without(Cached, k)
  BY <1>1, DeletedStep
<1>3. Cached' = Shown(store'.lru, created)
  BY <1>1 DEF Cached, Shown
<1>4. IInv'
  BY <1>1, <1>2 DEF IInv, CapacityRespected, Agrees, StoreOf, ListedOnce, MappedByKey,
     ListedAreFound, EntryOf
<1> QED
  BY <1>1, <1>2, <1>3, <1>4 DEF Lru!Next, Lru!Miss, Lru!Drop

\* What an entry is not found for is no content object of the list.
LEMMA NotFoundNotShown ==
  ASSUME Uniform, IInv, NEW p \in Packets, EntryOf(store, p) = NoEntry
  PROVE  ContentKey[p] \notin Lru!Keys(Cached)
<1> SUFFICES ASSUME NEW i \in DOMAIN Cached, ContentKey[p] = ContentKey[Cached[i]] PROVE FALSE
  BY DEF Lru!Keys
<1> DEFINE f == store.lru[i]
           q == created[f]
<1>1. i \in DOMAIN store.lru /\ Cached[i] = q /\ f \in ToSet(store.lru) /\ q \in Packets /\ f # NoEntry
  BY Listed DEF Cached, ToSet
<1>2. EntryOf(store, q) = f
  BY <1>1 DEF IInv, Agrees, ListedAreFound
<1> HIDE DEF f, q
<1>3. ContentKey[p] = ContentKey[q]
  BY <1>1
<1>4. IF p.hash # NullHash THEN q.hash = p.hash ELSE q.hash = NullHash /\ q.name = p.name
  <2>1. ContentKey[p] = IF p.hash # NullHash THEN <<"hash", p.hash>> ELSE <<"name", p.name>>
    BY DEF ContentKey
  <2>2. ContentKey[q] = IF q.hash # NullHash THEN <<"hash", q.hash>> ELSE <<"name", q.name>>
    BY <1>1 DEF ContentKey
  <2>3. \A x, y : <<"hash", x>> # <<"name", y>>
    OBVIOUS
  <2>4. \A x, y : (<<"hash", x>> = <<"hash", y>> => x = y) /\ (<<"name", x>> = <<"name", y>> => x = y)
    OBVIOUS
  <2>5. CASE p.hash # NullHash
    BY <2>5, <1>3, <2>1, <2>2, <2>3, <2>4, Zenon
  <2>6. CASE p.hash = NullHash
    BY <2>6, <1>3, <2>1, <2>2, <2>3, <2>4, Zenon
  <2> QED
    BY <2>5, <2>6
<1>5. EntryOf(store, p) = EntryOf(store, q)
  BY <1>4 DEF EntryOf
<1> QED
  BY <1>1, <1>2, <1>5

\* An addition inserts an object, in place of the last one if there is no room, or
\* misses if it is there.
LEMMA AddContentObjectStep ==
  ASSUME Uniform, IInv, NEW p \in Packets, AddContentObject(p)
  PROVE  IInv' /\ Lru!Next
<1>1. created \in Seq(Packets) /\ Agrees(store, created) /\ CapacityRespected /\ now \in Nat
  BY DEF IInv
<1>2. CASE EntryOf(store, p) # NoEntry
  <2>1. UNCHANGED <<now, created, store>> /\ served' = NoPacket
    BY <1>2 DEF AddContentObject
  <2>2. Cached' = Cached
    BY <2>1 DEF Cached
  <2>3. IInv'
    BY <2>1 DEF IInv, CapacityRespected, Agrees, StoreOf, ListedOnce, MappedByKey, ListedAreFound, EntryOf
  <2> QED
    BY <2>1, <2>2, <2>3 DEF Lru!Next, Lru!Miss
<1>3. CASE EntryOf(store, p) = NoEntry
  <2> DEFINE e == Len(created) + 1
             s == Evict(store)
  <2>1. /\ created' = Append(created, p) /\ now' = now /\ served' = NoPacket
        /\ store' = Mapped([s EXCEPT !.lru = Refresh(@, e)], p, e)
    BY <1>3 DEF AddContentObject
  <2>2. /\ Agrees(s, created) /\ Len(s.lru) < Capacity /\ EntryOf(s, p) = NoEntry
        /\ s.lru = IF Len(store.lru) < Capacity THEN store.lru
                   ELSE RemoveAt(store.lru, Len(store.lru))
    BY <1>1, <1>3, EvictAgrees
  <2>3. s.lru \in Seq(DOMAIN created)
    BY <2>2 DEF Agrees, StoreOf
  <2>4. e = Len(created) + 1
    OBVIOUS
  <2> HIDE DEF e, s
  <2>5. /\ Agrees(Mapped([s EXCEPT !.lru = Refresh(@, e)], p, e), Append(created, p))
        /\ Mapped([s EXCEPT !.lru = Refresh(@, e)], p, e).lru = <<e>> \o s.lru
    BY <1>1, <2>2, <2>4, AddedAgrees, Zenon
  <2>6. Agrees(store', created') /\ store'.lru = <<e>> \o s.lru
    BY <2>1, <2>5, Zenon
  <2>7. /\ created' \in Seq(Packets) /\ e \in DOMAIN created' /\ created'[e] = p
    BY <1>1, <2>1, <2>4
  <2>8. s.lru \in Seq(DOMAIN created') /\ Shown(s.lru, created') = Shown(s.lru, created)
    BY <1>1, <2>1, <2>3, ShownLater, Zenon
  <2>9. Len(<<e>> \o s.lru) = Len(s.lru) + 1
    BY <2>7, <2>8, FrontElements
  <2>10. Shown(<<e>> \o s.lru, created') = <<p>> \o Shown(s.lru, created)
    BY <2>7, <2>8, ShownFront
  <2>11. IInv'
    <3>1. Len(store'.lru) <= Capacity
      BY <2>2, <2>3, <2>6, <2>9, CapacityAssumption
    <3> QED
      BY <3>1, <2>1, <2>6, <2>7, <1>1 DEF IInv, CapacityRespected, Agrees, StoreOf, ListedOnce,
         MappedByKey, ListedAreFound, EntryOf
  <2>12. Shown(s.lru, created) = IF Len(Cached) < Capacity THEN Cached ELSE Lru!Without(Cached, Len(Cached))
    <3>1. Cached = Shown(store.lru, created) /\ store.lru \in Seq(DOMAIN created)
      BY Listed
    <3>2. Len(Cached) = Len(store.lru)
      BY <3>1, <1>1, ShownList
    <3>3. CASE Len(store.lru) < Capacity
      BY <3>1, <3>2, <3>3, <2>2
    <3>4. CASE ~(Len(store.lru) < Capacity)
      <4>1. Len(store.lru) \in DOMAIN store.lru
        BY <3>1, <3>4, CapacityAssumption
      <4>2. Shown(RemoveAt(store.lru, Len(store.lru)), created) = RemoveAt(Shown(store.lru, created), Len(store.lru))
        BY <4>1, <3>1, <1>1, ShownRemove, Zenon
      <4>3. RemoveAt(Cached, Len(Cached)) = Lru!Without(Cached, Len(Cached))
        BY DEF RemoveAt, Lru!Without
      <4> QED
        BY <4>2, <4>3, <3>1, <3>2, <3>4, <2>2
    <3> QED
      BY <3>3, <3>4
  <2>13. Lru!Insert(p)
    <3>1. Cached' = Shown(store'.lru, created')
      BY DEF Cached, Shown
    <3>2. ContentKey[p] \notin Lru!Keys(Cached)
      BY <1>3, NotFoundNotShown
    <3> QED
      BY <3>1, <3>2, <2>1, <2>6, <2>10, <2>12 DEF Lru!Insert
  <2> QED
    BY <2>11, <2>13 DEF Lru!Next
<1> QED
  BY <1>2, <1>3

\* Every step keeps the invariant and is a step of LruCache or none.
LEMMA NextStep ==
  ASSUME Uniform, IInv, [Next]_vars
  PROVE  IInv' /\ [Lru!Next]_(Lru!vars)
<1>1. CASE Tick
  <2>1. now' = now + 1 /\ UNCHANGED <<created, store, served>>
    BY <1>1 DEF Tick
  <2>2. IInv' /\ Cached' = Cached
    BY <2>1 DEF IInv, CapacityRespected, Agrees, StoreOf, ListedOnce, MappedByKey, ListedAreFound,
       EntryOf, Cached
  <2> QED
    BY <2>1, <2>2 DEF Lru!vars
<1>2. ASSUME NEW name \in Names, NEW hash \in Hashes \cup {NullHash}, NEW other \in BOOLEAN,
             MatchInterest(name, hash, other)
      PROVE  IInv' /\ Lru!Next
  BY <1>2, MatchInterestStep
<1>3. ASSUME NEW hash \in Hashes, NEW other \in BOOLEAN, MatchInterest(NoName, hash, other)
      PROVE  IInv' /\ Lru!Next
  BY <1>3, MatchInterestStep
<1>4. ASSUME NEW p \in Packets, AddContentObject(p)
      PROVE  IInv' /\ Lru!Next
  BY <1>4, AddContentObjectStep
<1>5. ASSUME NEW p \in Packets, DeleteContentObject(p)
      PROVE  IInv' /\ Lru!Next
  BY <1>5, DeleteContentObjectStep
<1>6. CASE UNCHANGED vars
  <2>1. IInv' /\ Cached' = Cached
    BY <1>6 DEF vars, IInv, CapacityRespected, Agrees, StoreOf, ListedOnce, MappedByKey, ListedAreFound,
       EntryOf, Cached
  <2> QED
    BY <2>1, <1>6 DEF Lru!vars, vars
<1> QED
  BY <1>1, <1>2, <1>3, <1>4, <1>5, <1>6 DEF Next

-----------------------------------------------------------------------------
(* A store with room for every packet *)

\* The packets an Interest for their name, or for their hash, finds an entry for.
Stock(s) == {p \in Packets :
  (p.name \in Names => s.byName[p.name] # NoEntry) /\ (p.hash \in Hashes => s.byHash[p.hash] # NoEntry)}

Different(l) == \A i, j \in DOMAIN l : l[i] = l[j] => i = j

Roomy ==
  /\ \A l \in Seq(Packets) : Different(l) => Len(l) <= Capacity
  /\ \A p \in Packets : p.until = 0

\* No packet was added twice, and none has left.
AllStocked ==
  /\ \A e \in DOMAIN created : created[e] \in Stock(store)
  /\ \A d, e \in DOMAIN created : created[d] = created[e] => d = e

\* A look into such a store changes only the order of the list.
LEMMA MatchInterestKeepsStock ==
  ASSUME Roomy, IInv, AllStocked, NEW name \in Names \cup {NoName}, NEW hash,
         name \in Names \/ hash \in Hashes, MatchInterest(name, hash, FALSE)
  PROVE  /\ AllStocked' /\ Stock(store') = Stock(store)
         /\ served' = NoPacket => IF name # NoName THEN store.byName[name] = NoEntry
                                  ELSE store.byHash[hash] = NoEntry
<1> DEFINE e == Found(name, hash, FALSE)
<1>1. store \in StoreOf(created) /\ created \in Seq(Packets)
  BY DEF IInv, Agrees
<1>2. e = IF name # NoName THEN store.byName[name] ELSE store.byHash[hash]
  BY DEF Found
<1>3. e \in DOMAIN created \cup {NoEntry}
  BY <1>1, <1>2, NullAssumption DEF StoreOf
<1>4. /\ created' = created
      /\ served' = IF e # NoEntry /\ IsEntryValid(e) THEN created[e] ELSE NoPacket
      /\ store' = IF e = NoEntry THEN store
                  ELSE IF IsEntryValid(e) THEN [store EXCEPT !.lru = Refresh(@, e)]
                  ELSE Deleted(store, created[e])
  BY DEF MatchInterest
<1> HIDE DEF e
<1>5. e # NoEntry => created[e] \in Packets /\ IsEntryValid(e)
  BY <1>1, <1>3 DEF Roomy, IsEntryValid
<1>6. store'.byName = store.byName /\ store'.byHash = store.byHash
  BY <1>1, <1>4, <1>5 DEF StoreOf
<1>7. Stock(store') = Stock(store)
  BY <1>6 DEF Stock
<1>8. served' = NoPacket => e = NoEntry
  BY <1>4, <1>5, NullAssumption
<1> QED
  BY <1>2, <1>4, <1>7, <1>8 DEF AllStocked

\* A packet that is added stays, and so does what was there.
LEMMA AddContentObjectKeepsStock ==
  ASSUME Uniform, Roomy, IInv, AllStocked, NEW p \in Packets, AddContentObject(p)
  PROVE  AllStocked' /\ Stock(store) \subseteq Stock(store') /\ p \in Stock(store')
<1>1. /\ store \in StoreOf(created) /\ created \in Seq(Packets) /\ ListedOnce(store)
      /\ MappedByKey(store, created)
  BY DEF IInv, Agrees
<1>2. p.name \in Names \cup {NoName} /\ p.hash \in Hashes \cup {NullHash}
  BY PacketsAssumption
<1>3. CASE EntryOf(store, p) # NoEntry
  <2>1. UNCHANGED <<created, store>>
    BY <1>3 DEF AddContentObject
  <2> DEFINE e == EntryOf(store, p)
  <2>2. e \in DOMAIN created /\ IF p.hash # NullHash THEN created[e].hash = p.hash
                                ELSE created[e].name = p.name
    BY <1>1, <1>2, <1>3 DEF EntryOf, StoreOf, MappedByKey
  <2>3. created[e] \in Packets /\ created[e] \in Stock(store)
    BY <1>1, <2>2 DEF AllStocked
  <2> HIDE DEF e
  <2>4. created[e].name = p.name /\ (p.hash # NullHash => created[e].hash = p.hash)
    BY <2>2, <2>3 DEF Uniform
  <2>5. p \in Stock(store)
    BY <1>2, <2>3, <2>4, NullAssumption DEF Stock
  <2> QED
    BY <2>1, <2>5 DEF AllStocked
<1>4. CASE EntryOf(store, p) = NoEntry
  <2>1. p \notin Stock(store)
    BY <1>2, <1>4, NullAssumption DEF Stock, EntryOf, Uniform
  <2>2. \A d \in DOMAIN created : created[d] # p
    BY <2>1 DEF AllStocked
  <2>3. Len(store.lru) < Capacity
    <3> DEFINE n == Len(store.lru)
               l == [i \in 1 .. n + 1 |-> IF i = n + 1 THEN p ELSE created[store.lru[i]]]
    <3>1. /\ n \in Nat /\ DOMAIN store.lru = 1 .. n
          /\ \A i \in 1 .. n : store.lru[i] \in DOMAIN created /\ created[store.lru[i]] \in Packets
          /\ \A i, j \in 1 .. n : store.lru[i] = store.lru[j] => i = j
      BY <1>1 DEF StoreOf, ListedOnce
    <3>2. DOMAIN l = 1 .. n + 1 /\ l \in Seq(Packets) /\ Len(l) = n + 1
      BY <3>1
    <3>3. /\ \A i, j \in 1 .. n : created[store.lru[i]] = created[store.lru[j]] => i = j
          /\ \A i \in 1 .. n : created[store.lru[i]] # p
      BY <2>2, <3>1 DEF AllStocked
    <3>4. ASSUME NEW i \in 1 .. n + 1, NEW j \in 1 .. n + 1, l[i] = l[j] PROVE i = j
      <4>1. \A k \in 1 .. n + 1 : k = n + 1 \/ k \in 1 .. n
        BY <3>1
      <4>2. (i = n + 1 \/ i \in 1 .. n) /\ (j = n + 1 \/ j \in 1 .. n)
        BY <4>1
      <4>3. l[i] = (IF i = n + 1 THEN p ELSE created[store.lru[i]]) /\ n + 1 \notin 1 .. n
            /\ l[j] = (IF j = n + 1 THEN p ELSE created[store.lru[j]])
        BY <3>1
      <4> QED
        BY <3>3, <3>4, <4>2, <4>3
    <3> HIDE DEF l
    <3>5. Len(l) <= Capacity
      BY <3>2, <3>4 DEF Roomy, Different
    <3> QED
      BY <3>1, <3>2, <3>5, CapacityAssumption
  <2> DEFINE e == Len(created) + 1
             c == Append(created, p)
  <2>4. Evict(store) = store
    BY <2>3 DEF Evict
  <2>5. created' = c /\ store' = Mapped([store EXCEPT !.lru = Refresh(@, e)], p, e)
    BY <1>4, <2>4 DEF AddContentObject
  <2>6. /\ e # NoEntry /\ DOMAIN c = DOMAIN created \cup {e} /\ c[e] = p
        /\ \A d \in DOMAIN created : c[d] = created[d]
    BY <1>1 DEF NoEntry
  <2> HIDE DEF c, e
  <2>7. /\ store'.byName = [n \in Names |-> IF n = p.name THEN e ELSE store.byName[n]]
        /\ store'.byHash = [h \in Hashes |-> IF h = p.hash THEN e ELSE store.byHash[h]]
    BY <1>1, <2>5 DEF Mapped, StoreOf
  <2>8. Stock(store) \subseteq Stock(store') /\ p \in Stock(store')
    BY <2>6, <2>7 DEF Stock
  <2> QED
    BY <2>2, <2>5, <2>6, <2>8 DEF AllStocked
<1> QED
  BY <1>3, <1>4

-----------------------------------------------------------------------------
(* Theorems *)

\* IInv is an invariant.
THEOREM Invariant ==
  ASSUME Uniform
  PROVE  Spec => []IInv
<1>1. Init => IInv
  BY InitInv
<1>2. IInv /\ [Next]_vars => IInv'
  BY NextStep
<1> QED
  BY <1>1, <1>2, PTL DEF Spec

\* The maps and the list hold entries that were created, whatever the packets are.
THEOREM TypeCorrect == Spec => []TypeOK
<1>1. Typed => TypeOK
  BY DEF Typed, TypeOK, StoreOf, Entries
<1> QED
  BY <1>1, TypedInit, NextTyped, PTL DEF Spec

\* Whatever is looked up, added, deleted and evicted in whatever order, what an Interest can
\* hit is in the list, and what is in the list is found for its packet.
THEOREM MapsAndLruAgree ==
  ASSUME Uniform
  PROVE  Spec => []MapsAgreeWithLru
<1>1. IInv => MapsAgreeWithLru
  BY DEF IInv, MapsAgreeWithLru, Agrees, MappedByKey, ListedAreFound
<1> QED
  BY <1>1, Invariant, PTL

\* The store never holds more than its capacity (ccnx-standard-content-store.cc:103).
THEOREM CapacityIsRespected ==
  ASSUME Uniform
  PROVE  Spec => []CapacityRespected
<1>1. IInv => CapacityRespected
  BY DEF IInv
<1> QED
  BY <1>1, Invariant, PTL

\* The store is the LRU cache of LruCache.
THEOREM StoreIsLruCache ==
  ASSUME Uniform
  PROVE  Spec => Implements
<1>1. Init => Lru!Init
  BY InitInv
<1>2. IInv /\ [Next]_vars => [Lru!Next]_(Lru!vars)
  BY NextStep
<1> QED
  BY <1>1, <1>2, Invariant, PTL DEF Spec, Implements, Lru!Spec
=============================================================================
