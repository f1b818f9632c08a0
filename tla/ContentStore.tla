---------------------------- MODULE ContentStore ----------------------------
(***************************************************************************)
(* CCNxStandardContentStore (model/forwarding/standard): a cache of the    *)
(* content objects a node has forwarded, with maps by name and by hash and *)
(* a list ordered by use.                                                  *)
(*                                                                         *)
(* MatchInterest and AddContentObject put the work item in a DelayQueue;   *)
(* the lookup or the addition happens when its service begins              *)
(* (GetServiceTime), and the result, in the work item, is given to the     *)
(* forwarder when its service ends.  One step here is one begun item.      *)
(*                                                                         *)
(* Under KEYIDHACK every content object has the same key id, so            *)
(* m_csByNameKeyid and m_csByHashKeyid, which are written and erased with  *)
(* m_csByName and m_csByHash, hold the same entries: they differ only for  *)
(* an Interest that asks for another key id, which finds nothing.          *)
(***************************************************************************)
EXTENDS Naturals, SequencesExt

CONSTANTS
  Packets,     \* content object packets: [name, hash, until]
  Names,       \* the names with at least one segment
  NoName,      \* the name without segments, "ccnx:/"
  Hashes,      \* content object hashes other than the null one
  NoPacket,    \* no packet
  NullHash,    \* the hash of a packet nobody set it on: all that come off the wire
  Capacity,    \* m_objectCapacity
  MaxTime,     \* bound: the last instant of a behaviour
  MaxEntries   \* bound: the entries created in a behaviour

ASSUME PacketsAssumption ==
  Packets \subseteq [name : Names \cup {NoName}, hash : Hashes \cup {NullHash}, until : Nat]
ASSUME NullAssumption == NoName \notin Names /\ NullHash \notin Hashes /\ NoPacket \notin Packets
\* With no capacity ServiceAddContentObject takes the back of an empty list.
ASSUME CapacityAssumption == Capacity \in Nat \ {0}
ASSUME BoundsAssumption == MaxTime \in Nat /\ MaxEntries \in Nat

\* What the store needs of its packets to work as a cache: a packet without a hash does not
\* share its name with one that has a hash, and has a name; a hash is that of one name.
Uniform ==
  \A p, q \in Packets :
    IF p.hash = NullHash THEN p.name # NoName /\ (p.name = q.name => q.hash = NullHash)
    ELSE p.hash = q.hash => p.name = q.name

VARIABLES
  now,      \* Simulator::Now ()
  created,  \* the packets of the entries created so far; an entry is its number
  store,    \* the maps m_csByName and m_csByHash, and the list m_lruList
  served    \* the content store packet the step put in the work item, if any

vars == <<now, created, store, served>>

NoEntry == 0
Entries == DOMAIN created

-----------------------------------------------------------------------------
(* Plausible bugs: each replaces the definition it names in a run that      *)
(* shows the properties can fail.                                          *)

\* Refresh: an entry that is used keeps its place in the list.
RefreshInPlace(lru, e) == IF e \in {lru[i] : i \in DOMAIN lru} THEN lru ELSE <<e>> \o lru

\* Unmapped: the name map keeps the deleted entry.
UnmappedHashOnly(s, p) == [s EXCEPT !.byHash = [h \in Hashes |-> IF h = p.hash THEN 0 ELSE @[h]]]

-----------------------------------------------------------------------------
(* CCNxStandardContentStoreLruList *)

\* DeleteEntry: m_lruMap knows the place of an entry in the list.
Without(lru, e) ==
  IF e \in ToSet(lru) THEN RemoveAt(lru, CHOOSE i \in DOMAIN lru : lru[i] = e) ELSE lru

\* AddEntry: to the front, whether or not the entry is in the list.
Refresh(lru, e) == <<e>> \o Without(lru, e)

-----------------------------------------------------------------------------
(* CCNxStandardContentStore *)

\* IsEntryValid.  "until" is the earlier of the expiry time and the recommended
\* cache time, 0 if the packet has neither.
IsEntryValid(e) == created[e].until = 0 \/ created[e].until >= now

\* GetEntryFromPacket: by the hash if the packet has one, else by the name.
EntryOf(s, p) ==
  IF p.hash # NullHash THEN s.byHash[p.hash]
  ELSE IF p.name # NoName THEN s.byName[p.name] ELSE NoEntry

\* AddMapEntry
Mapped(s, p, e) ==
  [byName |-> [n \in Names  |-> IF n = p.name THEN e ELSE s.byName[n]],
   byHash |-> [h \in Hashes |-> IF h = p.hash THEN e ELSE s.byHash[h]], lru |-> s.lru]

\* DeleteContentObject: p's name and hash are erased from the maps, whichever
\* entry they lead to.
Unmapped(s, p) == Mapped(s, p, NoEntry)

\* DeleteContentObject: what leaves the list is the entry found for the packet.
Deleted(s, p) ==
  IF EntryOf(s, p) = NoEntry THEN s
  ELSE [Unmapped(s, p) EXCEPT !.lru = Without(@, EntryOf(s, p))]

\* ServiceAddContentObject makes room for one more entry.
Evict(s) == IF Len(s.lru) < Capacity THEN s ELSE Deleted(s, created[Last(s.lru)])

\* ServiceMatchInterest looks in one map only, by the name if there is one: then
\* it ignores a hash restriction.
Found(name, hash, otherKeyId) ==
  IF otherKeyId THEN NoEntry ELSE IF name # NoName THEN store.byName[name] ELSE store.byHash[hash]

Init ==
  /\ now = 0
  /\ created = <<>>
  /\ store = [byName |-> [n \in Names |-> NoEntry], byHash |-> [h \in Hashes |-> NoEntry],
              lru |-> <<>>]
  /\ served = NoPacket

\* The simulator moves on to a later event.
Tick == now < MaxTime /\ now' = now + 1 /\ UNCHANGED <<created, store, served>>

\* ServiceMatchInterest: a hit is refreshed, an entry that is too old is deleted.
MatchInterest(name, hash, otherKeyId) ==
  LET e == Found(name, hash, otherKeyId) IN
  /\ store' = IF e = NoEntry THEN store
              ELSE IF IsEntryValid(e) THEN [store EXCEPT !.lru = Refresh(@, e)]
              ELSE Deleted(store, created[e])
  /\ served' = IF e # NoEntry /\ IsEntryValid(e) THEN created[e] ELSE NoPacket
  /\ UNCHANGED <<now, created>>

\* ServiceAddContentObject
AddContentObject(p) ==
  /\ Len(created) < MaxEntries
  /\ served' = NoPacket
  /\ IF EntryOf(store, p) # NoEntry THEN UNCHANGED <<now, created, store>>
     ELSE LET e == Len(created) + 1
              s == Evict(store)
          IN  /\ created' = Append(created, p)
              /\ store' = Mapped([s EXCEPT !.lru = Refresh(@, e)], p, e)
              /\ UNCHANGED now

\* DeleteContentObject, called from outside
DeleteContentObject(p) ==
  store' = Deleted(store, p) /\ served' = NoPacket /\ UNCHANGED <<now, created>>

Next ==
  \/ Tick
  \/ \E name \in Names, hash \in Hashes \cup {NullHash}, otherKeyId \in BOOLEAN :
       MatchInterest(name, hash, otherKeyId)
  \/ \E hash \in Hashes, otherKeyId \in BOOLEAN : MatchInterest(NoName, hash, otherKeyId)
  \/ \E p \in Packets : AddContentObject(p) \/ DeleteContentObject(p)

Spec == Init /\ [][Next]_vars

-----------------------------------------------------------------------------
(* Properties *)

\* The maps lead to entries that were created, and so does the list.
TypeOK ==
  /\ now \in Nat
  /\ created \in Seq(Packets)
  /\ store \in [byName : [Names -> Entries \cup {NoEntry}],
                byHash : [Hashes -> Entries \cup {NoEntry}], lru : Seq(Entries)]
  /\ served \in Packets \cup {NoPacket}

\* An entry that an Interest can hit is in the list, so that it is counted and
\* can be evicted, and an entry in the list is the one its packet leads to, so that
\* evicting it works.
MapsAgreeWithLru ==
  /\ \A n \in Names  : store.byName[n] \in ToSet(store.lru) \cup {NoEntry}
  /\ \A h \in Hashes : store.byHash[h] \in ToSet(store.lru) \cup {NoEntry}
  /\ \A e \in ToSet(store.lru) : EntryOf(store, created[e]) = e

\* Documented (ccnx-standard-content-store.cc:103): the store holds at most
\* "the maximum number of content objects".
CapacityRespected == Len(store.lru) <= Capacity

\* The store is the cache LruCache describes: packets are the same object if they
\* have the same hash or, without one, the same name.
ContentKey == [p \in Packets |-> IF p.hash # NullHash THEN <<"hash", p.hash>> ELSE <<"name", p.name>>]
Cached == [i \in DOMAIN store.lru |-> created[store.lru[i]]]
Lru == INSTANCE LruCache WITH cache <- Cached, Key <- ContentKey
Implements == Lru!Spec

=============================================================================
