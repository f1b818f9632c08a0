------------------------------ MODULE LruCache ------------------------------
(***************************************************************************)
(* What the documentation of the content store promises: a cache of at     *)
(* most Capacity content objects, each present once, that makes room by    *)
(* dropping the least recently used one.                                   *)
(***************************************************************************)
EXTENDS Naturals, Sequences

CONSTANTS
  Packets,   \* content object packets
  Key,       \* a function on the packets: what makes two of them one content object
  NoPacket,  \* no object
  Capacity   \* the number of objects the cache holds

VARIABLES
  cache,  \* packets, the most recently used first
  served  \* the packet the last Interest was answered with, if it was

vars == <<cache, served>>

Keys(c)       == {Key[c[i]] : i \in DOMAIN c}
Without(c, i) == SubSeq(c, 1, i - 1) \o SubSeq(c, i + 1, Len(c))

Init == cache = <<>> /\ served = NoPacket

\* An Interest is answered: the object becomes the most recently used.
Use(i) == served' = cache[i] /\ cache' = <<cache[i]>> \o Without(cache, i)

\* An Interest finds nothing, or an object is not added.
Miss == served' = NoPacket /\ UNCHANGED cache

\* An object is found to be too old.
Drop(i) == served' = NoPacket /\ cache' = Without(cache, i)

\* A new object, in place of the least recently used one if there is no room.
Insert(p) ==
  /\ Key[p] \notin Keys(cache)
  /\ served' = NoPacket
  /\ cache' = <<p>> \o (IF Len(cache) < Capacity THEN cache ELSE Without(cache, Len(cache)))

Next ==
  \/ Miss
  \/ \E i \in DOMAIN cache : Use(i) \/ Drop(i)
  \/ \E p \in Packets : Insert(p)

Spec == Init /\ [][Next]_vars
=============================================================================
