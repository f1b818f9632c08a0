--------------------------- MODULE MCContentStore ---------------------------
(* Packets for the runs of ContentStore. *)
EXTENDS ContentStore

CONSTANTS n1, n2, h1, h2, h3

Content(name, hash, until) == [name |-> name, hash |-> hash, until |-> until]

\* Two objects of one name with hashes, two versions of one object without a hash,
\* and an object without a name; some of them expire.
UniformPackets ==
  {Content(n1, h1, 0), Content(n1, h2, 1), Content(n2, NullHash, 0), Content(n2, NullHash, 1),
   Content(NoName, h3, 0)}

\* An object without a hash that shares its name with objects that have one.
MixedPackets ==
  {Content(n1, NullHash, 0), Content(n1, h1, 0), Content(n2, h2, 0)}
=============================================================================
