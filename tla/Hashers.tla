------------------------------ MODULE Hashers ------------------------------
(***************************************************************************)
(* CCNxHasherFnv1a.  A value of 64 bits is the sequence of its 8 bytes,    *)
(* the highest first, which is also how Finalize makes it a CCNxHashValue. *)
(* The simulator has no packet hashed yet.                                 *)
(***************************************************************************)
EXTENDS Naturals, SequencesExt, Bitwise

Fnv1aPrime == <<0, 0, 1, 0, 0, 0, 1, 179>>
Fnv1aInitialValue == <<203, 242, 156, 228, 132, 34, 35, 37>>

\* The product modulo 2^64: places[k] is what the k + 1 lowest places come to, without
\* what their lower places keep.
Times(a, b) ==
  LET column(k) == MapThenSumSet(LAMBDA i : a[8 - i] * b[8 - k + i], 0 .. k)
      places[k \in 0 .. 7] == column(k) + (IF k = 0 THEN 0 ELSE places[k - 1] \div 256)
  IN [i \in 1 .. 8 |-> places[8 - i] % 256]

\* Both Updates: of a buffer with its length, and of what an iterator has not read.
Fnv1aUpdate(value, bytes) ==
  FoldLeft(LAMBDA v, byte : Times([v EXCEPT ![8] = @ ^^ byte], Fnv1aPrime), value, bytes)

\* Init, Update and Finalize
Fnv1a(bytes) == Fnv1aUpdate(Fnv1aInitialValue, bytes)

=============================================================================
