------------------------------- MODULE MCNfp -------------------------------
(* Instances of NfpRouting for TLC. *)
EXTENDS NfpRouting

Triangle == {{1, 2}, {2, 3}, {1, 3}}
Line     == {{1, 2}, {2, 3}}
Square   == {{1, 2}, {1, 3}, {2, 4}, {3, 4}}

\* Payloads each node may send.
Plenty    == [n \in Node |-> 9]
AnchorTwo == [n \in Node |-> IF n = 1 THEN 2 ELSE 1]

=============================================================================
