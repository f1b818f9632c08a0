----------------------------- MODULE NfpSeqnum -----------------------------
(***************************************************************************)
(* NfpSeqnum (model/routing/nfp/nfp-seqnum.cc): the order of sequence      *)
(* numbers that wrap, by the sign of their difference in two's complement. *)
(* Payloads have 16 bits of them and anchor advertisements 32.             *)
(***************************************************************************)
EXTENDS Integers

\* Half the range of uint16_t and of uint32_t; TLC has no literal for 2^31.
Half16 == 32768
Half32 == Half16 * 65536
Halves == {Half16, Half32}

\* A plausible bug: the difference is taken in a wider type, as if nothing wrapped.
DeltaPromoted(a, b, half) == a - b

\* int16_t (a - b) of two uint16_t, int32_t (a - b) of two uint32_t
Delta(a, b, half) ==
  LET d == (a - b) % (2 * half) IN IF d < half THEN d ELSE d - 2 * half

Sign(d) == IF d > 0 THEN 1 ELSE IF d < 0 THEN -1 ELSE 0

\* NfpSeqnum::Compare of either width
Compare(a, b, half) == Sign(Delta(a, b, half))
=============================================================================
