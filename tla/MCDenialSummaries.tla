------------------------- MODULE MCDenialSummaries -------------------------
(* DenialSummaries for TLC: a few keys, windows and denials.                *)
EXTENDS DenialSummaries, TLC

\* Keys and requests are interchangeable.
Symmetry == Permutations(Key) \cup Permutations(Req)
=============================================================================
