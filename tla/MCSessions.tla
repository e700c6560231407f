---------------------------- MODULE MCSessions ----------------------------
(* A small instance of Sessions for TLC. *)
EXTENDS Sessions, TLC

CONSTANTS p1, p2, t1, nobody

MCProcs == {p1, p2}
MCTokens == {t1}

\* Requests are interchangeable.
Symmetry == Permutations(MCProcs)
=============================================================================
