---------------------------- MODULE MCDashboard ----------------------------
(* A small instance of Dashboard for TLC. *)
EXTENDS Dashboard, TLC

CONSTANTS p1, p2, s1, s2, d1, d2

MCProcs == {p1, p2}
MCShorts == {s1, s2}
MCDests == {d1, d2}

\* Requests, short codes and destinations are interchangeable.
Symmetry == Permutations(MCProcs) \cup Permutations(MCShorts) \cup Permutations(MCDests)
=============================================================================
