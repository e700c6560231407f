----------------------------- MODULE MCJobQueue -----------------------------
(* A small instance of JobQueue for TLC. *)
EXTENDS JobQueue

CONSTANTS w1, w2, k1

MCWorkers == {w1, w2}
MCKeys == {k1}
=============================================================================
