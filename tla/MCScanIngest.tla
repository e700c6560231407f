---------------------------- MODULE MCScanIngest ----------------------------
(* A small instance of ScanIngest for TLC. *)
EXTENDS ScanIngest, TLC

CONSTANTS e1, e2, c1, c2, v1

MCEvents == {e1, e2}
MCConsumers == {c1, c2}

\* Both scans are by the same visitor, within one dedupe window or not.
MCVisitors == {v1}
MCVisitor == [e \in MCEvents |-> v1]

\* Consumers are interchangeable, and so are the scans.
Symmetry == Permutations(MCConsumers) \cup Permutations(MCEvents)
=============================================================================
