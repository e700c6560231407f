------------------------------ MODULE ScanCounts ------------------------------
(***************************************************************************)
(* What the ingest service promises                                        *)
(* (src/reference/go-v2/internal/ingest/ingest.go): "exactly-once effect on *)
(* top of at-least-once delivery".  Scans are recorded in groups; a scan   *)
(* is recorded once, and the total on the code grows with the scans that   *)
(* are recorded and count, in the same step.                               *)
(***************************************************************************)
EXTENDS Naturals, FiniteSets

CONSTANT Row   \* a recorded scan: event, the scan; counted, whether it counts

VARIABLES recorded, total

Init ==
    /\ recorded = {}
    /\ total = 0

Record(new) ==
    /\ \A r, s \in recorded \cup new : r.event = s.event => r = s
    /\ recorded \cap new = {}
    /\ recorded' = recorded \cup new
    /\ total' = total + Cardinality({r \in new : r.counted})

Next == \E new \in SUBSET Row : Record(new)

Spec == Init /\ [][Next]_<<recorded, total>>
=============================================================================
