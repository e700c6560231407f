---------------------------- MODULE MCScanIngestLive ----------------------------
(* An instance of ScanIngest with one scan, which decode rejects and which the *)
(* emitter writes once or twice, for its liveness property.                    *)
EXTENDS ScanIngest

CONSTANTS bad, c1, c2, v1

MCEvents == {bad}
MCConsumers == {c1, c2}
MCVisitors == {v1}
MCVisitor == [e \in MCEvents |-> v1]
=============================================================================
