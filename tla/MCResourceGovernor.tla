------------------------ MODULE MCResourceGovernor --------------------------
(* One unit per region between the thresholds.  CPU readings fall in every  *)
(* region, memory readings in the outer ones, so that two dimensions can    *)
(* disagree; storage and queue are low, missing or in error.                *)
EXTENDS ResourceGovernor

MCSaverAt     == [d \in Dims |-> 3]
MCEmergencyAt == [d \in Dims |-> 5]
MCMargin      == [d \in Dims |-> 1]
MCLevels      == [d \in Dims |-> CASE d = "cpu" -> 1..5
                                   [] d = "mem" -> {1, 5}
                                   [] d \in {"storage", "queue"} -> {1}]
=============================================================================
