---------------------------- MODULE MCEventStore ----------------------------
(* Two interchangeable DEBUG events, so that the age of rows matters, and   *)
(* one of a higher severity, so that the order of severities does.  With    *)
(* one genuine content, integrity errors come from corrupt rows.            *)
EXTENDS EventStore, TLC

CONSTANTS d1, d2, w1

MCIds    == {d1, d2, w1}
MCSev    == [id \in MCIds |-> IF id = w1 THEN "WARNING" ELSE "DEBUG"]
Symmetry == Permutations({d1, d2})
=============================================================================
