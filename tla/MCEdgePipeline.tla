--------------------------- MODULE MCEdgePipeline ---------------------------
(* Two instances: prunable telemetry d1 that matches a rule and the CRITICAL*)
(* finding f1 it yields, or d1 and CRITICAL telemetry k1 with no findings.  *)
EXTENDS EdgePipeline, TLC

CONSTANTS d1, k1, f1

DetectIds       == {d1, f1}
DetectTelemetry == {d1}
DetectSev       == d1 :> "DEBUG" @@ f1 :> "CRITICAL"
DetectFindingOf == d1 :> f1

QuotaIds        == {d1, k1}
QuotaSev        == d1 :> "DEBUG" @@ k1 :> "CRITICAL"
QuotaFindingOf  == d1 :> NoEvent @@ k1 :> NoEvent
=============================================================================
