------------------------------ MODULE MCEndToEnd ------------------------------
(* Prunable telemetry d1 that matches a rule, the CRITICAL finding f1 it     *)
(* yields and another agent's event o1; the stream has room for two.         *)
EXTENDS EndToEnd, TLC

CONSTANTS d1, f1, o1

DetectSev       == d1 :> "DEBUG" @@ f1 :> "CRITICAL"
DetectFindingOf == d1 :> f1

(* Bounds: what the agent's own runs explore, an orderly shutdown and the   *)
(* retry of an uncertain commit, and what the server's own runs explore, a  *)
(* worker's crash and messages of others, happens but is not pursued.       *)
NoShutdown  == phase \in {"run", "down"}
SureCommits == eng.attempts = 0
OwnTraffic  == crashes = 0 /\ \A m \in Server!Msgs : stream[m] \in EventIds
===============================================================================
