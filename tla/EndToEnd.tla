------------------------------- MODULE EndToEnd -------------------------------
(***************************************************************************)
(* One agent and the central server.  The agent is EdgePipeline, the       *)
(* server CentralPipeline, and they meet in the forwarder's request: where *)
(* EdgePipeline leaves open what the server does with it, here the ingest  *)
(* handler publishes the event or not.  Other agents post to the same      *)
(* server.                                                                 *)
(***************************************************************************)
EXTENDS EdgePipeline

CONSTANTS
    Others,         \* ids of the events that other agents post
    Alerting, Unpersistable, NoGroup, Malformed, Workers, ReadCount,
    RecoveryBatchSize, MaxMsgs, MaxCrashes      \* CentralPipeline

VARIABLES
    stream, cursor, pel, deadLetters, rows, alerts, th, crashes,    \* CentralPipeline
    answered        \* ghost: events the handler answered with 202

Server == INSTANCE CentralPipeline WITH Events <- EventIds \cup Others, accepted <- answered

serverVars == <<stream, cursor, pel, deadLetters, rows, alerts, th, crashes, answered>>
systemVars == <<vars, serverVars>>

(* What CentralPipeline assumes; event ids of two agents differ, and the   *)
(* server raises alerts for the severities that the quota spares.          *)
ASSUME SystemAssumption ==
    /\ Others \cap EventIds = {}
    /\ Alerting \subseteq EventIds \cup Others
    /\ \A id \in EventIds : id \in Alerting <=> Sev[id] \in DB!Critical
    /\ Unpersistable \subseteq EventIds \cup Others
    /\ Malformed \notin EventIds \cup Others /\ NoGroup \notin Nat
    /\ ReadCount \in Nat \ {0} /\ RecoveryBatchSize \in Nat \ {0}
    /\ MaxMsgs \in Nat /\ MaxCrashes \in Nat

SystemInit == Init /\ Server!Init

-----------------------------------------------------------------------------
(* M: the handler answers before it publishes.                             *)
M_AnswerFirst ==
    /\ FwdPost
    /\ fwd'.reply # "400" /\ accepted' = accepted \cup {Current[1]}
    /\ UNCHANGED serverVars

(***************************************************************************)
(* The handler publishes the posted event.  202 follows a successful XADD; *)
(* when XADD seems to fail or the response is lost, the forwarder retries. *)
(***************************************************************************)
PostServed ==
    /\ FwdPost
    /\ fwd'.reply # "400" /\ accepted' = accepted \cup {Current[1]}
    /\ Server!Ingest(Current[1])
    /\ fwd'.reply = "202" => Current[1] \in answered'

(* The request is lost, late or refused: nothing is published for now.     *)
PostUnserved ==
    /\ FwdPost
    /\ fwd'.reply # "202" /\ accepted' = accepted
    /\ UNCHANGED serverVars

(* A request that the forwarder has given up is served after all, for the  *)
(* first time, or as one more copy of an event that is published already.  *)
LateServed(id) ==
    /\ ServedLate(id) \/ (id \in accepted /\ UNCHANGED vars)
    /\ Server!Ingest(id)

AgentAlone ==
    /\ \/ \E id \in Telemetry : Produce(id)
       \/ Engine
       \/ FwdFetch \/ FwdSend \/ FwdReply \/ FwdExit
       \/ Environment
       \/ Lifecycle
    /\ UNCHANGED serverVars

ServerAlone ==
    /\ \/ \E e \in Others : Server!Ingest(e)
       \/ Server!StrayMessage
       \/ \E t \in Server!Threads : Server!Step(t)
       \/ \E m \in Server!Msgs : Server!BecomeIdle(m)
       \/ \E w \in Workers : Server!CrashWorker(w)
    /\ UNCHANGED vars

SystemNext ==
    \/ PostServed
    \/ PostUnserved
    \/ \E id \in EventIds : LateServed(id)
    \/ AgentAlone
    \/ ServerAlone

SystemSpec == SystemInit /\ [][SystemNext]_systemVars

-----------------------------------------------------------------------------
(* Published, and not yet settled by a worker.                             *)
OnItsWay(id) == \E m \in Server!Msgs : stream[m] = id /\ Server!InFlight(m)

(***************************************************************************)
(* From the collector's channel to PostgreSQL: an event that ProcessEvent  *)
(* reported COMMITTED is in the agent's store, in the stream with an       *)
(* acknowledgement outstanding, or in the central table, unless the quota  *)
(* pruned it, and a CRITICAL or FATAL one is never pruned.  No crash of    *)
(* agent or worker, lost request, lost answer or late request makes it     *)
(* vanish between two of them.  And what the centre shows of this agent    *)
(* was committed there, an alert for a finding included: the telemetry it  *)
(* cites was reported committed.                                           *)
(***************************************************************************)
NothingLostEndToEnd ==
    /\ \A id \in Telemetry : outcome[id] = "committed" =>
          \/ Stored(id) \/ OnItsWay(id) \/ id \in rows
          \/ Pruned(id) /\ Sev[id] \notin DB!Critical
    /\ \A id \in rows \cap EventIds : Committed(id)
    /\ \A t \in Telemetry : FindingOf[t] \in alerts \cap EventIds => outcome[t] = "committed"

(***************************************************************************)
(* Refinement: seen from the central tables, agent, network, stream and    *)
(* workers deliver events as EventDelivery promises.                       *)
(***************************************************************************)
Held      == {id \in EventIds : Stored(id) \/ OnItsWay(id)} \ rows
Discarded == {id \in EventIds : Pruned(id)}
Promised  == {t \in Telemetry : outcome[t] = "committed"}

Delivery == INSTANCE EventDelivery
              WITH Events <- EventIds, Urgent <- Alerting \cap EventIds,
                   held <- Held, delivered <- rows \cap EventIds,
                   raised <- alerts \cap EventIds,
                   discarded <- Discarded, promised <- Promised

DeliversEvents == Delivery!Spec
===============================================================================
