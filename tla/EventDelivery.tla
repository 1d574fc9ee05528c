---------------------------- MODULE EventDelivery ----------------------------
(***************************************************************************)
(* What agent and server together promise to somebody who reads the        *)
(* central tables: once the agent has reported an event committed, it is   *)
(* held somewhere durable until it is delivered, unless it was discarded   *)
(* for want of room, which never happens to an urgent event; a delivered   *)
(* event stays, and raises one alert if it is urgent.                      *)
(***************************************************************************)
CONSTANTS
    Events,         \* the events of one agent
    Urgent          \* the CRITICAL and FATAL ones

VARIABLES
    held,           \* durable somewhere, not yet delivered
    delivered,      \* in the central table of events
    raised,         \* in the central table of alerts
    discarded,      \* taken by the agent's quota
    promised        \* reported committed

vars == <<held, delivered, raised, discarded, promised>>

Init == held = {} /\ delivered = {} /\ raised = {} /\ discarded = {} /\ promised = {}

(* An event becomes durable (again, when its commit is retried).           *)
Keep(e) ==
    /\ e \notin delivered
    /\ held' = held \cup {e}
    /\ UNCHANGED <<delivered, raised, discarded, promised>>

(* The agent reports it committed.                                         *)
Promise(e) ==
    /\ e \in held \cup delivered \cup discarded
    /\ promised' = promised \cup {e}
    /\ UNCHANGED <<held, delivered, raised, discarded>>

(* It reaches the centre, with its alert.                                  *)
Deliver(e) ==
    /\ e \in held
    /\ held' = held \ {e}
    /\ delivered' = delivered \cup {e}
    /\ raised' = raised \cup ({e} \cap Urgent)
    /\ UNCHANGED <<discarded, promised>>

(* The quota deletes the rows of some events; of those that are on their   *)
(* way to the centre another copy stays.                                   *)
Discard(E) ==
    /\ E \cap Urgent = {}
    /\ \E gone \in SUBSET E : held' = held \ gone
    /\ discarded' = discarded \cup E
    /\ UNCHANGED <<delivered, raised, promised>>

Next ==
    \/ \E e \in Events : Keep(e) \/ Promise(e) \/ Deliver(e)
    \/ \E E \in SUBSET Events : Discard(E)

Spec == Init /\ [][Next]_vars
==============================================================================
