-------------------------- MODULE ResourceGovernor --------------------------
(***************************************************************************)
(* The agent's resource governor (agent/internal/governor): a coordinator  *)
(* samples CPU, memory, storage and queue, updates the metrics, and lets   *)
(* the governor move between NORMAL, RESOURCE-SAVER and EMERGENCY with     *)
(* hysteresis and a recovery time.  Its callback writes the transition to  *)
(* the metrics.  Everything runs synchronously under the coordinator's     *)
(* mutex, so one sampling is one step; time passes between samplings.      *)
(*                                                                         *)
(* Times are ages, counted up to RecoveryDuration: what lies further back  *)
(* makes no difference to any comparison.                                  *)
(***************************************************************************)
EXTENDS Integers

CONSTANTS
    SaverAt, EmergencyAt, Margin,   \* thresholds of each dimension
    Levels,             \* the readings each dimension can have
    RecoveryDuration    \* in clock ticks (30 s in the code)

Dims == {"cpu", "mem", "storage", "queue"}

(* A reading that is not there: NaN, or Valid = false in the metrics.      *)
None == -1

(* HostResourceState, by stateSeverity.                                    *)
StateNormal        == 0
StateResourceSaver == 1
StateEmergency     == 2
States             == {StateNormal, StateResourceSaver, StateEmergency}

(* What validateConfig demands, of each dimension and of the duration.     *)
ValidConfig ==
    /\ \A d \in Dims : /\ SaverAt[d] < EmergencyAt[d]
                       /\ Margin[d] < SaverAt[d]
    /\ RecoveryDuration > 0

ASSUME ConfigAssumption ==
    /\ SaverAt \in [Dims -> Nat] /\ EmergencyAt \in [Dims -> Nat] /\ Margin \in [Dims -> Nat]
    /\ Levels \in [Dims -> SUBSET Nat] /\ RecoveryDuration \in Nat
    /\ ValidConfig

VARIABLES
    budget,         \* StorageBudgetBytes is configured (main.go passes 0: it is not)
    cpuInitDone,    \* Coordinator
    gov,            \* Governor: state, and the age of recoveryStartTime if it is set
    metrics,        \* GovernorMetrics: readings, state, age of currentEmergencyStart
    step,           \* the last StepResult
    sinceHot,       \* ghost: age of the last evaluation with a reading that is
                    \* invalid or not below the recovery threshold of each state
    calm            \* environment: from now on all readings are low and valid

vars == <<budget, cpuInitDone, gov, metrics, step, sinceHot, calm>>

NoReadings == [d \in Dims |-> None]
Entered(s) == [state |-> s, recovering |-> FALSE, elapsed |-> 0]

Init ==
    /\ budget \in BOOLEAN
    /\ cpuInitDone = FALSE
    /\ gov = Entered(StateNormal)
    /\ metrics = [reading |-> NoReadings, state |-> StateNormal, emergency |-> None]
    /\ step = [ready |-> FALSE, evaluated |-> FALSE, signals |-> NoReadings]
    /\ sinceHot = [s \in States \ {StateNormal} |-> RecoveryDuration]
    /\ calm = FALSE

-----------------------------------------------------------------------------
(* Definitions named M_... are slips the code could contain; each shows     *)
(* that some property would notice it.  No specification uses them.         *)

(* M: the margin is added; the saver margin is for EMERGENCY only.         *)
M_AddMargin(d, current) ==
    IF current = StateEmergency THEN EmergencyAt[d] + Margin[d] ELSE EmergencyAt[d]
M_NoSaverMargin(d, current) ==
    IF current = StateEmergency THEN SaverAt[d] - Margin[d] ELSE SaverAt[d]

(***************************************************************************)
(* computeTargetState.  The thresholds of the state the host is in, and of *)
(* the ones below it, are lowered by the margin.  An invalid signal asks   *)
(* for EMERGENCY, otherwise the worst dimension decides.                   *)
(***************************************************************************)
EffEmergency(d, current) ==
    IF current = StateEmergency THEN EmergencyAt[d] - Margin[d] ELSE EmergencyAt[d]

EffSaver(d, current) ==
    IF current # StateNormal THEN SaverAt[d] - Margin[d] ELSE SaverAt[d]

computeTargetState(signals, current) ==
    IF \E d \in Dims : signals[d] < 0 \/ signals[d] >= EffEmergency(d, current)
    THEN StateEmergency
    ELSE IF \E d \in Dims : signals[d] >= EffSaver(d, current)
    THEN StateResourceSaver
    ELSE StateNormal

(* M: a target equal to the state does not stop the timer; every low       *)
(* evaluation restarts it.                                                 *)
M_KeepTimer(g, signals) ==
    LET target == computeTargetState(signals, g.state)
    IN  CASE target > g.state -> Entered(target)
          [] target = g.state -> g
          [] target < g.state ->
               IF g.recovering /\ g.elapsed >= RecoveryDuration
               THEN Entered(target) ELSE [g EXCEPT !.recovering = TRUE]
M_RestartTimer(g, signals) ==
    LET target == computeTargetState(signals, g.state)
    IN  CASE target > g.state -> Entered(target)
          [] target = g.state -> Entered(g.state)
          [] target < g.state ->
               IF g.elapsed >= RecoveryDuration
               THEN Entered(target) ELSE [g EXCEPT !.recovering = TRUE, !.elapsed = 0]

(***************************************************************************)
(* Evaluate: up at once; down when the target has been below the current   *)
(* state for RecoveryDuration; a target equal to it stops the timer.       *)
(***************************************************************************)
Evaluated(g, signals) ==
    LET target == computeTargetState(signals, g.state)
    IN  CASE target > g.state -> Entered(target)
          [] target = g.state -> Entered(g.state)
          [] target < g.state /\ ~g.recovering -> [g EXCEPT !.recovering = TRUE]
          [] target < g.state /\ g.recovering ->
               IF g.elapsed >= RecoveryDuration THEN Entered(target) ELSE g

(* RecordTransition, called by transition().                               *)
Recorded(m, old, new) ==
    IF old = new THEN m
    ELSE [m EXCEPT !.state = new,
            !.emergency = CASE new # StateEmergency -> None
                            [] new = StateEmergency -> IF @ = None THEN 0 ELSE @]

(***************************************************************************)
(* A sampling.  Each input is a level, unavailable, or an error; for the   *)
(* queue an error is a capacity of zero or a depth above it, which the     *)
(* metrics refuse, keeping their old reading.                              *)
(***************************************************************************)
Unavailable == -1
Error       == -2
Inputs(d)   == Levels[d] \cup {Unavailable, Error}

Reading(v) == IF v \in {Unavailable, Error} THEN None ELSE v

(* How hot a set of readings is: it holds the host in every state s with   *)
(* a dimension that is not below the recovery threshold of s.              *)
HoldsIn(s, signals) ==
    \E d \in Dims : \/ signals[d] < 0
                    \/ s = StateEmergency /\ signals[d] >= EmergencyAt[d] - Margin[d]
                    \/ s = StateResourceSaver /\ signals[d] >= SaverAt[d] - Margin[d]

Step(in) ==
    LET read       == [d \in Dims |-> Reading(in[d])]
        warmup     == ~cpuInitDone /\ in["cpu"] = Unavailable
        initDone   == cpuInitDone \/ in["cpu"] # Error
        signals    == [read EXCEPT !["mem"] = IF @ = None THEN 0 ELSE @,
                                   !["storage"] = IF budget THEN @ ELSE None]
        ready      == ~warmup /\ initDone /\ read["mem"] # None
        evaluated  == ready /\ budget
    IN  /\ cpuInitDone' = initDone
        /\ step' = [ready |-> ready, evaluated |-> evaluated, signals |-> signals]
        /\ gov' = IF evaluated THEN Evaluated(gov, signals) ELSE gov
        /\ metrics' = Recorded(
             [metrics EXCEPT !.reading =
                [read EXCEPT !["queue"] =
                   IF in["queue"] = Error THEN metrics.reading["queue"] ELSE @]],
             gov.state, gov'.state)
        /\ sinceHot' = [s \in DOMAIN sinceHot |->
                          IF evaluated /\ HoldsIn(s, signals) THEN 0 ELSE sinceHot[s]]
        /\ UNCHANGED <<budget, calm>>

Quiet(in) == \A d \in Dims : in[d] \in Levels[d] /\ in[d] < SaverAt[d] - Margin[d]

(* RunSampling, or another caller, asks for a sampling.                    *)
Sample ==
    \E cpu \in Inputs("cpu"), mem \in Inputs("mem"),
       storage \in Inputs("storage"), queue \in Inputs("queue") :
        LET in == [d \in Dims |-> CASE d = "cpu" -> cpu [] d = "mem" -> mem
                                    [] d = "storage" -> storage [] d = "queue" -> queue]
        IN  /\ calm => Quiet(in)
            /\ Step(in)

Older(age) == IF age # None /\ age < RecoveryDuration THEN age + 1 ELSE age

(* Time passes.                                                            *)
Tick ==
    /\ gov' = IF gov.recovering THEN [gov EXCEPT !.elapsed = Older(@)] ELSE gov
    /\ metrics' = [metrics EXCEPT !.emergency = Older(@)]
    /\ sinceHot' = [s \in DOMAIN sinceHot |-> Older(sinceHot[s])]
    /\ UNCHANGED <<budget, cpuInitDone, step, calm>>

(* External: the pressure is over.                                         *)
Relief == ~calm /\ calm' = TRUE /\ UNCHANGED <<budget, cpuInitDone, gov, metrics, step, sinceHot>>

Next == Sample \/ Tick \/ Relief

Spec == Init /\ [][Next]_vars

(* Time passes.  Sampling is not fair: the endpoint makes one step when it *)
(* starts, and RunSampling, which repeats it, is a harness.                *)
FairSpec == Spec /\ WF_vars(Tick)

-----------------------------------------------------------------------------
Ages == 0..RecoveryDuration

(* States, ages and readings have their ranges: a reading is a value that   *)
(* came without an error, or absent.                                        *)
TypeOK ==
    /\ budget \in BOOLEAN /\ cpuInitDone \in BOOLEAN /\ calm \in BOOLEAN
    /\ gov \in [state : States, recovering : BOOLEAN, elapsed : Ages]
    /\ metrics \in [reading : [Dims -> Nat \cup {None}], state : States,
                    emergency : Ages \cup {None}]
    /\ step \in [ready : BOOLEAN, evaluated : BOOLEAN, signals : [Dims -> Nat \cup {None}]]
    /\ sinceHot \in [{StateResourceSaver, StateEmergency} -> Ages]

(***************************************************************************)
(* Pressure is answered at once: after an evaluation the host is in        *)
(* EMERGENCY if a signal was missing or at its emergency threshold, and    *)
(* not in NORMAL if one was at its saver threshold.  And the evaluation    *)
(* used real readings: memory that could not be read is never taken as 0.  *)
(***************************************************************************)
PressureAnswered ==
    step.evaluated =>
        /\ (\E d \in Dims : step.signals[d] < 0 \/ step.signals[d] >= EmergencyAt[d])
              => gov.state = StateEmergency
        /\ (\E d \in Dims : step.signals[d] >= SaverAt[d]) => gov.state # StateNormal
        /\ step.signals["mem"] = metrics.reading["mem"]

(***************************************************************************)
(* A state is left downwards only when, for RecoveryDuration, no           *)
(* evaluation has met a reading that is invalid or not below the state's   *)
(* recovery threshold.                                                     *)
(***************************************************************************)
RecoveryIsSustained ==
    [][gov'.state < gov.state => sinceHot[gov.state] = RecoveryDuration]_vars

(***************************************************************************)
(* No flapping: the readings that let the host go down ask for the state   *)
(* it went to, so sampling the same readings again changes nothing.        *)
(***************************************************************************)
SettlesWhereItFell ==
    [][gov'.state < gov.state =>
         computeTargetState(step'.signals, gov'.state) = gov'.state]_vars

(***************************************************************************)
(* Once the pressure is over for good, the host returns to NORMAL and      *)
(* stays there, for a caller that keeps sampling, as RunSampling does: no  *)
(* number of earlier steps leaves the governor where it cannot recover.    *)
(***************************************************************************)
ReliefEndsInNormal == WF_vars(Sample) => (calm ~> [](gov.state = StateNormal))
=============================================================================
