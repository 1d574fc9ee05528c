----------------------- MODULE ResourceGovernorProofs -----------------------
(***************************************************************************)
(* Theorems about ResourceGovernor, for every valid configuration, every   *)
(* set of readings and every recovery time.                                *)
(***************************************************************************)
EXTENDS ResourceGovernor, TLAPS

(***************************************************************************)
(* The strengthening: the recovery timer runs only above NORMAL, starts at *)
(* zero, and is never older than the last reading that held the host.      *)
(***************************************************************************)
TimerIsHonest ==
    /\ ~gov.recovering => gov.elapsed = 0
    /\ gov.recovering => /\ gov.state \in {StateResourceSaver, StateEmergency}
                         /\ gov.elapsed <= sinceHot[gov.state]

GovInv == TypeOK /\ TimerIsHonest /\ PressureAnswered

(* What the governor is given.                                             *)
Signals == [Dims -> Nat \cup {None}]

-----------------------------------------------------------------------------
(* computeTargetState answers one of the three states.                     *)
LEMMA TargetType ==
    ASSUME NEW signals \in Signals, NEW current \in States
    PROVE  computeTargetState(signals, current) \in States
BY DEF computeTargetState, States, StateNormal, StateResourceSaver, StateEmergency

(* A missing signal, or one at its emergency threshold, asks for EMERGENCY *)
(* in every state.                                                         *)
LEMMA TargetEmergency ==
    ASSUME NEW signals \in Signals, NEW current \in States, NEW d \in Dims,
           signals[d] < 0 \/ signals[d] >= EmergencyAt[d]
    PROVE  computeTargetState(signals, current) = StateEmergency
<1>1. /\ signals[d] \in Int /\ EmergencyAt[d] \in Nat /\ Margin[d] \in Nat
  BY ConfigAssumption DEF Signals, None
<1>2. EffEmergency(d, current) <= EmergencyAt[d] /\ EffEmergency(d, current) \in Int
  BY <1>1 DEF EffEmergency
<1>3. signals[d] < 0 \/ signals[d] >= EffEmergency(d, current)
  BY <1>1, <1>2
<1> QED
  BY <1>3 DEF computeTargetState

(* A signal at its saver threshold never asks for NORMAL.                  *)
LEMMA TargetSaver ==
    ASSUME NEW signals \in Signals, NEW current \in States, NEW d \in Dims,
           signals[d] >= SaverAt[d]
    PROVE  computeTargetState(signals, current) # StateNormal
<1>1. /\ signals[d] \in Int /\ SaverAt[d] \in Nat /\ Margin[d] \in Nat
  BY ConfigAssumption DEF Signals, None
<1>2. EffSaver(d, current) <= SaverAt[d] /\ EffSaver(d, current) \in Int
  BY <1>1 DEF EffSaver
<1>3. signals[d] >= EffSaver(d, current)
  BY <1>1, <1>2
<1> QED
  BY <1>3 DEF computeTargetState, StateNormal, StateResourceSaver, StateEmergency

(* Readings that ask for a lower state do not hold the host where it is.   *)
LEMMA LowerDoesNotHold ==
    ASSUME NEW signals \in Signals, NEW current \in States,
           computeTargetState(signals, current) < current
    PROVE  ~HoldsIn(current, signals)
<1>1. current = StateResourceSaver \/ current = StateEmergency
  BY TargetType DEF States, StateNormal, StateResourceSaver, StateEmergency
<1>2. \A d \in Dims : ~(signals[d] < 0 \/ signals[d] >= EffEmergency(d, current))
  BY <1>1 DEF computeTargetState, States, StateNormal, StateResourceSaver, StateEmergency
<1>3. CASE current = StateEmergency
  BY <1>2, <1>3 DEF HoldsIn, EffEmergency, StateResourceSaver, StateEmergency
<1>4. CASE current = StateResourceSaver
  <2>1. \A d \in Dims : ~(signals[d] >= EffSaver(d, current))
    BY <1>2, <1>4 DEF computeTargetState, States, StateNormal, StateResourceSaver, StateEmergency
  <2> QED
    BY <1>2, <1>4, <2>1 DEF HoldsIn, EffSaver, StateNormal, StateResourceSaver, StateEmergency
<1> QED
  BY <1>1, <1>3, <1>4

(* Hysteresis: a lower state that readings ask for is the one they ask for *)
(* once the host is there, because the margins only widen on the way up.   *)
LEMMA LowerIsStable ==
    ASSUME NEW signals \in Signals, NEW current \in States,
           computeTargetState(signals, current) < current
    PROVE  computeTargetState(signals, computeTargetState(signals, current))
             = computeTargetState(signals, current)
<1> DEFINE t == computeTargetState(signals, current)
<1> USE DEF States, StateNormal, StateResourceSaver, StateEmergency
<1>1. t \in States /\ current \in {1, 2}
  BY TargetType
<1>2. \A d \in Dims : /\ signals[d] \in Int /\ SaverAt[d] \in Nat
                      /\ EmergencyAt[d] \in Nat /\ Margin[d] \in Nat
  BY ConfigAssumption DEF Signals, None
<1>3. \A d \in Dims : ~(signals[d] < 0 \/ signals[d] >= EffEmergency(d, current))
  BY <1>1 DEF computeTargetState
<1>4. \A d \in Dims : ~(signals[d] < 0 \/ signals[d] >= EmergencyAt[d])
  BY <1>2, <1>3 DEF EffEmergency
<1>5. CASE t = 1
  <2>1. current = 2
    BY <1>1, <1>5
  <2>2. \E d \in Dims : signals[d] >= EffSaver(d, 2)
    BY <1>3, <1>5, <2>1 DEF computeTargetState
  <2>3. \A d \in Dims : EffSaver(d, 2) = EffSaver(d, 1) /\ EffEmergency(d, 1) = EmergencyAt[d]
    BY DEF EffSaver, EffEmergency
  <2>4. computeTargetState(signals, 1) = 1
    BY <1>4, <2>2, <2>3 DEF computeTargetState
  <2> QED
    BY <1>5, <2>4
<1>6. CASE t = 0
  <2>1. \A d \in Dims : ~(signals[d] >= EffSaver(d, current))
    BY <1>3, <1>6 DEF computeTargetState
  <2>2. \A d \in Dims : ~(signals[d] >= SaverAt[d])
    BY <1>2, <2>1 DEF EffSaver
  <2>3. \A d \in Dims : EffSaver(d, 0) = SaverAt[d] /\ EffEmergency(d, 0) = EmergencyAt[d]
    BY DEF EffSaver, EffEmergency
  <2>4. computeTargetState(signals, 0) = 0
    BY <1>4, <2>2, <2>3 DEF computeTargetState
  <2> QED
    BY <1>6, <2>4
<1> QED
  BY <1>1, <1>5, <1>6

-----------------------------------------------------------------------------
(* What Evaluate may do with a host in a state: go up at once, stop the    *)
(* timer, start it, let it run, or go down when it has run out.            *)
LEMMA EvaluatedCases ==
    ASSUME NEW signals \in Signals,
           NEW g \in [state : States, recovering : BOOLEAN, elapsed : Ages]
    PROVE  LET t == computeTargetState(signals, g.state)
               e == Evaluated(g, signals)
           IN  \/ t >= g.state /\ e = Entered(t)
               \/ t < g.state /\ ~g.recovering /\ e = [g EXCEPT !.recovering = TRUE]
               \/ t < g.state /\ g.recovering /\ g.elapsed < RecoveryDuration /\ e = g
               \/ t < g.state /\ g.recovering /\ g.elapsed = RecoveryDuration /\ e = Entered(t)
<1> DEFINE t == computeTargetState(signals, g.state)
<1>1. t \in States /\ g.state \in States /\ t \in Int /\ g.state \in Int
  BY TargetType DEF States, StateNormal, StateResourceSaver, StateEmergency
<1>2. g.elapsed \in 0..RecoveryDuration /\ RecoveryDuration \in Nat
  BY ConfigAssumption DEF Ages
<1> HIDE DEF t
<1>3. CASE t > g.state
  BY <1>1, <1>3 DEF Evaluated, t
<1>4. CASE t = g.state
  BY <1>1, <1>4 DEF Evaluated, t
<1>5. CASE t < g.state /\ ~g.recovering
  BY <1>1, <1>5 DEF Evaluated, t
<1>6. CASE t < g.state /\ g.recovering
  BY <1>1, <1>2, <1>6 DEF Evaluated, t
<1> QED
  BY <1>1, <1>3, <1>4, <1>5, <1>6 DEF t

(* The governor's record stays a record of states, flags and ages.         *)
LEMMA EvaluatedType ==
    ASSUME NEW signals \in Signals,
           NEW g \in [state : States, recovering : BOOLEAN, elapsed : Ages]
    PROVE  Evaluated(g, signals) \in [state : States, recovering : BOOLEAN, elapsed : Ages]
<1>1. computeTargetState(signals, g.state) \in States /\ 0 \in Ages
  BY TargetType, ConfigAssumption DEF Ages
<1> DEFINE t == computeTargetState(signals, g.state)
<1>2. \/ Evaluated(g, signals) = Entered(t)
      \/ Evaluated(g, signals) = [g EXCEPT !.recovering = TRUE]
      \/ Evaluated(g, signals) = g
  BY EvaluatedCases
<1> HIDE DEF t
<1>3. Entered(t) \in [state : States, recovering : BOOLEAN, elapsed : Ages]
  BY <1>1 DEF Entered, t
<1>4. [g EXCEPT !.recovering = TRUE] \in [state : States, recovering : BOOLEAN, elapsed : Ages]
  OBVIOUS
<1> QED
  BY <1>2, <1>3, <1>4

-----------------------------------------------------------------------------
(* The inputs of a sampling.                                               *)
AllInputs == [Dims -> Nat \cup {Unavailable, Error}]

(* A sampling is a Step with some input for each dimension.                *)
LEMMA SampleIsStep ==
    ASSUME Sample
    PROVE  \E in \in AllInputs : Step(in)
<1>1. PICK cpu \in Inputs("cpu"), mem \in Inputs("mem"),
           storage \in Inputs("storage"), queue \in Inputs("queue") :
             Step([d \in Dims |-> CASE d = "cpu" -> cpu [] d = "mem" -> mem
                                    [] d = "storage" -> storage [] d = "queue" -> queue])
  BY DEF Sample
<1> DEFINE in == [d \in Dims |-> CASE d = "cpu" -> cpu [] d = "mem" -> mem
                                   [] d = "storage" -> storage [] d = "queue" -> queue]
<1>2. {cpu, mem, storage, queue} \subseteq Nat \cup {Unavailable, Error}
  BY ConfigAssumption DEF Inputs, Dims
<1>3. in \in AllInputs
  BY <1>2 DEF AllInputs, Dims
<1> QED
  BY <1>1, <1>3

(***************************************************************************)
(* The effect of a sampling, without the arithmetic of readings: either no *)
(* evaluation, or one with signals whose memory reading is the real one.   *)
(***************************************************************************)
LEMMA StepEffect ==
    ASSUME TypeOK, NEW in \in AllInputs, Step(in)
    PROVE  /\ step'.signals \in Signals
           /\ step' \in [ready : BOOLEAN, evaluated : BOOLEAN, signals : Signals]
           /\ cpuInitDone' \in BOOLEAN
           /\ gov' = IF step'.evaluated THEN Evaluated(gov, step'.signals) ELSE gov
           /\ sinceHot' = [s \in DOMAIN sinceHot |->
                             IF step'.evaluated /\ HoldsIn(s, step'.signals)
                             THEN 0 ELSE sinceHot[s]]
           /\ step'.evaluated => step'.signals["mem"] = metrics'.reading["mem"]
           /\ metrics'.reading \in Signals
           /\ \E m \in [reading : Signals, state : States, emergency : Ages \cup {None}] :
                metrics' = Recorded(m, gov.state, gov'.state)
           /\ UNCHANGED <<budget, calm>>
<1> DEFINE read     == [d \in Dims |-> Reading(in[d])]
           warmup   == ~cpuInitDone /\ in["cpu"] = Unavailable
           initDone == cpuInitDone \/ in["cpu"] # Error
           signals  == [read EXCEPT !["mem"] = IF @ = None THEN 0 ELSE @,
                                    !["storage"] = IF budget THEN @ ELSE None]
           ready    == ~warmup /\ initDone /\ read["mem"] # None
           m        == [metrics EXCEPT !.reading =
                          [read EXCEPT !["queue"] =
                             IF in["queue"] = Error THEN metrics.reading["queue"] ELSE @]]
<1>1. \A d \in Dims : in[d] \in Nat \cup {Unavailable, Error}
  BY DEF AllInputs
<1>2. read \in Signals
  BY <1>1 DEF Signals, Reading, Unavailable, Error, None
<1>3. signals \in Signals /\ (read["mem"] # None => signals["mem"] = read["mem"])
  BY <1>2 DEF Signals, Dims, None
<1>4. /\ m \in [reading : Signals, state : States, emergency : Ages \cup {None}]
      /\ m.reading["mem"] = read["mem"]
  <2>1. metrics.reading["queue"] \in Nat \cup {None}
    BY DEF TypeOK, Dims
  <2>2. [read EXCEPT !["queue"] =
           IF in["queue"] = Error THEN metrics.reading["queue"] ELSE @] \in Signals
    BY <1>2, <2>1 DEF Signals, Dims
  <2>3. [read EXCEPT !["queue"] =
           IF in["queue"] = Error THEN metrics.reading["queue"] ELSE @]["mem"] = read["mem"]
    BY DEF Dims
  <2> QED
    BY <2>2, <2>3 DEF TypeOK, Signals
<1>5. /\ step' = [ready |-> ready, evaluated |-> ready /\ budget, signals |-> signals]
      /\ cpuInitDone' = initDone
      /\ gov' = IF ready /\ budget THEN Evaluated(gov, signals) ELSE gov
      /\ metrics' = Recorded(m, gov.state, gov'.state)
      /\ sinceHot' = [s \in DOMAIN sinceHot |->
                        IF ready /\ budget /\ HoldsIn(s, signals) THEN 0 ELSE sinceHot[s]]
      /\ UNCHANGED <<budget, calm>>
  BY DEF Step
<1>6. metrics'.reading = m.reading
  BY <1>4, <1>5 DEF Recorded
<1>7. ready \in BOOLEAN /\ initDone \in BOOLEAN /\ budget \in BOOLEAN
  BY DEF TypeOK
<1>8. ready => signals["mem"] = read["mem"]
  BY <1>3
<1> HIDE DEF read, signals, ready, m, initDone
<1> QED
  BY <1>3, <1>4, <1>5, <1>6, <1>7, <1>8

-----------------------------------------------------------------------------
(* The configured governor starts in NORMAL, with no evaluation behind it. *)
LEMMA InitGovInv == Init => GovInv
<1> SUFFICES ASSUME Init PROVE GovInv
  OBVIOUS
<1>1. 0 \in Ages /\ RecoveryDuration \in Ages
  BY ConfigAssumption DEF Ages
<1>2. TypeOK
  <2>1. NoReadings \in [Dims -> Nat \cup {None}]
    BY DEF NoReadings
  <2>2. gov \in [state : States, recovering : BOOLEAN, elapsed : Ages]
    BY <1>1 DEF Init, Entered, States
  <2>3. metrics \in [reading : [Dims -> Nat \cup {None}], state : States,
                     emergency : Ages \cup {None}]
    BY <2>1 DEF Init, States
  <2>4. step \in [ready : BOOLEAN, evaluated : BOOLEAN, signals : [Dims -> Nat \cup {None}]]
    BY <2>1 DEF Init
  <2>5. sinceHot \in [{StateResourceSaver, StateEmergency} -> Ages]
    BY <1>1 DEF Init, States, StateNormal, StateResourceSaver, StateEmergency
  <2> QED
    BY <2>2, <2>3, <2>4, <2>5 DEF Init, TypeOK
<1> QED
  BY <1>2 DEF Init, GovInv, TimerIsHonest, PressureAnswered, Entered

(* A sampling keeps the types.                                             *)
LEMMA SampleType ==
    ASSUME TypeOK, NEW in \in AllInputs, Step(in)
    PROVE  TypeOK'
<1>1. gov' \in [state : States, recovering : BOOLEAN, elapsed : Ages]
  BY StepEffect, EvaluatedType DEF TypeOK
<1>2. metrics' \in [reading : Signals, state : States, emergency : Ages \cup {None}]
  <2>1. PICK m \in [reading : Signals, state : States, emergency : Ages \cup {None}] :
               metrics' = Recorded(m, gov.state, gov'.state)
    BY StepEffect
  <2>2. gov'.state \in States /\ 0 \in Ages
    BY <1>1, ConfigAssumption DEF Ages
  <2>3. CASE gov.state = gov'.state
    BY <2>1, <2>3 DEF Recorded
  <2>4. CASE gov.state # gov'.state
    <3>1. (CASE gov'.state # StateEmergency -> None
             [] gov'.state = StateEmergency -> IF m.emergency = None THEN 0 ELSE m.emergency)
            \in Ages \cup {None}
      BY <2>2
    <3> QED
      BY <2>1, <2>2, <2>4, <3>1 DEF Recorded
  <2> QED
    BY <2>3, <2>4
<1>3. sinceHot' \in [{StateResourceSaver, StateEmergency} -> Ages]
  <2>1. 0 \in Ages
    BY ConfigAssumption DEF Ages
  <2> QED
    BY <2>1, StepEffect DEF TypeOK
<1> QED
  BY <1>1, <1>2, <1>3, StepEffect DEF TypeOK, Signals

(* A sampling keeps the timer honest: a reading that holds the host stops  *)
(* the timer in the same evaluation.                                       *)
LEMMA SampleTimer ==
    ASSUME GovInv, NEW in \in AllInputs, Step(in)
    PROVE  TimerIsHonest'
<1> DEFINE t == computeTargetState(step'.signals, gov.state)
<1>1. /\ TypeOK /\ TypeOK' /\ TimerIsHonest
      /\ gov.state \in States /\ t \in States /\ step'.signals \in Signals
  BY SampleType, StepEffect, TargetType DEF GovInv, TypeOK
<1>2. CASE ~step'.evaluated
  <2>1. gov' = gov /\ sinceHot' = sinceHot
    BY <1>1, <1>2, StepEffect DEF TypeOK
  <2> QED
    BY <1>1, <2>1 DEF TimerIsHonest
<1>3. CASE step'.evaluated /\ gov' = Entered(t)
  BY <1>3 DEF TimerIsHonest, Entered
<1>4. CASE /\ step'.evaluated /\ t < gov.state /\ gov'.state = gov.state
           /\ gov'.elapsed = gov.elapsed /\ gov'.recovering
  <2>1. ~HoldsIn(gov.state, step'.signals)
    BY <1>1, <1>4, LowerDoesNotHold
  <2>2. gov.state \in {StateResourceSaver, StateEmergency}
    BY <1>1, <1>4 DEF States, StateNormal, StateResourceSaver, StateEmergency
  <2>3. sinceHot'[gov.state] = sinceHot[gov.state]
    BY <1>1, <2>1, <2>2, StepEffect DEF TypeOK
  <2>4. sinceHot[gov.state] \in 0..RecoveryDuration
    BY <2>2, <1>1 DEF TypeOK, Ages
  <2>5. gov.elapsed <= sinceHot[gov.state]
    BY <1>1, <2>4 DEF TimerIsHonest, TypeOK
  <2> QED
    BY <1>4, <2>2, <2>3, <2>5 DEF TimerIsHonest
<1> QED
  <2>1. gov \in [state : States, recovering : BOOLEAN, elapsed : Ages]
    BY <1>1 DEF TypeOK
  <2>2. ASSUME step'.evaluated
        PROVE  \/ gov' = Entered(t)
               \/ t < gov.state /\ ~gov.recovering /\ gov' = [gov EXCEPT !.recovering = TRUE]
               \/ t < gov.state /\ gov.recovering /\ gov' = gov
    BY <1>1, <2>1, <2>2, StepEffect, EvaluatedCases
  <2> HIDE DEF t
  <2> QED
    BY <1>2, <1>3, <1>4, <2>1, <2>2

(* A sampling answers pressure.                                            *)
LEMMA SamplePressure ==
    ASSUME TypeOK, NEW in \in AllInputs, Step(in)
    PROVE  PressureAnswered'
<1> SUFFICES ASSUME step'.evaluated
             PROVE  PressureAnswered'
  BY DEF PressureAnswered
<1> DEFINE t == computeTargetState(step'.signals, gov.state)
<1>1. /\ gov \in [state : States, recovering : BOOLEAN, elapsed : Ages]
      /\ gov.state \in States /\ t \in States /\ step'.signals \in Signals
  BY StepEffect, TargetType DEF TypeOK
<1>2. gov' = Evaluated(gov, step'.signals)
  BY StepEffect
<1>3. gov'.state >= t
  <2>1. gov'.state = gov.state \/ gov'.state = t
    BY <1>1, <1>2, EvaluatedCases DEF Entered
  <2>2. t >= gov.state => gov'.state = t
    <3>1. t >= gov.state => gov' = Entered(t)
      BY <1>1, <1>2, EvaluatedCases DEF States, StateNormal, StateResourceSaver, StateEmergency
    <3> QED
      BY <3>1 DEF Entered
  <2> HIDE DEF t
  <2> QED
    BY <1>1, <2>1, <2>2 DEF States, StateNormal, StateResourceSaver, StateEmergency
<1>4. gov'.state \in States
  BY <1>1, <1>2, EvaluatedType
<1>5. (\E d \in Dims : step'.signals[d] < 0 \/ step'.signals[d] >= EmergencyAt[d])
        => t = StateEmergency
  BY <1>1, TargetEmergency
<1>6. (\E d \in Dims : step'.signals[d] >= SaverAt[d]) => t # StateNormal
  BY <1>1, TargetSaver
<1>7. step'.signals["mem"] = metrics'.reading["mem"]
  BY StepEffect
<1> HIDE DEF t
<1>8. /\ t = StateEmergency => gov'.state = StateEmergency
      /\ t # StateNormal => gov'.state # StateNormal
  BY <1>1, <1>3, <1>4 DEF States, StateNormal, StateResourceSaver, StateEmergency
<1> QED
  BY <1>5, <1>6, <1>7, <1>8 DEF PressureAnswered

(* Time passes for the timer and for the ghost alike.                      *)
LEMMA TickGovInv ==
    ASSUME GovInv, Tick
    PROVE  GovInv'
<1>1. TypeOK /\ TimerIsHonest /\ PressureAnswered /\ RecoveryDuration \in Nat
  BY ConfigAssumption DEF GovInv
<1>2. \A a \in Ages \cup {None} : /\ Older(a) \in Ages \cup {None}
                                  /\ a \in Ages => Older(a) \in Ages
  BY <1>1 DEF Older, Ages, None
<1>3. \A a, b \in Ages : a <= b => Older(a) <= Older(b)
  BY <1>1 DEF Older, Ages, None
<1>4. TypeOK'
  BY <1>1, <1>2 DEF TypeOK, Tick
<1>5. gov'.state = gov.state /\ gov'.recovering = gov.recovering
  BY <1>1 DEF Tick, TypeOK
<1>6. TimerIsHonest'
  <2>1. CASE ~gov.recovering
    BY <1>1, <1>5, <2>1 DEF TimerIsHonest, Tick
  <2>2. CASE gov.recovering
    <3>1. gov'.elapsed = Older(gov.elapsed)
      BY <1>1, <2>2 DEF Tick, TypeOK
    <3>2. gov.state \in {StateResourceSaver, StateEmergency} /\ gov.elapsed <= sinceHot[gov.state]
      BY <1>1, <2>2 DEF TimerIsHonest
    <3>3. sinceHot'[gov.state] = Older(sinceHot[gov.state])
      BY <1>1, <3>2 DEF Tick, TypeOK
    <3>4. gov.elapsed \in Ages /\ sinceHot[gov.state] \in Ages
      BY <1>1, <3>2 DEF TypeOK
    <3> QED
      BY <1>3, <1>5, <2>2, <3>1, <3>2, <3>3, <3>4 DEF TimerIsHonest
  <2> QED
    BY <1>1, <2>1, <2>2 DEF TypeOK
<1>7. metrics'.reading = metrics.reading
  BY <1>1 DEF Tick, TypeOK
<1>8. PressureAnswered'
  BY <1>1, <1>5, <1>7 DEF PressureAnswered, Tick
<1> QED
  BY <1>4, <1>6, <1>8 DEF GovInv

(* Every step keeps the invariant.                                         *)
LEMMA NextGovInv == GovInv /\ [Next]_vars => GovInv'
<1> SUFFICES ASSUME GovInv, [Next]_vars PROVE GovInv'
  OBVIOUS
<1>1. CASE Sample
  BY <1>1, SampleIsStep, SampleType, SampleTimer, SamplePressure DEF GovInv
<1>2. CASE Tick
  BY <1>2, TickGovInv
<1>3. CASE Relief
  BY <1>3 DEF Relief, GovInv, TypeOK, TimerIsHonest, PressureAnswered
<1>4. CASE UNCHANGED vars
  BY <1>4 DEF vars, GovInv, TypeOK, TimerIsHonest, PressureAnswered
<1> QED
  BY <1>1, <1>2, <1>3, <1>4 DEF Next

LEMMA GovInvAlways == Spec => []GovInv
BY InitGovInv, NextGovInv, PTL DEF Spec

-----------------------------------------------------------------------------
(* The governor, its metrics and the last result of Coordinator.Step keep  *)
(* their ranges.                                                           *)
THEOREM GovernorTyped == Spec => []TypeOK
<1>1. GovInv => TypeOK
  BY DEF GovInv
<1> QED
  BY <1>1, GovInvAlways, PTL

(* Governor.Evaluate answers pressure in the evaluation that sees it, for  *)
(* every configuration that validateConfig accepts.                        *)
THEOREM PressureAlwaysAnswered == Spec => []PressureAnswered
<1>1. GovInv => PressureAnswered
  BY DEF GovInv
<1> QED
  BY <1>1, GovInvAlways, PTL

(* Leaving a state downwards is the work of a sampling whose timer has run *)
(* out.                                                                    *)
LEMMA DownwardStep ==
    ASSUME GovInv, [Next]_vars, gov'.state < gov.state
    PROVE  /\ step'.signals \in Signals
           /\ gov.recovering /\ gov.elapsed = RecoveryDuration
           /\ computeTargetState(step'.signals, gov.state) < gov.state
           /\ gov'.state = computeTargetState(step'.signals, gov.state)
<1>1. gov \in [state : States, recovering : BOOLEAN, elapsed : Ages] /\ gov.state \in Int
  BY DEF GovInv, TypeOK, States, StateNormal, StateResourceSaver, StateEmergency
<1>2. ~(gov'.state = gov.state)
  BY <1>1
<1>3. CASE Tick
  BY <1>1, <1>2, <1>3 DEF Tick
<1>4. CASE Relief \/ UNCHANGED vars
  BY <1>2, <1>4 DEF Relief, vars
<1>5. CASE Sample
  <2>1. PICK in \in AllInputs : Step(in)
    BY <1>5, SampleIsStep
  <2>2. step'.signals \in Signals /\ gov' = Evaluated(gov, step'.signals)
    BY <1>2, <2>1, StepEffect DEF GovInv
  <2> DEFINE t == computeTargetState(step'.signals, gov.state)
  <2>3. \/ t >= gov.state /\ gov' = Entered(t)
        \/ gov' = [gov EXCEPT !.recovering = TRUE]
        \/ gov' = gov
        \/ t < gov.state /\ gov.recovering /\ gov.elapsed = RecoveryDuration /\ gov' = Entered(t)
    BY <1>1, <2>2, EvaluatedCases
  <2>4. t \in Int
    BY <1>1, <2>2, TargetType DEF States, StateNormal, StateResourceSaver, StateEmergency
  <2> HIDE DEF t
  <2>5. t < gov.state /\ gov.recovering /\ gov.elapsed = RecoveryDuration /\ gov'.state = t
    BY <1>1, <1>2, <2>3, <2>4 DEF Entered
  <2> QED
    BY <2>2, <2>5 DEF t
<1> QED
  BY <1>3, <1>4, <1>5 DEF Next

(* Evaluate's recovery timer measures what the configuration means by it:  *)
(* no evaluation of the last RecoveryDuration has met a reading that would *)
(* have held the host in the state it leaves.                              *)
THEOREM RecoveryAlwaysSustained == Spec => RecoveryIsSustained
<1>1. ASSUME GovInv, [Next]_vars
      PROVE  [gov'.state < gov.state => sinceHot[gov.state] = RecoveryDuration]_vars
  <2> SUFFICES ASSUME gov'.state < gov.state
               PROVE  sinceHot[gov.state] = RecoveryDuration
    OBVIOUS
  <2>1. gov.recovering /\ gov.elapsed = RecoveryDuration
    BY <1>1, DownwardStep
  <2>2. /\ gov.state \in {StateResourceSaver, StateEmergency}
        /\ gov.elapsed <= sinceHot[gov.state]
    BY <1>1, <2>1 DEF GovInv, TimerIsHonest
  <2>3. sinceHot[gov.state] \in 0..RecoveryDuration
    BY <1>1, <2>2 DEF GovInv, TypeOK, Ages
  <2> QED
    BY <2>1, <2>2, <2>3, ConfigAssumption
<1> QED
  BY <1>1, GovInvAlways, PTL DEF Spec, RecoveryIsSustained

(* computeTargetState does not flap: the readings that let the host go     *)
(* down ask for the state it went to.                                      *)
THEOREM NoFlapping == Spec => SettlesWhereItFell
<1>1. ASSUME GovInv, [Next]_vars
      PROVE  [gov'.state < gov.state =>
                computeTargetState(step'.signals, gov'.state) = gov'.state]_vars
  <2> SUFFICES ASSUME gov'.state < gov.state
               PROVE  computeTargetState(step'.signals, gov'.state) = gov'.state
    OBVIOUS
  <2>1. gov.state \in States
    BY <1>1 DEF GovInv, TypeOK
  <2> QED
    BY <1>1, <2>1, DownwardStep, LowerIsStable
<1> QED
  BY <1>1, GovInvAlways, PTL DEF Spec, SettlesWhereItFell
=============================================================================
