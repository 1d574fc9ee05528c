--------------------------- MODULE EndToEndProofs ---------------------------
(***************************************************************************)
(* Theorems about the agent and the server together: for every set of      *)
(* events, any number of workers, restarts and messages.                   *)
(***************************************************************************)
EXTENDS EndToEnd, EdgePipelineProofs

(* The theorems about the server, instantiated as the system uses it.      *)
SP == INSTANCE CentralPipelineProofs
        WITH Events <- EventIds \cup Others, accepted <- answered

(* net is only a name for two variables.                                   *)
USE DEF net

-----------------------------------------------------------------------------
(***************************************************************************)
(* Server, the server of the model, and SP, the server of the theorems,    *)
(* are two instances of one module with the same arguments.                *)
(***************************************************************************)
LEMMA ServerSameCardinality == \A S : Server!Cardinality(S) = SP!Cardinality(S)
BY DEF Server!Cardinality, SP!Cardinality

LEMMA ServerSameInit == Server!Init <=> SP!Init
BY DEF Server!Init, Server!Threads, Server!Fresh, Server!Booting, Server!Sweeping,
       SP!Init, SP!Threads, SP!Fresh, SP!Booting, SP!Sweeping

LEMMA ServerSameOrder ==
    /\ \A S, n : Server!Oldest(S, n) = SP!Oldest(S, n)
    /\ \A S : Server!InOrder(S) = SP!InOrder(S)
    /\ Server!ListPending = SP!ListPending
<1>1. \A S, n : Server!Oldest(S, n) = SP!Oldest(S, n)
  BY ServerSameCardinality DEF Server!Oldest, SP!Oldest
<1>2. \A S : Server!InOrder(S) = SP!InOrder(S)
  BY DEF Server!InOrder, SP!InOrder, Server!Cardinality, SP!Cardinality
<1> QED
  BY <1>1, <1>2 DEF Server!ListPending, SP!ListPending

LEMMA ServerSameResume ==
    /\ \A t, via, todo : Server!Resume(t, via, todo) <=> SP!Resume(t, via, todo)
    /\ \A t : Server!NextMessage(t) <=> SP!NextMessage(t)
<1>1. \A t, via, todo : Server!Resume(t, via, todo) <=> SP!Resume(t, via, todo)
  BY DEF Server!Resume, Server!InLoop, Server!Sweeping,
         SP!Resume, SP!InLoop, SP!Sweeping
<1> QED
  BY <1>1 DEF Server!NextMessage, SP!NextMessage

LEMMA ServerSameStep == \A t : Server!Step(t) <=> SP!Step(t)
<1> SUFFICES ASSUME NEW t PROVE Server!Step(t) <=> SP!Step(t)
  OBVIOUS
<1>1. Server!Boot(t) <=> SP!Boot(t)
  BY ServerSameOrder, ServerSameResume
  DEF Server!Boot, Server!tables, SP!Boot, SP!tables
<1>2. Server!Sweep(t) <=> SP!Sweep(t)
  BY ServerSameOrder, ServerSameResume
  DEF Server!Sweep, Server!Sweeping, Server!queue, Server!tables,
      SP!Sweep, SP!Sweeping, SP!queue, SP!tables
<1>3. Server!Claim(t) <=> SP!Claim(t)
  BY ServerSameResume
  DEF Server!Claim, Server!TakenOver, Server!Cur, Server!tables,
      SP!Claim, SP!TakenOver, SP!Cur, SP!tables
<1>4. Server!Read(t) <=> SP!Read(t)
  BY ServerSameOrder, ServerSameResume, ServerSameCardinality
  DEF Server!Read, Server!InLoop, Server!tables, SP!Read, SP!InLoop, SP!tables
<1>5. Server!Process(t) <=> SP!Process(t)
  BY ServerSameResume
  DEF Server!Process, Server!PersistEvent, Server!Cur, Server!tables,
      SP!Process, SP!PersistEvent, SP!Cur, SP!tables
<1>6. Server!Ack(t) <=> SP!Ack(t)
  BY ServerSameResume
  DEF Server!Ack, Server!Cur, Server!tables, SP!Ack, SP!Cur, SP!tables
<1> QED
  BY <1>1, <1>2, <1>3, <1>4, <1>5, <1>6 DEF Server!Step, SP!Step

LEMMA ServerSameNext == Server!Next <=> SP!Next
<1>1. /\ \A e : Server!Ingest(e) <=> SP!Ingest(e)
      /\ Server!StrayMessage <=> SP!StrayMessage
  BY DEF Server!Ingest, Server!StrayMessage, Server!XAdd, Server!tables,
         SP!Ingest, SP!StrayMessage, SP!XAdd, SP!tables
<1>2. /\ \A m : Server!BecomeIdle(m) <=> SP!BecomeIdle(m)
      /\ \A w : Server!CrashWorker(w) <=> SP!CrashWorker(w)
  BY DEF Server!BecomeIdle, Server!CrashWorker, Server!queue, Server!tables, Server!Threads,
         Server!Fresh, Server!Booting, Server!Sweeping,
         SP!BecomeIdle, SP!CrashWorker, SP!queue, SP!tables, SP!Threads,
         SP!Fresh, SP!Booting, SP!Sweeping
<1>3. Server!Threads = SP!Threads /\ Server!Msgs = SP!Msgs
  BY DEF Server!Threads, Server!Msgs, SP!Threads, SP!Msgs
<1> QED
  BY <1>1, <1>2, <1>3, ServerSameStep DEF Server!Next, SP!Next

LEMMA ServerSameVars ==
    /\ Server!vars = SP!vars
    /\ UNCHANGED Server!vars <=> UNCHANGED SP!vars
    /\ UNCHANGED Server!vars <=> UNCHANGED serverVars
BY DEF Server!vars, Server!queue, Server!tables, SP!vars, SP!queue, SP!tables, serverVars

(* What CentralPipeline assumes of its constants.                          *)
LEMMA ServerAssumptions ==
    /\ Alerting \subseteq EventIds \cup Others /\ Unpersistable \subseteq EventIds \cup Others
    /\ Malformed \notin EventIds \cup Others /\ NoGroup \notin Nat
    /\ ReadCount \in Nat \ {0} /\ RecoveryBatchSize \in Nat \ {0}
    /\ MaxMsgs \in Nat /\ MaxCrashes \in Nat
BY SystemAssumption

LEMMA ServerKeepsItsInvariant ==
    ASSUME SP!CentralInv, [Server!Next]_(Server!vars)
    PROVE  SP!CentralInv'
<1>1. [SP!Next]_(SP!vars)
  BY ServerSameNext, ServerSameVars
<1> QED
  BY <1>1, SP!CentralNext, ServerAssumptions

LEMMA ServerStarts == ASSUME Server!Init PROVE SP!CentralInv
<1>1. SP!Init
  BY ServerSameInit
<1> QED
  BY <1>1, SP!CentralInit, ServerAssumptions

(* What the server's invariant says, in the names of the model.            *)
LEMMA ServerFacts ==
    ASSUME SP!CentralInv
    PROVE  /\ stream \in Seq((EventIds \cup Others) \cup {Malformed})
           /\ rows \subseteq EventIds \cup Others /\ alerts = rows \cap Alerting
           /\ \A m \in Server!Msgs :
                Server!InFlight(m) \/ stream[m] \in rows \/ stream[m] = Malformed
           /\ \A t \in Server!Threads :
                th[t].pc = "process" => Server!Cur(t) \in Server!Msgs
<1>1. /\ SP!TypeOK /\ SP!Delivered /\ SP!EffectsHappenOnce
      /\ Server!Msgs = SP!Msgs /\ Server!Threads = SP!Threads
  BY DEF SP!CentralInv, Server!Msgs, SP!Msgs, Server!Threads, SP!Threads
<1>2. stream \in Seq((EventIds \cup Others) \cup {Malformed}) /\ rows \subseteq EventIds \cup Others
  BY <1>1 DEF SP!TypeOK
<1>3. alerts = rows \cap Alerting /\ \A m \in deadLetters : stream[m] = Malformed
  BY <1>1 DEF SP!EffectsHappenOnce
<1>4. ASSUME NEW m \in Server!Msgs
      PROVE  Server!InFlight(m) \/ stream[m] \in rows \/ stream[m] = Malformed
  <2>1. SP!InFlight(m) \/ SP!Settled(m)
    BY <1>1 DEF SP!Delivered
  <2> QED
    BY <1>3, <2>1 DEF SP!InFlight, SP!Settled, Server!InFlight
<1>5. ASSUME NEW t \in Server!Threads, th[t].pc = "process"
      PROVE  Server!Cur(t) \in Server!Msgs
  <2>1. t \in SP!Threads /\ th[t].pc \in {"claim", "process", "ack"}
    BY <1>1, <1>5
  <2>2. SP!Cur(t) \in SP!Msgs
    BY <2>1, SP!CurrentMessage, ServerAssumptions
  <2> QED
    BY <1>1, <2>2 DEF Server!Cur, SP!Cur
<1> QED
  BY <1>2, <1>3, <1>4, <1>5

-----------------------------------------------------------------------------
(***************************************************************************)
(* The strengthening.  What the agent's model calls accepted is what the   *)
(* stream holds of its events, and the table holds published events only.  *)
(***************************************************************************)
Published(x) == \E m \in Server!Msgs : stream[m] = x

Coupled ==
    /\ \A id \in EventIds : id \in accepted <=> Published(id)
    /\ \A x \in rows : Published(x)

SystemInv == EdgeInv /\ SP!CentralInv /\ Coupled

(* The posted event is one of the agent's.                                 *)
LEMMA PostedEvent ==
    ASSUME EdgeInv, FwdPost
    PROVE  Current[1] \in EventIds
BY CurrentInBatch DEF EdgeInv, AgentInv, Types, ForwarderType, Copies, FwdPost

(* Every step is a step of the agent and one of the server.                *)
LEMMA AgentSteps ==
    ASSUME [SystemNext]_systemVars
    PROVE  [Next]_vars
BY DEF SystemNext, PostServed, PostUnserved, LateServed, AgentAlone, ServerAlone,
       systemVars, Next, Forwarder

LEMMA ServerSteps ==
    ASSUME EdgeInv, [SystemNext]_systemVars
    PROVE  [Server!Next]_(Server!vars)
<1>1. CASE PostServed
  BY <1>1, PostedEvent DEF PostServed, Server!Next
<1>2. CASE \E id \in EventIds : LateServed(id)
  BY <1>2 DEF LateServed, Server!Next
<1>3. CASE PostUnserved \/ AgentAlone \/ UNCHANGED systemVars
  BY <1>3, ServerSameVars DEF PostUnserved, AgentAlone, systemVars
<1>4. CASE ServerAlone
  BY <1>4 DEF ServerAlone, Server!Next
<1> QED
  BY <1>1, <1>2, <1>3, <1>4 DEF SystemNext

(* What one more message changes.                                          *)
LEMMA OneMore ==
    ASSUME NEW T, stream \in Seq(T), NEW x \in T, stream' = Append(stream, x)
    PROVE  \A y : Published(y)' <=> Published(y) \/ y = x
<1>1. /\ Len(stream) \in Nat /\ Len(stream') = Len(stream) + 1
      /\ \A m \in 1..Len(stream) : stream'[m] = stream[m]
      /\ stream'[Len(stream) + 1] = x
  OBVIOUS
<1>2. Server!Msgs' = Server!Msgs \cup {Len(stream) + 1} /\ Server!Msgs = 1..Len(stream)
  BY <1>1 DEF Server!Msgs
<1> QED
  BY <1>1, <1>2 DEF Published

LEMMA AgentAloneFrame ==
    ASSUME AgentAlone
    PROVE  UNCHANGED <<net, serverVars>>
BY DEF AgentAlone, Produce, Engine, EngineRecv, EngineStore, StoreProceeds, EngineResult,
       EngineWait, EngineRecover, EngineDetect, EngineFindingDone, EngineExit, FwdFetch,
       FwdSend, FwdReply, FwdExit, Environment, Lifecycle, Signal, DrainExpires,
       CloseChannel, Exit, Crash, Restart

(* Who is accepted in a step: the event that is published in it.           *)
LEMMA AcceptedMeansPublished ==
    ASSUME SystemInv, [SystemNext]_systemVars
    PROVE  \/ \E id \in EventIds : /\ accepted' = accepted \cup {id}
                                   /\ Server!Ingest(id)
           \/ /\ accepted' = accepted
              /\ \/ UNCHANGED serverVars
                 \/ ServerAlone
<1>0. EdgeInv
  BY DEF SystemInv
<1>1. CASE PostServed
  BY <1>0, <1>1, PostedEvent DEF PostServed
<1>2. CASE \E id \in EventIds : LateServed(id)
  BY <1>2 DEF LateServed, ServedLate, vars
<1>3. CASE PostUnserved \/ UNCHANGED systemVars
  BY <1>3 DEF PostUnserved, systemVars, vars
<1>4. CASE AgentAlone
  BY <1>4, AgentAloneFrame
<1>5. CASE ServerAlone
  BY <1>5 DEF ServerAlone, vars
<1> QED
  BY <1>1, <1>2, <1>3, <1>4, <1>5 DEF SystemNext

(* What a step of the server alone does to the stream and the table.       *)
Publishes(x)      == stream' = Append(stream, x) /\ rows' = rows
PersistsAtMostOne == \/ rows' = rows
                     \/ \E m \in Server!Msgs : rows' = rows \cup {stream[m]}

LEMMA ServerAloneEffects ==
    ASSUME SP!CentralInv, ServerAlone
    PROVE  \/ \E x \in Others \cup {Malformed} : Publishes(x)
           \/ UNCHANGED stream /\ PersistsAtMostOne
<1>1. CASE (\E e \in Others : Server!Ingest(e)) \/ Server!StrayMessage
  BY <1>1 DEF Server!Ingest, Server!StrayMessage, Server!XAdd, Server!tables, Publishes
<1>2. ASSUME NEW t \in Server!Threads, Server!Process(t)
      PROVE  UNCHANGED stream /\ PersistsAtMostOne
  <2>1. Server!Cur(t) \in Server!Msgs
    BY <1>2, ServerFacts DEF Server!Process
  <2> QED
    BY <1>2, <2>1 DEF Server!Process, Server!PersistEvent, Server!tables, PersistsAtMostOne
<1>3. ASSUME NEW t \in Server!Threads, Server!Step(t), ~Server!Process(t)
      PROVE  UNCHANGED stream /\ PersistsAtMostOne
  BY <1>3
  DEF Server!Step, Server!Boot, Server!Sweep, Server!Claim, Server!Read, Server!Ack,
      Server!queue, Server!tables, PersistsAtMostOne
<1>4. CASE \/ \E m \in Server!Msgs : Server!BecomeIdle(m)
           \/ \E w \in Workers : Server!CrashWorker(w)
  BY <1>4
  DEF Server!BecomeIdle, Server!CrashWorker, Server!queue, Server!tables, PersistsAtMostOne
<1> QED
  BY <1>1, <1>2, <1>3, <1>4 DEF ServerAlone

LEMMA CoupledKept ==
    ASSUME SystemInv, [SystemNext]_systemVars
    PROVE  Coupled'
<1> DEFINE T == (EventIds \cup Others) \cup {Malformed}
<1>0. Coupled /\ SP!CentralInv /\ stream \in Seq(T)
  BY ServerFacts DEF SystemInv
<1>1. ASSUME NEW id \in EventIds, accepted' = accepted \cup {id}, Server!Ingest(id)
      PROVE  Coupled'
  <2>1. stream' = Append(stream, id) /\ rows' = rows
    BY <1>1 DEF Server!Ingest, Server!XAdd, Server!tables
  <2>2. \A y : Published(y)' <=> Published(y) \/ y = id
    BY <1>0, <2>1, OneMore
  <2> QED
    BY <1>0, <1>1, <2>1, <2>2 DEF Coupled
<1>2. CASE accepted' = accepted /\ UNCHANGED serverVars
  BY <1>0, <1>2 DEF Coupled, Published, Server!Msgs, serverVars
<1>3. CASE accepted' = accepted /\ ServerAlone
  <2>1. ASSUME NEW x \in Others \cup {Malformed}, Publishes(x)
        PROVE  Coupled'
    <3>1. x \in T \ EventIds
      BY SystemAssumption
    <3>2. \A y : Published(y)' <=> Published(y) \/ y = x
      BY <1>0, <2>1, <3>1, OneMore DEF Publishes
    <3> QED
      BY <1>0, <1>3, <2>1, <3>1, <3>2 DEF Coupled, Publishes
  <2>2. CASE UNCHANGED stream /\ PersistsAtMostOne
    <3>1. \A y : Published(y)' <=> Published(y)
      BY <2>2 DEF Published, Server!Msgs
    <3>2. \A y \in rows' : y \in rows \/ Published(y)
      BY <2>2 DEF Published, PersistsAtMostOne
    <3> QED
      BY <1>0, <1>3, <3>1, <3>2 DEF Coupled
  <2> QED
    BY <1>0, <1>3, <2>1, <2>2, ServerAloneEffects
<1> QED
  BY <1>1, <1>2, <1>3, AcceptedMeansPublished

LEMMA SystemInitInv == SystemInit => SystemInv
<1> SUFFICES ASSUME SystemInit PROVE SystemInv
  OBVIOUS
<1>1. EdgeInv /\ SP!CentralInv
  BY InitEdgeInv, ServerStarts DEF SystemInit
<1>2. stream = << >> /\ rows = {} /\ accepted = {}
  BY DEF SystemInit, Server!Init, Init
<1>3. Server!Msgs = {}
  BY <1>2 DEF Server!Msgs
<1> QED
  BY <1>1, <1>2, <1>3 DEF SystemInv, Coupled, Published

LEMMA SystemNextInv == SystemInv /\ [SystemNext]_systemVars => SystemInv'
<1> SUFFICES ASSUME SystemInv, [SystemNext]_systemVars PROVE SystemInv'
  OBVIOUS
<1>1. EdgeInv'
  BY AgentSteps, NextEdgeInv DEF SystemInv
<1>2. SP!CentralInv'
  BY ServerSteps, ServerKeepsItsInvariant DEF SystemInv
<1> QED
  BY <1>1, <1>2, CoupledKept DEF SystemInv

LEMMA SystemInvariant == SystemSpec => []SystemInv
BY SystemInitInv, SystemNextInv, PTL DEF SystemSpec

(***************************************************************************)
(* The system's agent behaves as EdgePipeline allows and its server as     *)
(* CentralPipeline does, so that what is proved of each holds of them      *)
(* together: the network of EdgePipeline and the clients of                *)
(* CentralPipeline leave room for the other side as it is.                 *)
(***************************************************************************)
THEOREM SystemRunsBoth == SystemSpec => Spec /\ Server!Spec
<1>1. SystemInit => Init /\ Server!Init
  BY DEF SystemInit
<1>2. [SystemNext]_systemVars => [Next]_vars
  BY AgentSteps
<1>3. SystemInv /\ [SystemNext]_systemVars => [Server!Next]_(Server!vars)
  BY ServerSteps DEF SystemInv
<1> QED
  BY <1>1, <1>2, <1>3, SystemInvariant, PTL DEF SystemSpec, Spec, Server!Spec

-----------------------------------------------------------------------------
(* A published event that no worker has persisted is on its way.           *)
LEMMA PublishedArrivesOrWaits ==
    ASSUME SystemInv, NEW id \in EventIds, id \in accepted
    PROVE  OnItsWay(id) \/ id \in rows
<1>1. PICK m \in Server!Msgs : stream[m] = id
  BY DEF SystemInv, Coupled, Published
<1>2. Server!InFlight(m) \/ stream[m] \in rows \/ stream[m] = Malformed
  BY ServerFacts DEF SystemInv
<1> QED
  BY <1>1, <1>2, SystemAssumption DEF OnItsWay

LEMMA EndToEndSafe ==
    ASSUME SystemInv
    PROVE  NothingLostEndToEnd
<1>1. NoLossAfterCommit /\ NothingPrecedesItsCommit /\ Coupled /\ alerts = rows \cap Alerting
  BY ServerFacts DEF SystemInv, EdgeInv, AgentInv
<1>2. ASSUME NEW id \in Telemetry, outcome[id] = "committed"
      PROVE  \/ Stored(id) \/ OnItsWay(id) \/ id \in rows
             \/ Pruned(id) /\ Sev[id] \notin DB!Critical
  <2>1. id \in EventIds
    BY PipelineAssumption
  <2> QED
    BY <1>1, <1>2, <2>1, PublishedArrivesOrWaits DEF NoLossAfterCommit
<1>3. ASSUME NEW id \in rows \cap EventIds PROVE Committed(id)
  BY <1>1 DEF Coupled, NothingPrecedesItsCommit
<1>4. ASSUME NEW t \in Telemetry, FindingOf[t] \in alerts \cap EventIds
      PROVE  outcome[t] = "committed"
  <2>1. FindingOf[t] # NoEvent /\ FindingOf[t] \in rows \cap EventIds
    BY <1>1, <1>4, PipelineAssumption
  <2> QED
    BY <1>1, <1>3, <2>1 DEF NothingPrecedesItsCommit
<1> QED
  BY <1>2, <1>3, <1>4 DEF NothingLostEndToEnd

(***************************************************************************)
(* From the channel to PostgreSQL, through crashes of agent and workers,   *)
(* retries, lost answers and late requests: what ProcessEvent reported     *)
(* COMMITTED is in the agent's store, on its way or in the central table,  *)
(* or it was prunable and pruned; what the centre shows was committed.     *)
(***************************************************************************)
THEOREM NothingIsLostEndToEnd == SystemSpec => []NothingLostEndToEnd
<1>1. SystemInv => NothingLostEndToEnd
  BY EndToEndSafe
<1> QED
  BY <1>1, SystemInvariant, PTL

-----------------------------------------------------------------------------
(***************************************************************************)
(* The refinement.  First, what the agent's steps look like from outside:  *)
(* to the ids it has stored, discarded and promised.                       *)
(***************************************************************************)
StoredIds == {id \in EventIds : Stored(id)}

Stores  == /\ Discarded' = Discarded
           /\ \/ StoredIds' = StoredIds
              \/ \E x \in EventIds : StoredIds' = StoredIds \cup {x}

Removes == /\ Discarded' = Discarded
           /\ \E x \in accepted : StoredIds' = StoredIds \ {x}

Prunes  == \E E \in SUBSET EventIds :
             /\ \A id \in E : Sev[id] \notin DB!Critical
             /\ Discarded' = Discarded \cup E
             /\ \E gone \in SUBSET E : StoredIds' = StoredIds \ gone

LEMMA StoreStepSeen ==
    ASSUME DB!TypeOK, DB!OneHome, ~DB!Idle => call.id \in EventIds,
           NEW size, NEW x, DB!StoreStep(size, x)
    PROVE  Stores \/ Prunes
<1>0. DOMAIN events \subseteq EventIds /\ call \in DB!Calls
  BY DEF DB!TypeOK, DB!TableOf
<1>1. CASE UNCHANGED <<events, dlq, pruned>>
  BY <1>1 DEF Stores, StoredIds, Stored, Discarded, Pruned
<1>2. CASE DB!PruneRound(size, x)
  <2> DEFINE batch == DB!OldestBatch(DB!Prunable[call.tier])
  <2>1. CASE /\ events' = DB!Drop(events, batch) /\ dlq' = dlq
             /\ pruned' = pruned \cup {<<id, events[id].seq>> : id \in batch}
    <3>1. batch \subseteq DOMAIN events /\ \A id \in batch : Sev[id] = DB!Prunable[call.tier]
      BY DEF DB!OldestBatch
    <3>2. call.tier \in 1..3
      BY <1>0 DEF DB!Calls, DB!Prunable
    <3>3. \A id \in batch : Sev[id] \notin DB!Critical
      BY <3>1, <3>2 DEF DB!Prunable, DB!Critical
    <3> HIDE DEF batch
    <3>4. Discarded' = Discarded \cup batch
      <4>1. ASSUME NEW id PROVE Pruned(id)' <=> Pruned(id) \/ id \in batch
        <5>1. id \in batch => <<id, events[id].seq>> \in pruned'
          BY <2>1
        <5>2. \A p \in pruned' : p \in pruned \/ p[1] \in batch
          BY <2>1
        <5>3. pruned \subseteq pruned'
          BY <2>1
        <5>4. id \in batch => \E p \in pruned' : p[1] = id
          BY <5>1
        <5> QED
          BY <5>2, <5>3, <5>4 DEF Pruned
      <4> QED
        BY <1>0, <3>1, <4>1 DEF Discarded
    <3>5. \A id \in batch : id \notin DOMAIN dlq
      BY <3>1 DEF DB!OneHome
    <3>6. DOMAIN events' = DOMAIN events \ batch
      BY <2>1 DEF DB!Drop
    <3>7. StoredIds' = StoredIds \ batch
      BY <2>1, <3>5, <3>6 DEF StoredIds, Stored
    <3> QED
      BY <1>0, <3>1, <3>3, <3>4, <3>7 DEF Prunes
  <2> QED
    BY <1>1, <1>2, <2>1 DEF DB!PruneRound
<1>3. CASE DB!StoreTx(x)
  <2>1. CASE DB!Allocate /\ UNCHANGED <<dlq, pruned>>
    <3>1. DOMAIN events' = DOMAIN events \cup {call.id}
      BY <2>1 DEF DB!Allocate, DB!Put
    <3>2. call.id \in EventIds
      BY <1>3 DEF DB!StoreTx, DB!Idle
    <3>3. StoredIds' = StoredIds \cup {call.id}
      BY <2>1, <3>1, <3>2 DEF StoredIds, Stored
    <3> QED
      BY <2>1, <3>2, <3>3 DEF Stores, Discarded, Pruned
  <2> QED
    BY <1>1, <1>3, <2>1 DEF DB!StoreTx, DB!tables
<1> QED
  BY <1>1, <1>2, <1>3
  DEF DB!StoreStep, DB!CheckQuota, DB!Account, DB!Verdict, DB!tables, DB!ghosts

LEMMA StoreSeen ==
    ASSUME DBP!IInv, AgentInv, [Next]_vars
    PROVE  Stores \/ Removes \/ Prunes
<1>0. /\ DB!TypeOK /\ DB!OneHome /\ DOMAIN events \subseteq EventIds
      /\ ~DB!Idle => call.id \in EventIds
  BY StoreFacts DEF DB!TypeOK, DB!TableOf
<1>1. CASE UNCHANGED <<DOMAIN events, DOMAIN dlq, pruned>>
  BY <1>1 DEF Stores, StoredIds, Stored, Discarded, Pruned
<1>2. CASE \E size \in DB!TotalSize, x \in BOOLEAN : DB!StoreStep(size, x)
  BY <1>0, <1>2, StoreStepSeen
<1>3. CASE \/ \E id \in EventIds, s \in Seqs, x \in BOOLEAN : DB!StoreBegin(id, Genuine, s, x)
           \/ DB!Crash \/ UNCHANGED dbVars
  BY <1>1, <1>3 DEF DB!StoreBegin, DB!Crash, DB!tables, DB!ghosts, dbVars
<1>4. ASSUME NEW id \in EventIds, NEW s \in Seqs, DB!MoveToDLQ(id, Genuine, s)
      PROVE  Stores
  <2>1. /\ DOMAIN dlq' = DOMAIN dlq \cup {id} /\ DOMAIN events' = DOMAIN events \ {id}
        /\ pruned' = pruned
    BY <1>4 DEF DB!MoveToDLQ, DB!MoveRaw, DB!Put, DB!Drop, DB!ghosts
  <2>2. StoredIds' = StoredIds \cup {id}
    BY <2>1 DEF StoredIds, Stored
  <2> QED
    BY <2>1, <2>2 DEF Stores, Discarded, Pruned
<1>5. ASSUME NEW ids \in SUBSET EventIds, DB!QuarantineCorrupt(ids)
      PROVE  Stores
  <2>1. /\ DOMAIN dlq' = DOMAIN dlq \cup ids /\ DOMAIN events' = DOMAIN events \ ids
        /\ pruned' = pruned /\ ids \subseteq DOMAIN events
    BY <1>5 DEF DB!QuarantineCorrupt, DB!Drop, DB!Due, DB!ghosts
  <2>2. StoredIds' = StoredIds
    BY <2>1 DEF StoredIds, Stored
  <2> QED
    BY <2>1, <2>2 DEF Stores, Discarded, Pruned
<1>6. CASE \E id \in EventIds : DB!MarkFailed(id) \/ DB!BecomeDue(id) \/ DB!CorruptRow(id)
  <2>1. DOMAIN events' = DOMAIN events
    BY <1>0, <1>6 DEF DB!MarkFailed, DB!BecomeDue, DB!CorruptRow, DB!TypeOK, DB!TableOf
  <2> QED
    BY <1>1, <1>6, <2>1 DEF DB!MarkFailed, DB!BecomeDue, DB!CorruptRow, DB!ghosts
<1>7. ASSUME NEW id \in EventIds \cap accepted, DB!RemoveEvent(id)
      PROVE  Stores \/ Removes
  <2>1. DOMAIN events' = DOMAIN events \ {id} /\ UNCHANGED <<dlq, pruned>>
    BY <1>7 DEF DB!RemoveEvent, DB!Drop, DB!ghosts
  <2>2. CASE id \in DOMAIN events
    <3>1. id \notin DOMAIN dlq
      BY <1>0, <2>2 DEF DB!OneHome
    <3>2. StoredIds' = StoredIds \ {id}
      BY <2>1, <3>1 DEF StoredIds, Stored
    <3> QED
      BY <2>1, <3>2 DEF Removes, Discarded, Pruned
  <2>3. CASE id \notin DOMAIN events
    <3>1. StoredIds' = StoredIds
      BY <2>1, <2>3 DEF StoredIds, Stored
    <3> QED
      BY <2>1, <3>1 DEF Stores, Discarded, Pruned
  <2> QED
    BY <2>2, <2>3
<1> QED
  BY <1>2, <1>3, <1>4, <1>5, <1>6, <1>7, Uses DEF KeepingStep

(* A report that an event is committed changes nothing else, and is true.  *)
LEMMA ReportsSeen ==
    ASSUME DBP!IInv, AgentInv, [Next]_vars
    PROVE  \/ Promised' = Promised
           \/ /\ UNCHANGED <<dbVars, net>>
              /\ \E t \in Telemetry : Safe(t) /\ Promised' = Promised \cup {t}
<1>0. /\ HeldByEngine /\ InHand /\ DecidedOnce /\ outcome \in [EventIds -> Outcomes]
      /\ Telemetry \subseteq EventIds
  BY PipelineAssumption DEF AgentInv, Types
<1>1. CASE UNCHANGED outcome
  BY <1>1 DEF Promised
<1>2. ASSUME NEW o, o # "committed", Finish(o), Working
      PROVE  Promised' = Promised
  <2>1. outcome[eng.id] = "none" /\ eng.id \in EventIds
    BY <1>0, <1>2 DEF DecidedOnce, Working, InHand
  <2>2. \A t \in EventIds : outcome'[t] = IF t = eng.id THEN o ELSE outcome[t]
    BY <1>0, <1>2, <2>1 DEF Finish
  <2> QED
    BY <1>0, <1>2, <2>1, <2>2 DEF Promised
<1>3. CASE EngineResult
  <2>1. UNCHANGED <<dbVars, net>> /\ Working /\ eng.pc = "await" /\ DB!Idle
    BY <1>3 DEF EngineResult, Working
  <2>2. CASE /\ call.err = "nil"
             /\ outcome' = [outcome EXCEPT ![eng.id] = "committed"]
    <3>1. Safe(eng.id) /\ eng.id \in Telemetry
      BY <1>0, <2>1, <2>2 DEF HeldByEngine, InHand
    <3>2. \A t \in EventIds : outcome'[t] = IF t = eng.id THEN "committed" ELSE outcome[t]
      BY <1>0, <2>2
    <3>3. Promised' = Promised \cup {eng.id}
      BY <1>0, <3>1, <3>2 DEF Promised
    <3> QED
      BY <2>1, <3>1, <3>3
  <2> QED
    BY <1>1, <1>2, <1>3, <2>1, <2>2 DEF EngineResult
<1>4. CASE EngineWait \/ EngineRecover
  <2>1. Working
    BY <1>4 DEF EngineWait, EngineRecover, Working
  <2> QED
    BY <1>1, <1>2, <1>4, <2>1 DEF EngineWait, EngineRecover
<1>5. CASE \/ \E id \in Telemetry : Produce(id)
           \/ EngineRecv \/ EngineStore \/ StoreProceeds \/ EngineDetect
           \/ EngineFindingDone \/ EngineExit \/ Forwarder \/ Environment
           \/ \E id \in EventIds : ServedLate(id)
           \/ Lifecycle \/ UNCHANGED vars
  <2>1. UNCHANGED outcome
    BY <1>5, ForwarderFrame
    DEF Produce, EngineRecv, EngineStore, StoreProceeds, EngineDetect, EngineFindingDone,
        EngineExit, Environment, ServedLate, Lifecycle, Signal, DrainExpires, CloseChannel,
        Exit, Crash, Restart, vars
  <2> QED
    BY <1>1, <2>1
<1> QED
  BY <1>3, <1>4, <1>5 DEF Next, Engine

-----------------------------------------------------------------------------
(* What is held, without the workers' bookkeeping.                         *)
LEMMA HeldSeen == SystemInv => Held = (StoredIds \cup accepted) \ rows
<1> SUFFICES ASSUME SystemInv PROVE Held = (StoredIds \cup accepted) \ rows
  OBVIOUS
<1>1. accepted \subseteq EventIds
  BY DEF SystemInv, EdgeInv, AgentInv, Types
<1>2. ASSUME NEW id \in EventIds, OnItsWay(id) PROVE id \in accepted
  BY <1>2 DEF SystemInv, Coupled, Published, OnItsWay
<1>3. ASSUME NEW id \in accepted, id \notin rows PROVE OnItsWay(id)
  BY <1>1, <1>3, PublishedArrivesOrWaits
<1> QED
  BY <1>1, <1>2, <1>3 DEF Held, StoredIds

LEMMA RaisedSeen == SystemInv => alerts = rows \cap Alerting
BY ServerFacts DEF SystemInv

(* An agent step is a step of the promise, or none.                        *)
LEMMA AgentDelivers ==
    ASSUME SystemInv, [Next]_vars, accepted' = accepted, UNCHANGED serverVars,
           Held = (StoredIds \cup accepted) \ rows,
           Held' = (StoredIds' \cup accepted') \ rows'
    PROVE  [Delivery!Next]_(Delivery!vars)
<1>0. DBP!IInv /\ AgentInv /\ UNCHANGED <<rows, alerts>>
  BY DEF SystemInv, EdgeInv, serverVars
<1>1. CASE Promised' # Promised
  <2>1. PICK t \in Telemetry : Safe(t) /\ Promised' = Promised \cup {t} /\ UNCHANGED dbVars
    BY <1>0, <1>1, ReportsSeen
  <2>2. StoredIds' = StoredIds /\ Discarded' = Discarded
    BY <2>1 DEF dbVars, StoredIds, Stored, Discarded, Pruned
  <2>3. t \in EventIds
    BY PipelineAssumption
  <2>4. t \in Held \cup (rows \cap EventIds) \cup Discarded
    BY <2>1, <2>3 DEF Safe, StoredIds, Discarded
  <2>5. Held' = Held
    BY <1>0, <2>2
  <2>6. Delivery!Promise(t)
    BY <1>0, <2>1, <2>2, <2>4, <2>5 DEF Delivery!Promise
  <2> QED
    BY <2>3, <2>6 DEF Delivery!Next
<1>2. CASE Promised' = Promised /\ Prunes
  <2>1. PICK E \in SUBSET EventIds :
          /\ \A id \in E : Sev[id] \notin DB!Critical
          /\ Discarded' = Discarded \cup E
          /\ \E gone \in SUBSET E : StoredIds' = StoredIds \ gone
    BY <1>2 DEF Prunes
  <2>2. E \cap (Alerting \cap EventIds) = {}
    BY <2>1, SystemAssumption
  <2>3. PICK gone \in SUBSET E : StoredIds' = StoredIds \ gone
    BY <2>1
  <2>4. gone \ accepted \in SUBSET E /\ Held' = Held \ (gone \ accepted)
    BY <1>0, <2>3
  <2>5. Delivery!Discard(E)
    BY <1>0, <1>2, <2>1, <2>2, <2>4 DEF Delivery!Discard
  <2> QED
    BY <2>5 DEF Delivery!Next
<1>3. CASE Promised' = Promised /\ (Stores \/ Removes)
  <2>1. Discarded' = Discarded
    BY <1>3 DEF Stores, Removes
  <2>2. CASE Held' = Held
    BY <1>0, <1>3, <2>1, <2>2 DEF Delivery!vars
  <2>3. CASE Held' # Held
    <3>1. PICK x \in EventIds : StoredIds' = StoredIds \cup {x}
      BY <1>0, <1>3, <2>3 DEF Stores, Removes
    <3>2. x \notin rows /\ Held' = Held \cup {x}
      BY <1>0, <2>3, <3>1
    <3>3. Delivery!Keep(x)
      BY <1>0, <1>3, <2>1, <3>2 DEF Delivery!Keep
    <3> QED
      BY <3>3 DEF Delivery!Next
  <2> QED
    BY <2>2, <2>3
<1> QED
  BY <1>0, <1>1, <1>2, <1>3, StoreSeen

(* A publication keeps an event a second time, or again.                   *)
LEMMA PublishingDelivers ==
    ASSUME SystemInv, NEW x \in EventIds, accepted' = accepted \cup {x},
           UNCHANGED <<dbVars, outcome, rows, alerts>>,
           Held = (StoredIds \cup accepted) \ rows,
           Held' = (StoredIds' \cup accepted') \ rows'
    PROVE  [Delivery!Next]_(Delivery!vars)
<1>1. StoredIds' = StoredIds /\ Discarded' = Discarded /\ Promised' = Promised
  BY DEF dbVars, StoredIds, Stored, Discarded, Pruned, Promised
<1>2. CASE x \in rows
  <2>1. Held' = Held
    BY <1>1, <1>2
  <2> QED
    BY <1>1, <2>1 DEF Delivery!vars
<1>3. CASE x \notin rows
  <2>1. Held' = Held \cup {x}
    BY <1>1, <1>3
  <2>2. Delivery!Keep(x)
    BY <1>1, <1>3, <2>1 DEF Delivery!Keep
  <2> QED
    BY <2>2 DEF Delivery!Next
<1> QED
  BY <1>2, <1>3

(* A worker delivers an event that is held.                                *)
LEMMA ServerDelivers ==
    ASSUME SystemInv, UNCHANGED vars, PersistsAtMostOne,
           alerts = rows \cap Alerting, alerts' = rows' \cap Alerting,
           Held = (StoredIds \cup accepted) \ rows,
           Held' = (StoredIds' \cup accepted') \ rows'
    PROVE  [Delivery!Next]_(Delivery!vars)
<1>1. /\ StoredIds' = StoredIds /\ Discarded' = Discarded /\ Promised' = Promised
      /\ accepted' = accepted
  BY DEF vars, dbVars, StoredIds, Stored, Discarded, Pruned, Promised
<1>2. CASE rows' \cap EventIds = rows \cap EventIds
  <2>1. Held' = Held /\ alerts' \cap EventIds = alerts \cap EventIds
    BY <1>1, <1>2 DEF Held
  <2> QED
    BY <1>1, <1>2, <2>1 DEF Delivery!vars
<1>3. CASE rows' \cap EventIds # rows \cap EventIds
  <2>1. PICK m \in Server!Msgs : rows' = rows \cup {stream[m]}
    BY <1>3 DEF PersistsAtMostOne
  <2>2. PICK e : e = stream[m]
    OBVIOUS
  <2>3. e \in EventIds /\ e \notin rows /\ rows' = rows \cup {e}
    BY <1>3, <2>1, <2>2
  <2>4. e \in accepted
    BY <2>2, <2>3 DEF SystemInv, Coupled, Published
  <2>5. e \in Held /\ Held' = Held \ {e}
    BY <1>1, <2>3, <2>4
  <2>6. alerts' \cap EventIds = (alerts \cap EventIds) \cup ({e} \cap (Alerting \cap EventIds))
    BY <2>3
  <2>7. rows' \cap EventIds = (rows \cap EventIds) \cup {e}
    BY <2>3
  <2>8. Delivery!Deliver(e)
    BY <1>1, <2>5, <2>6, <2>7 DEF Delivery!Deliver
  <2> QED
    BY <2>3, <2>8 DEF Delivery!Next
<1> QED
  BY <1>2, <1>3

LEMMA SystemDelivers ==
    ASSUME SystemInv, [SystemNext]_systemVars,
           Held = (StoredIds \cup accepted) \ rows, alerts = rows \cap Alerting,
           Held' = (StoredIds' \cup accepted') \ rows', alerts' = rows' \cap Alerting
    PROVE  [Delivery!Next]_(Delivery!vars)
<1>0. EdgeInv /\ SP!CentralInv
  BY DEF SystemInv
<1>1. CASE PostServed
  <2>1. /\ Current[1] \in EventIds /\ accepted' = accepted \cup {Current[1]}
        /\ UNCHANGED <<dbVars, outcome, rows, alerts>>
    BY <1>0, <1>1, PostedEvent DEF PostServed, FwdPost, Server!Ingest, Server!tables
  <2> QED
    BY <2>1, PublishingDelivers
<1>2. ASSUME NEW id \in EventIds, LateServed(id)
      PROVE  [Delivery!Next]_(Delivery!vars)
  <2>1. accepted' = accepted \cup {id} /\ UNCHANGED <<dbVars, outcome, rows, alerts>>
    BY <1>2 DEF LateServed, ServedLate, vars, Server!Ingest, Server!tables
  <2> QED
    BY <2>1, PublishingDelivers
<1>3. CASE accepted' = accepted /\ UNCHANGED serverVars
  BY <1>3, AgentSteps, AgentDelivers
<1>4. CASE ServerAlone
  <2>1. UNCHANGED vars /\ PersistsAtMostOne
    BY <1>0, <1>4, ServerAloneEffects DEF ServerAlone, Publishes, PersistsAtMostOne
  <2> QED
    BY <2>1, ServerDelivers
<1>5. CASE PostUnserved \/ AgentAlone \/ UNCHANGED systemVars
  <2>1. accepted' = accepted /\ UNCHANGED serverVars
    BY <1>5, AgentAloneFrame DEF PostUnserved, systemVars, vars
  <2> QED
    BY <1>3, <2>1
<1> QED
  BY <1>1, <1>2, <1>4, <1>5 DEF SystemNext

(***************************************************************************)
(* Seen from the central tables, agent, network, stream and workers keep   *)
(* the promise of EventDelivery: every step keeps, reports, delivers with  *)
(* its alert, or discards an event that is not urgent, or does none.       *)
(***************************************************************************)
THEOREM SystemImplementsDelivery == SystemSpec => DeliversEvents
<1>1. SystemInit => Delivery!Init
  <2> SUFFICES ASSUME SystemInit PROVE Delivery!Init
    OBVIOUS
  <2>1. /\ rows = {} /\ alerts = {} /\ accepted = {} /\ pruned = {}
        /\ DOMAIN events = {} /\ DOMAIN dlq = {}
        /\ outcome = [id \in EventIds |-> "none"]
    BY DEF SystemInit, Server!Init, Init, DB!Init
  <2>2. SystemInv
    BY SystemInitInv
  <2>3. StoredIds = {} /\ Discarded = {}
    BY <2>1 DEF StoredIds, Stored, Discarded, Pruned
  <2>4. Promised = {}
    BY <2>1, PipelineAssumption DEF Promised
  <2>5. Held = {}
    BY <2>1, <2>2, <2>3, HeldSeen
  <2> QED
    BY <2>1, <2>3, <2>4, <2>5 DEF Delivery!Init
<1> DEFINE Seen == /\ Held = (StoredIds \cup accepted) \ rows
                   /\ alerts = rows \cap Alerting
<1>2. SystemInv => Seen
  BY HeldSeen, RaisedSeen
<1>3. SystemInv /\ Seen /\ Seen' /\ [SystemNext]_systemVars => [Delivery!Next]_(Delivery!vars)
  BY SystemDelivers
<1> HIDE DEF Seen
<1> QED
  BY <1>1, <1>2, <1>3, SystemInvariant, PTL DEF SystemSpec, DeliversEvents, Delivery!Spec
=============================================================================
