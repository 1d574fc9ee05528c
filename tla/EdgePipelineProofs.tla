-------------------------- MODULE EdgePipelineProofs --------------------------
(***************************************************************************)
(* Theorems about EdgePipeline: for every set of events and findings, any  *)
(* capacity, batch, number of restarts and number of allocations.          *)
(***************************************************************************)
EXTENDS EdgePipeline, TLAPS

(* The theorems about the store, instantiated as the agent uses it.        *)
DBP == INSTANCE EventStoreProofs WITH Contents <- {Genuine}, CallerSeqs <- 0..(MaxSeq + 1)

(* net is only a name for two variables.                                   *)
USE DEF net

-----------------------------------------------------------------------------
(***************************************************************************)
(* The strengthening.                                                      *)
(***************************************************************************)

(* An event that may be reported committed.                                *)
Safe(id) ==
    \/ Stored(id) \/ id \in accepted
    \/ Pruned(id) /\ Sev[id] \notin DB!Critical

Working == eng.pc \in {"store", "await", "wait", "recover"}

(* The store's mutex is held only for the engine: for the event in its     *)
(* hands or for that event's finding; and an answer nil is true.           *)
HeldByEngine ==
    /\ ~DB!Idle => \/ eng.pc = "await" /\ call.id = eng.id
                   \/ eng.pc = "finding" /\ call.id = FindingOf[eng.id]
    /\ eng.pc = "await" /\ DB!Idle /\ call.err = "nil" => Safe(eng.id)

(* The engine has an event from the channel, and attempts are bounded.     *)
InHand ==
    /\ eng.pc \in {"store", "await", "wait"} => eng.attempts < MaxAttempts
    /\ eng.pc \notin {"recv", "off"} => eng.id \in Telemetry

(* An event is decided once: what is on its way has no outcome yet, and is *)
(* on its way in one place only.                                           *)
DecidedOnce ==
    /\ \A i \in 1..Len(chan) : chan[i] \in produced /\ outcome[chan[i]] = "none"
    /\ \A i, j \in 1..Len(chan) : chan[i] = chan[j] => i = j
    /\ Working => /\ eng.id \in produced /\ outcome[eng.id] = "none"
                  /\ \A i \in 1..Len(chan) : chan[i] # eng.id
    /\ eng.pc \in {"detect", "finding"} => outcome[eng.id] = "committed"
    /\ \A id \in Telemetry \ produced : outcome[id] = "none"

(* The copies of a round are of rows that were stored, one is left while   *)
(* the forwarder is at work, and a 202 is believed only from the server.   *)
Copies ==
    /\ fwd.batch \subseteq allocated
    /\ fwd.pc \in {"send", "post", "reply"} => fwd.batch # {}
    /\ fwd.pc = "reply" /\ fwd.reply = "202" => Current[1] \in accepted

(* A request given up is for an event that was committed.                  *)
InTransit == \A id \in transit : Committed(id)

(* The numbers the callers hand to the store.                              *)
Numbers ==
    /\ agentState.nextSeq <= MaxSeq + 1
    /\ call.seq <= MaxSeq + 1 /\ eng.seq <= MaxSeq + 1
    /\ \A id \in DOMAIN dlq : dlq[id].seq <= MaxSeq + 1

(* TypeOK without the store's part.                                        *)
EngineType ==
    [pc : {"recv", "store", "await", "wait", "recover", "detect", "finding", "off"},
     id : Telemetry \cup {NoEvent}, seq : Nat, attempts : 0..MaxAttempts,
     ctx : {"ctx", "drain"}]

ForwarderType ==
    [pc : {"off", "idle", "send", "post", "reply"}, batch : SUBSET (EventIds \X Nat),
     reply : {"none", "202", "400", "retry"}]

Types ==
    /\ chan \in Seq(Telemetry) /\ Len(chan) <= ChanCap
    /\ produced \subseteq Telemetry
    /\ phase \in {"run", "stopping", "closed", "down"} /\ expired \in BOOLEAN
    /\ starts \in 1..MaxStarts
    /\ eng \in EngineType /\ fwd \in ForwarderType
    /\ outcome \in [EventIds -> Outcomes]
    /\ accepted \subseteq EventIds /\ transit \subseteq EventIds \ accepted

AgentInv ==
    /\ Types /\ HeldByEngine /\ InHand /\ DecidedOnce /\ Copies /\ InTransit /\ Numbers
    /\ NoLossAfterCommit /\ NothingPrecedesItsCommit

EdgeInv == DBP!IInv /\ AgentInv

-----------------------------------------------------------------------------
(***************************************************************************)
(* DB, the store of the model, and DBP, the store of the theorems, are two *)
(* instances of one module with the same arguments.                        *)
(***************************************************************************)
LEMMA SameFinite == \A S : IsFiniteSet(S) <=> DBP!IsFiniteSet(S)
BY DEF IsFiniteSet, DBP!IsFiniteSet

LEMMA SameCardinality == \A S : DB!Cardinality(S) = DBP!Cardinality(S)
BY DEF DB!Cardinality, DBP!Cardinality

LEMMA SameBatch == \A sev : DB!OldestBatch(sev) = DBP!OldestBatch(sev)
BY SameCardinality DEF DB!OldestBatch, DBP!OldestBatch

LEMMA SameType == DB!TypeOK <=> DBP!TypeOK
BY DEF DB!TypeOK, DB!TableOf, DB!EventRow, DB!DlqRow, DB!AgentState, DB!Calls, DB!Pcs,
       DB!Errs, DB!Payload, DB!Severities,
       DBP!TypeOK, DBP!TableOf, DBP!EventRow, DBP!DlqRow, DBP!AgentState, DBP!Calls,
       DBP!Pcs, DBP!Errs, DBP!Payload, DBP!Severities

LEMMA SameInit == DB!Init <=> DBP!Init
BY DEF DB!Init, DB!Severities, DB!Returned, DBP!Init, DBP!Severities, DBP!Returned

LEMMA SameStoreBegin ==
    \A id, c, s, x : DB!StoreBegin(id, c, s, x) <=> DBP!StoreBegin(id, c, s, x)
BY DEF DB!StoreBegin, DB!Idle, DB!AnswerFrom, DB!Returned, DB!Started, DB!Failure,
       DB!tables, DB!ghosts,
       DBP!StoreBegin, DBP!Idle, DBP!AnswerFrom, DBP!Returned, DBP!Started, DBP!Failure,
       DBP!tables, DBP!ghosts

LEMMA SameStoreStep ==
    \A size, x : DB!StoreStep(size, x) <=> DBP!StoreStep(size, x)
<1> SUFFICES ASSUME NEW size, NEW x
             PROVE  DB!StoreStep(size, x) <=> DBP!StoreStep(size, x)
  OBVIOUS
<1>1. DB!CheckQuota(size) <=> DBP!CheckQuota(size)
  BY DEF DB!CheckQuota, DB!Goto, DB!Return, DB!Returned, DB!tables, DB!ghosts,
         DBP!CheckQuota, DBP!Goto, DBP!Return, DBP!Returned, DBP!tables, DBP!ghosts
<1>2. DB!PruneRound(size, x) <=> DBP!PruneRound(size, x)
  BY SameBatch, SameCardinality
  DEF DB!PruneRound, DB!Goto, DB!Return, DB!Returned, DB!Failure, DB!Drop, DB!Prunable,
      DBP!PruneRound, DBP!Goto, DBP!Return, DBP!Returned, DBP!Failure, DBP!Drop,
      DBP!Prunable
<1>3. DB!Account(x) <=> DBP!Account(x)
  BY DEF DB!Account, DB!Return, DB!Returned, DB!Failure, DB!Prunable, DB!ghosts,
         DBP!Account, DBP!Return, DBP!Returned, DBP!Failure, DBP!Prunable, DBP!ghosts
<1>4. DB!Verdict(size, x) <=> DBP!Verdict(size, x)
  BY DEF DB!Verdict, DB!Goto, DB!Return, DB!Returned, DB!Failure, DB!Critical, DB!ghosts,
         DBP!Verdict, DBP!Goto, DBP!Return, DBP!Returned, DBP!Failure, DBP!Critical,
         DBP!ghosts
<1>5. DB!StoreTx(x) <=> DBP!StoreTx(x)
  BY DEF DB!StoreTx, DB!Return, DB!Returned, DB!Failure, DB!Allocate, DB!Put, DB!tables,
         DBP!StoreTx, DBP!Return, DBP!Returned, DBP!Failure, DBP!Allocate, DBP!Put,
         DBP!tables
<1> QED
  BY <1>1, <1>2, <1>3, <1>4, <1>5 DEF DB!StoreStep, DBP!StoreStep

LEMMA SameRowOps ==
    /\ \A id, c, s : DB!MoveToDLQ(id, c, s) <=> DBP!MoveToDLQ(id, c, s)
    /\ \A ids : DB!QuarantineCorrupt(ids) <=> DBP!QuarantineCorrupt(ids)
    /\ \A id : DB!RemoveEvent(id) <=> DBP!RemoveEvent(id)
    /\ \A id : DB!MarkFailed(id) <=> DBP!MarkFailed(id)
    /\ \A id : DB!BecomeDue(id) <=> DBP!BecomeDue(id)
    /\ \A id : DB!CorruptRow(id) <=> DBP!CorruptRow(id)
    /\ DB!Crash <=> DBP!Crash
<1>1. \A id, c, s : DB!MoveToDLQ(id, c, s) <=> DBP!MoveToDLQ(id, c, s)
  BY DEF DB!MoveToDLQ, DB!Idle, DB!CanMove, DB!MoveRaw, DB!Put, DB!Drop, DB!ghosts,
         DBP!MoveToDLQ, DBP!Idle, DBP!CanMove, DBP!MoveRaw, DBP!Put, DBP!Drop, DBP!ghosts
<1>2. \A ids : DB!QuarantineCorrupt(ids) <=> DBP!QuarantineCorrupt(ids)
  BY DEF DB!QuarantineCorrupt, DB!Idle, DB!Due, DB!CanMove, DB!Drop, DB!ghosts,
         DBP!QuarantineCorrupt, DBP!Idle, DBP!Due, DBP!CanMove, DBP!Drop, DBP!ghosts
<1>3. \A id : DB!RemoveEvent(id) <=> DBP!RemoveEvent(id)
  BY DEF DB!RemoveEvent, DB!Idle, DB!Drop, DB!ghosts,
         DBP!RemoveEvent, DBP!Idle, DBP!Drop, DBP!ghosts
<1>4. \A id : DB!MarkFailed(id) <=> DBP!MarkFailed(id)
  BY DEF DB!MarkFailed, DB!Idle, DB!ghosts, DBP!MarkFailed, DBP!Idle, DBP!ghosts
<1>5. \A id : DB!BecomeDue(id) <=> DBP!BecomeDue(id)
  BY DEF DB!BecomeDue, DB!ghosts, DBP!BecomeDue, DBP!ghosts
<1>6. \A id : DB!CorruptRow(id) <=> DBP!CorruptRow(id)
  BY DEF DB!CorruptRow, DB!ghosts, DBP!CorruptRow, DBP!ghosts
<1>7. DB!Crash <=> DBP!Crash
  BY DEF DB!Crash, DB!Returned, DB!tables, DB!ghosts,
         DBP!Crash, DBP!Returned, DBP!tables, DBP!ghosts
<1> QED
  BY <1>1, <1>2, <1>3, <1>4, <1>5, <1>6, <1>7

LEMMA SameNext == DB!Next <=> DBP!Next
BY SameStoreBegin, SameStoreStep, SameRowOps
DEF DB!Next, DB!TotalSize, DBP!Next, DBP!TotalSize

(* What EventStore assumes of its constants.                               *)
LEMMA StoreAssumptions ==
    /\ Sev \in [EventIds -> DBP!Severities]
    /\ NoEvent \notin EventIds /\ DBP!IsFiniteSet(EventIds)
    /\ Garbage \notin {Genuine}
    /\ PruneBatch \in Nat \ {0}
    /\ MaxSeq \in Nat /\ 0..(MaxSeq + 1) \subseteq Nat
BY PipelineAssumption, SameFinite DEF DB!Severities, DBP!Severities

(* The store's invariant survives every step of the store.                 *)
LEMMA StoreKeepsItsInvariant ==
    ASSUME DBP!IInv, [DB!Next]_(DB!vars)
    PROVE  DBP!IInv'
<1>1. [DBP!Next]_(DBP!vars)
  BY SameNext DEF DB!vars, DBP!vars
<1> QED
  BY <1>1, DBP!NextIInv, StoreAssumptions

LEMMA StoreInit == ASSUME DB!Init PROVE DBP!IInv
<1>1. DBP!Init
  BY SameInit
<1> QED
  BY <1>1, DBP!InitIInv, StoreAssumptions

(* What the store's invariant says, in the names of the model.             *)
LEMMA StoreFacts ==
    DBP!IInv => /\ DB!TypeOK /\ DB!OneHome /\ DB!SeqAllocatedOnce
                /\ ~DB!Idle => call.id \in EventIds \ (DOMAIN events \cup DOMAIN dlq)
BY SameType DEF DBP!IInv, DB!OneHome, DBP!OneHome, DB!SeqAllocatedOnce,
                DBP!SeqAllocatedOnce, DBP!NewId, DB!Idle, DBP!Idle

-----------------------------------------------------------------------------
(***************************************************************************)
(* How the agent uses its store.  A KeepingStep takes no row away that it  *)
(* does not prune or dead-letter.                                          *)
(***************************************************************************)
Seqs == 0..(MaxSeq + 1)

KeepingStep ==
    \/ \E id \in EventIds, s \in Seqs, x \in BOOLEAN : DB!StoreBegin(id, Genuine, s, x)
    \/ \E size \in DB!TotalSize, x \in BOOLEAN : DB!StoreStep(size, x)
    \/ \E id \in EventIds, s \in Seqs : DB!MoveToDLQ(id, Genuine, s)
    \/ \E ids \in SUBSET EventIds : DB!QuarantineCorrupt(ids)
    \/ \E id \in EventIds : DB!MarkFailed(id) \/ DB!BecomeDue(id) \/ DB!CorruptRow(id)
    \/ DB!Crash
    \/ UNCHANGED dbVars

(* The copy the forwarder works on is one of its batch.                    *)
LEMMA CurrentInBatch ==
    ASSUME fwd.batch \in SUBSET (EventIds \X Nat), fwd.batch # {}
    PROVE  /\ Current \in fwd.batch
           /\ Current[1] \in EventIds /\ Current[2] \in Nat
<1> DEFINE seqs == {e[2] : e \in fwd.batch}
<1>1. seqs \in SUBSET Nat /\ seqs # {}
  OBVIOUS
<1>2. PICK n \in seqs : \A m \in seqs : n <= m
  <2> HIDE DEF seqs
  <2> QED
    BY <1>1, DBP!SmallestNat, StoreAssumptions
<1>3. \E e \in fwd.batch : \A x \in fwd.batch : e[2] <= x[2]
  BY <1>2
<1>4. Current \in fwd.batch
  BY <1>3 DEF Current
<1> QED
  BY <1>4

LEMMA EngineUses ==
    ASSUME AgentInv, Engine
    PROVE  KeepingStep
<1>0. Cancelled(eng.ctx) \in BOOLEAN
  BY DEF AgentInv, Types, Cancelled
<1>1. CASE EngineRecv \/ EngineResult \/ EngineWait \/ EngineFindingDone \/ EngineExit
  BY <1>1 DEF EngineRecv, EngineResult, EngineWait, EngineFindingDone, EngineExit,
              KeepingStep
<1>2. eng.pc \notin {"recv", "off"} => eng.id \in EventIds
  BY PipelineAssumption DEF AgentInv, InHand
<1>3. eng.seq \in Seqs
  BY DEF AgentInv, Types, EngineType, Numbers, Seqs
<1>4. CASE EngineStore
  BY <1>0, <1>2, <1>3, <1>4 DEF EngineStore, KeepingStep
<1>5. CASE StoreProceeds
  BY <1>0, <1>5 DEF StoreProceeds, KeepingStep
<1>6. CASE EngineRecover
  BY <1>2, <1>3, <1>6 DEF EngineRecover, MoveApplied, NotApplied, KeepingStep
<1>7. CASE EngineDetect
  <2>1. eng.id \in Telemetry
    BY <1>7 DEF EngineDetect, AgentInv, InHand
  <2>2. FindingOf[eng.id] # NoEvent => FindingOf[eng.id] \in EventIds
    BY <2>1, PipelineAssumption
  <2>3. 0 \in Seqs
    BY PipelineAssumption DEF Seqs
  <2> QED
    BY <1>0, <1>7, <2>2, <2>3 DEF EngineDetect, KeepingStep
<1> QED
  BY <1>1, <1>4, <1>5, <1>6, <1>7 DEF Engine

LEMMA ForwarderUses ==
    ASSUME DBP!IInv, AgentInv, Forwarder
    PROVE  KeepingStep \/ \E id \in EventIds \cap accepted : DB!RemoveEvent(id)
<1>1. CASE FwdFetch
  <2> DEFINE ids == DB!PendingBatch(BatchLimit)
             corrupt == {id \in ids : events[id].content = Garbage}
  <2>1. ids \subseteq EventIds
    BY StoreFacts DEF DB!PendingBatch, DB!Due, DB!TypeOK, DB!TableOf
  <2>2. \E S \in SUBSET corrupt : DB!QuarantineCorrupt(S)
    BY <1>1 DEF FwdFetch
  <2> QED
    BY <2>1, <2>2 DEF KeepingStep
<1>2. CASE FwdPost \/ FwdExit
  BY <1>2 DEF FwdPost, FwdExit, KeepingStep
<1>3. fwd.pc \in {"send", "reply"} =>
        /\ Current \in allocated /\ Current[1] \in EventIds /\ Current[2] \in Nat
  BY CurrentInBatch DEF AgentInv, Types, ForwarderType, Copies
<1>4. fwd.pc \in {"send", "reply"} => Current[2] \in Seqs
  BY <1>3, StoreFacts, PipelineAssumption
  DEF AgentInv, Numbers, DB!SeqAllocatedOnce, DB!TypeOK, DB!AgentState, Seqs
<1>5. CASE FwdSend
  BY <1>3, <1>4, <1>5 DEF FwdSend, MoveApplied, NotApplied, KeepingStep
<1>6. CASE FwdReply
  <2>1. fwd.reply = "202" => Current[1] \in accepted
    BY <1>6 DEF FwdReply, AgentInv, Copies
  <2>2. \/ UNCHANGED dbVars
        \/ fwd.reply = "202" /\ DB!RemoveEvent(Current[1])
        \/ DB!MoveToDLQ(Current[1], Genuine, Current[2])
        \/ DB!MarkFailed(Current[1])
    BY <1>6 DEF FwdReply, NotApplied
  <2>3. Current[1] \in EventIds /\ Current[2] \in Seqs
    BY <1>3, <1>4, <1>6 DEF FwdReply
  <2> QED
    BY <2>1, <2>2, <2>3 DEF KeepingStep
<1> QED
  BY <1>1, <1>2, <1>5, <1>6 DEF Forwarder

(* Every step of the agent is a step of the store, or leaves it alone.     *)
LEMMA Uses ==
    ASSUME DBP!IInv, AgentInv, [Next]_vars
    PROVE  KeepingStep \/ \E id \in EventIds \cap accepted : DB!RemoveEvent(id)
<1>1. CASE \E id \in Telemetry : Produce(id)
  BY <1>1 DEF Produce, KeepingStep
<1>2. CASE Environment
  BY <1>2, PipelineAssumption DEF Environment, KeepingStep
<1>3. CASE Lifecycle
  BY <1>3 DEF Lifecycle, Signal, DrainExpires, CloseChannel, Exit, Crash, Restart, KeepingStep
<1>4. CASE (\E id \in EventIds : ServedLate(id)) \/ UNCHANGED vars
  BY <1>4 DEF ServedLate, vars, KeepingStep
<1> QED
  BY <1>1, <1>2, <1>3, <1>4, EngineUses, ForwarderUses DEF Next

LEMMA UsesAreSteps ==
    ASSUME KeepingStep \/ \E id \in EventIds \cap accepted : DB!RemoveEvent(id)
    PROVE  [DB!Next]_(DB!vars)
BY DEF KeepingStep, Seqs, DB!Next, DB!vars, dbVars

-----------------------------------------------------------------------------
(* What a step of the store does to the rows and to the ghosts.            *)
Leaves(id) == \/ id \in DOMAIN dlq'
              \/ /\ call.pc = "prune" /\ Sev[id] \notin DB!Critical
                 /\ \E p \in pruned' : p[1] = id

Grows ==
    /\ DOMAIN dlq \subseteq DOMAIN dlq' /\ pruned \subseteq pruned'
    /\ allocated \subseteq allocated'
    /\ \A p \in allocated' : p \in allocated \/ (~DB!Idle /\ p[1] = call.id)

LEMMA StoreStepEffects ==
    ASSUME DB!TypeOK, NEW size, NEW x, DB!StoreStep(size, x)
    PROVE  Grows /\ \A id \in DOMAIN events \ DOMAIN events' : Leaves(id)
<1>1. CASE DB!CheckQuota(size) \/ DB!Account(x) \/ DB!Verdict(size, x)
  BY <1>1 DEF DB!CheckQuota, DB!Account, DB!Verdict, DB!tables, DB!ghosts, Grows
<1>2. CASE DB!PruneRound(size, x)
  <2> DEFINE sev == DB!Prunable[call.tier]
             batch == DB!OldestBatch(sev)
  <2>1. /\ UNCHANGED <<dlq, allocated>> /\ call.pc = "prune"
        /\ \/ UNCHANGED <<events, pruned>>
           \/ /\ events' = DB!Drop(events, batch)
              /\ pruned' = pruned \cup {<<id, events[id].seq>> : id \in batch}
    BY <1>2 DEF DB!PruneRound
  <2>2. Grows
    BY <2>1 DEF Grows
  <2>3. ASSUME NEW id \in DOMAIN events \ DOMAIN events' PROVE Leaves(id)
    <3>1. id \in batch /\ <<id, events[id].seq>> \in pruned'
      BY <2>1, <2>3 DEF DB!Drop
    <3>2. Sev[id] = sev
      BY <3>1 DEF DB!OldestBatch
    <3>3. call.tier \in 1..3
      BY DEF DB!TypeOK, DB!Calls
    <3>4. sev \notin DB!Critical
      BY <3>3 DEF DB!Prunable, DB!Critical
    <3> QED
      BY <2>1, <3>1, <3>2, <3>4 DEF Leaves
  <2> QED
    BY <2>2, <2>3
<1>3. CASE DB!StoreTx(x)
  <2>1. /\ call.pc = "tx" /\ UNCHANGED <<dlq, pruned>>
        /\ \/ UNCHANGED <<events, allocated>>
           \/ /\ DOMAIN events \subseteq DOMAIN events'
              /\ allocated' = allocated \cup {<<call.id, agentState.nextSeq>>}
    BY <1>3 DEF DB!StoreTx, DB!Allocate, DB!Put, DB!tables
  <2> QED
    BY <2>1 DEF Grows, DB!Idle
<1> QED
  BY <1>1, <1>2, <1>3 DEF DB!StoreStep

LEMMA KeepingEffects ==
    ASSUME DB!TypeOK, KeepingStep
    PROVE  Grows /\ \A id \in DOMAIN events \ DOMAIN events' : Leaves(id)
<1>1. CASE \E size \in DB!TotalSize, x \in BOOLEAN : DB!StoreStep(size, x)
  BY <1>1, StoreStepEffects
<1>2. CASE \/ \E id \in EventIds, s \in Seqs, x \in BOOLEAN : DB!StoreBegin(id, Genuine, s, x)
           \/ DB!Crash \/ UNCHANGED dbVars
  BY <1>2 DEF DB!StoreBegin, DB!Crash, DB!tables, DB!ghosts, dbVars, Grows
<1>3. CASE \E id \in EventIds, s \in Seqs : DB!MoveToDLQ(id, Genuine, s)
  BY <1>3 DEF DB!MoveToDLQ, DB!MoveRaw, DB!Put, DB!Drop, DB!ghosts, Grows, Leaves
<1>4. CASE \E ids \in SUBSET EventIds : DB!QuarantineCorrupt(ids)
  BY <1>4 DEF DB!QuarantineCorrupt, DB!Drop, DB!ghosts, Grows, Leaves
<1>5. CASE \E id \in EventIds : DB!MarkFailed(id) \/ DB!BecomeDue(id) \/ DB!CorruptRow(id)
  <2>1. DOMAIN events' = DOMAIN events
    BY <1>5 DEF DB!MarkFailed, DB!BecomeDue, DB!CorruptRow, DB!TypeOK, DB!TableOf
  <2> QED
    BY <1>5, <2>1 DEF DB!MarkFailed, DB!BecomeDue, DB!CorruptRow, DB!ghosts, Grows
<1> QED
  BY <1>1, <1>2, <1>3, <1>4, <1>5 DEF KeepingStep

LEMMA Effects ==
    ASSUME DBP!IInv, AgentInv, [Next]_vars
    PROVE  /\ Grows
           /\ \A id \in DOMAIN events \ DOMAIN events' : id \in accepted \/ Leaves(id)
<1>1. CASE KeepingStep
  BY <1>1, KeepingEffects, StoreFacts
<1>2. CASE \E id \in EventIds \cap accepted : DB!RemoveEvent(id)
  BY <1>2 DEF DB!RemoveEvent, DB!Drop, DB!ghosts, Grows
<1> QED
  BY <1>1, <1>2, Uses

(* The server gets an event from a post, or from a request given up.       *)
LEMMA ReachesServer ==
    ASSUME [Next]_vars
    PROVE  \/ UNCHANGED net
           \/ FwdPost
           \/ \E id \in EventIds : ServedLate(id)
<1>1. CASE Forwarder
  BY <1>1 DEF Forwarder, FwdFetch, FwdSend, FwdReply, FwdExit
<1>2. CASE Engine
  BY <1>2 DEF Engine, EngineRecv, EngineStore, StoreProceeds, EngineResult, EngineWait,
              EngineRecover, EngineDetect, EngineFindingDone, EngineExit
<1>3. CASE Lifecycle
  BY <1>3 DEF Lifecycle, Signal, DrainExpires, CloseChannel, Exit, Crash, Restart
<1> QED
  BY <1>1, <1>2, <1>3 DEF Next, Produce, Environment, vars

LEMMA AcceptedGrows ==
    ASSUME [Next]_vars
    PROVE  accepted \subseteq accepted'
BY ReachesServer DEF FwdPost, ServedLate

(* What is safe stays safe.                                                *)
LEMMA SafeStays ==
    ASSUME DBP!IInv, AgentInv, [Next]_vars, NEW id, Safe(id)
    PROVE  Safe(id)'
BY Effects, AcceptedGrows DEF Safe, Stored, Pruned, Grows, Leaves

-----------------------------------------------------------------------------
(* Each conjunct is kept by every step: first the types, by goroutine.     *)
LEMMA ConstantTypes ==
    /\ EngineIdle \in EngineType /\ [EngineIdle EXCEPT !.pc = "off"] \in EngineType
    /\ ForwarderOff \in ForwarderType
    /\ [ForwarderOff EXCEPT !.pc = "idle"] \in ForwarderType
BY DEF EngineIdle, EngineType, ForwarderOff, ForwarderType, MaxAttempts

LEMMA EmptyChannel == << >> \in Seq(Telemetry) /\ Len(<< >>) <= ChanCap
<1>1. << >> \in Seq(Telemetry) /\ Len(<< >>) = 0
  OBVIOUS
<1> QED
  BY <1>1, PipelineAssumption

LEMMA EngineTypes ==
    ASSUME DBP!IInv, AgentInv, Engine
    PROVE  Types'
<1> DEFINE Rest == /\ UNCHANGED <<produced, starts, net>>
                   /\ phase' \in {phase, "down"} /\ expired' \in {expired, FALSE}
                   /\ fwd' \in {fwd, ForwarderOff}
<1>0. /\ Types /\ eng \in EngineType /\ fwd \in ForwarderType /\ call.seq \in Nat
      /\ (eng.pc \notin {"recv", "off"} => eng.id \in EventIds)
  BY StoreFacts, PipelineAssumption
  DEF AgentInv, Types, InHand, EngineType, ForwarderType, DB!TypeOK, DB!Calls
<1>1. SUFFICES /\ Rest /\ chan' \in Seq(Telemetry) /\ Len(chan') <= ChanCap
               /\ eng' \in EngineType /\ outcome' \in [EventIds -> Outcomes]
  BY <1>0, ConstantTypes DEF Types, EngineType, ForwarderType
<1>2. ASSUME NEW o \in Outcomes, Finish(o), eng.id \in EventIds
      PROVE  eng' \in EngineType /\ outcome' \in [EventIds -> Outcomes]
  BY <1>0, <1>2, ConstantTypes DEF Finish, Types
<1>3. CASE EngineRecv
  <2>1. Head(chan) \in Telemetry /\ chan' \in Seq(Telemetry) /\ Len(chan') <= ChanCap
    <3>1. chan \in Seq(Telemetry) /\ chan # << >> /\ chan' = Tail(chan)
      BY <1>0, <1>3 DEF EngineRecv, Types
    <3>2. Head(chan) \in Telemetry /\ Tail(chan) \in Seq(Telemetry)
          /\ Len(Tail(chan)) = Len(chan) - 1 /\ Len(chan) \in Nat
      BY <3>1
    <3>3. Len(chan) <= ChanCap /\ ChanCap \in Nat
      BY <1>0, PipelineAssumption DEF Types
    <3> QED
      BY <3>1, <3>2, <3>3
  <2>2. eng' \in EngineType
    <3>1. PICK c \in {"ctx", "drain"} :
            eng' = [pc |-> "store", id |-> Head(chan), seq |-> 0, attempts |-> 0, ctx |-> c]
      BY <1>3 DEF EngineRecv, EngineIdle
    <3>2. PICK t \in Telemetry : t = Head(chan)
      BY <2>1
    <3> QED
      BY <3>1, <3>2 DEF EngineType, MaxAttempts
  <2> QED
    BY <1>0, <1>3, <2>1, <2>2 DEF EngineRecv, Types
<1>4. CASE EngineStore
  BY <1>0, <1>4 DEF EngineStore, EngineType, Types, procVars
<1>5. CASE StoreProceeds
  BY <1>0, <1>5 DEF StoreProceeds, Types, procVars
<1>6. CASE EngineResult
  <2>1. Rest /\ chan' \in Seq(Telemetry) /\ Len(chan') <= ChanCap /\ eng.pc = "await"
    BY <1>0, <1>6 DEF EngineResult, Types, procVars
  <2>2. CASE call.err = "nil" /\ eng' = [eng EXCEPT !.pc = "detect"]
             /\ outcome' = [outcome EXCEPT ![eng.id] = "committed"]
    BY <1>0, <2>1, <2>2 DEF EngineType, Types, Outcomes
  <2>3. CASE /\ eng' = [eng EXCEPT !.pc = "store", !.ctx = "drain", !.seq = call.seq]
             /\ UNCHANGED outcome
    BY <1>0, <2>1, <2>3 DEF EngineType, Types
  <2>4. CASE Finish("failed_before_commit")
    BY <1>0, <1>2, <2>1, <2>4 DEF Outcomes
  <2>5. CASE /\ eng' = [eng EXCEPT !.attempts = @ + 1, !.seq = call.seq,
                         !.pc = IF eng.attempts + 1 >= MaxAttempts THEN "recover" ELSE "wait"]
             /\ UNCHANGED outcome
    <3>1. eng.attempts + 1 \in 0..MaxAttempts
      BY <1>0, <2>1 DEF AgentInv, InHand, EngineType, MaxAttempts
    <3> QED
      BY <1>0, <2>1, <2>5, <3>1 DEF EngineType, Types
  <2> QED
    BY <1>6, <2>2, <2>3, <2>4, <2>5 DEF EngineResult
<1>7. CASE EngineWait
  <2>1. Rest /\ chan' \in Seq(Telemetry) /\ Len(chan') <= ChanCap /\ eng.pc = "wait"
    BY <1>0, <1>7 DEF EngineWait, Types, procVars
  <2>2. CASE \E o \in {"dropped_logged", "dropped_unlogged"} : Finish(o)
    BY <1>0, <1>2, <2>1, <2>2 DEF Outcomes
  <2>3. CASE /\ eng' \in {[eng EXCEPT !.pc = "store", !.ctx = "drain"],
                          [eng EXCEPT !.pc = "store"]}
             /\ UNCHANGED outcome
    BY <1>0, <2>1, <2>3 DEF EngineType, Types
  <2> QED
    BY <1>7, <2>2, <2>3 DEF EngineWait
<1>8. CASE EngineRecover
  <2>1. PICK o \in {"dlq", "spilled", "fatal"} : Finish(o)
    BY <1>8 DEF EngineRecover
  <2>2. Rest /\ chan' \in {chan, << >>} /\ eng.pc = "recover"
    BY <1>8 DEF EngineRecover, Die
  <2>3. chan' \in Seq(Telemetry) /\ Len(chan') <= ChanCap
    BY <1>0, <2>2, EmptyChannel DEF Types
  <2> QED
    BY <1>0, <1>2, <2>1, <2>2, <2>3 DEF Outcomes
<1>9. CASE EngineDetect
  <2>1. eng' \in {EngineIdle, [eng EXCEPT !.pc = "finding"]}
    BY <1>9 DEF EngineDetect
  <2>2. eng' \in EngineType
    BY <1>0, <2>1, ConstantTypes DEF EngineType
  <2> QED
    BY <1>0, <1>9, <2>2 DEF EngineDetect, Types, procVars
<1>10. CASE EngineFindingDone \/ EngineExit
  BY <1>0, <1>10, ConstantTypes DEF EngineFindingDone, EngineExit, Types, procVars
<1> QED
  BY <1>3, <1>4, <1>5, <1>6, <1>7, <1>8, <1>9, <1>10 DEF Engine

LEMMA NextCopyType ==
    ASSUME Types, fwd' = NextCopy
    PROVE  fwd' \in ForwarderType
<1>1. fwd \in ForwarderType
  BY DEF Types, ForwarderType
<1> QED
  BY <1>1 DEF NextCopy, ForwarderType

LEMMA ForwarderTypes ==
    ASSUME DBP!IInv, AgentInv, Forwarder
    PROVE  Types'
<1>0. Types /\ fwd \in ForwarderType
  BY DEF AgentInv, Types
<1>1. UNCHANGED <<procVars, eng, outcome>>
  BY DEF Forwarder, FwdFetch, FwdSend, FwdPost, FwdReply, FwdExit
<1>2. SUFFICES /\ fwd' \in ForwarderType /\ accepted' \subseteq EventIds
               /\ transit' \subseteq EventIds \ accepted'
  BY <1>0, <1>1 DEF Types, ForwarderType, procVars
<1>3. CASE FwdFetch
  <2> DEFINE ids == DB!PendingBatch(BatchLimit)
             corrupt == {id \in ids : events[id].content = Garbage}
             copies == {<<id, events[id].seq>> : id \in ids \ corrupt}
  <2>1. copies \in SUBSET (EventIds \X Nat)
    <3>1. ASSUME NEW id \in ids PROVE id \in EventIds /\ events[id].seq \in Nat
      BY StoreFacts DEF DB!PendingBatch, DB!Due, DB!TypeOK, DB!TableOf, DB!EventRow
    <3> QED
      BY <3>1
  <2>2. fwd' \in {fwd, [fwd EXCEPT !.pc = "send", !.batch = copies]} /\ UNCHANGED net
    BY <1>3 DEF FwdFetch
  <2> HIDE DEF copies
  <2> QED
    BY <1>0, <2>1, <2>2 DEF ForwarderType, Types
<1>4. CASE FwdSend
  <2>1. (fwd' = NextCopy \/ fwd' = [fwd EXCEPT !.pc = "post"]) /\ UNCHANGED net
    BY <1>4 DEF FwdSend
  <2> QED
    BY <1>0, <2>1, NextCopyType DEF ForwarderType, Types
<1>5. CASE FwdPost
  <2>1. PICK r \in {"202", "400", "retry"} : fwd' = [fwd EXCEPT !.pc = "reply", !.reply = r]
    BY <1>5 DEF FwdPost
  <2>2. PICK c : c = Current[1]
    OBVIOUS
  <2>3. c \in EventIds
    BY <1>0, <1>5, <2>2, CurrentInBatch DEF FwdPost, AgentInv, Copies, ForwarderType
  <2>4. \/ accepted' = accepted \cup {c} /\ transit' = transit \ {c}
        \/ UNCHANGED net
        \/ c \notin accepted /\ transit' = transit \cup {c} /\ accepted' = accepted
    BY <1>5, <2>2 DEF FwdPost
  <2> QED
    BY <1>0, <2>1, <2>3, <2>4 DEF ForwarderType, Types
<1>6. CASE FwdReply
  BY <1>0, <1>6, NextCopyType DEF FwdReply, Types
<1>7. CASE FwdExit
  BY <1>0, <1>7, ConstantTypes DEF FwdExit, Types
<1> QED
  BY <1>3, <1>4, <1>5, <1>6, <1>7 DEF Forwarder

LEMMA TypesKept ==
    ASSUME DBP!IInv, AgentInv, [Next]_vars
    PROVE  Types'
<1>0. Types
  BY DEF AgentInv
<1>1. ASSUME NEW id \in Telemetry, Produce(id) PROVE Types'
  <2>1. Append(chan, id) \in Seq(Telemetry) /\ Len(Append(chan, id)) = Len(chan) + 1
        /\ Len(chan) \in Nat
    BY <1>0 DEF Types
  <2>2. Len(chan') <= ChanCap
    BY <1>1, <2>1, PipelineAssumption DEF Produce
  <2> QED
    BY <1>0, <1>1, <2>1, <2>2 DEF Produce, Types
<1>2. CASE Environment
  BY <1>0, <1>2 DEF Environment, Types, procVars
<1>3. CASE Signal \/ DrainExpires \/ CloseChannel
  BY <1>0, <1>3 DEF Signal, DrainExpires, CloseChannel, Types
<1>4. CASE Exit \/ Crash
  <2>1. /\ phase' = "down" /\ chan' = << >> /\ expired' = FALSE /\ fwd' = ForwarderOff
        /\ eng' = EngineIdle /\ UNCHANGED <<produced, starts, outcome, net>>
    BY <1>4 DEF Exit, Crash, Die
  <2>2. chan' \in Seq(Telemetry) /\ Len(chan') <= ChanCap
    BY <2>1, EmptyChannel
  <2>3. eng' \in EngineType'
    BY <2>1, ConstantTypes DEF EngineType
  <2>4. fwd' \in ForwarderType'
    BY <2>1, ConstantTypes DEF ForwarderType
  <2> QED
    BY <1>0, <2>1, <2>2, <2>3, <2>4 DEF Types
<1>5. CASE Restart
  <2>1. starts' \in 1..MaxStarts
    BY <1>0, <1>5, PipelineAssumption DEF Restart, Types
  <2> QED
    BY <1>0, <1>5, <2>1, ConstantTypes DEF Restart, Types, ForwarderType
<1>6. CASE UNCHANGED vars
  BY <1>0, <1>6 DEF vars, procVars, Types
<1>7. ASSUME NEW id \in EventIds, ServedLate(id) PROVE Types'
  BY <1>0, <1>7 DEF ServedLate, procVars, Types
<1> QED
  BY <1>1, <1>2, <1>3, <1>4, <1>5, <1>6, <1>7, EngineTypes, ForwarderTypes DEF Next, Lifecycle

-----------------------------------------------------------------------------
(* The store holds its mutex for one event from begin to return.           *)
LEMMA StoreStepCall ==
    ASSUME DB!TypeOK, NEW size, NEW x, DB!StoreStep(size, x)
    PROVE  /\ ~DB!Idle
           /\ call'.pc = "idle" \/ call'.id = call.id
           /\ call'.pc = "idle" /\ call'.err = "nil" => call.id \in DOMAIN events'
<1>0. call \in DB!Calls /\ DB!Failure(x) # "nil"
  BY DEF DB!TypeOK, DB!Failure
<1>1. ASSUME NEW err, NEW s, call' = DB!Returned(err, s), err # "nil"
      PROVE  call'.pc = "idle" /\ call'.err # "nil"
  BY <1>1 DEF DB!Returned
<1>2. ASSUME NEW pc \in {"prune", "tx", "verdict"}, DB!Goto(pc)
      PROVE  call'.pc # "idle" /\ call'.id = call.id
  BY <1>0, <1>2 DEF DB!Goto, DB!Calls
<1>3. CASE DB!CheckQuota(size)
  BY <1>1, <1>2, <1>3 DEF DB!CheckQuota, DB!Return, DB!Idle
<1>4. CASE DB!PruneRound(size, x)
  <2>1. CASE DB!Return(DB!Failure(x)) \/ DB!Goto("tx") \/ DB!Goto("verdict")
    BY <1>0, <1>1, <1>2, <1>4, <2>1 DEF DB!PruneRound, DB!Return, DB!Idle
  <2>2. CASE \/ call' = [call EXCEPT !.pc = "account",
                          !.rows = DB!Cardinality(DB!OldestBatch(DB!Prunable[call.tier]))]
             \/ call' = [call EXCEPT !.tier = @ + 1]
    BY <1>0, <1>4, <2>2 DEF DB!PruneRound, DB!Idle, DB!Calls
  <2> QED
    BY <1>4, <2>1, <2>2 DEF DB!PruneRound
<1>5. CASE DB!Account(x)
  <2>1. CASE call' = [call EXCEPT !.pc = "prune", !.rows = 0]
    BY <1>0, <1>5, <2>1 DEF DB!Account, DB!Idle, DB!Calls
  <2>2. CASE DB!Return(DB!Failure(x))
    BY <1>0, <1>1, <1>5, <2>2 DEF DB!Account, DB!Return, DB!Idle
  <2> QED
    BY <1>5, <2>1, <2>2 DEF DB!Account
<1>6. CASE DB!Verdict(size, x)
  <2>1. DB!Return(DB!Failure(x)) \/ DB!Goto("tx") \/ DB!Return("failed")
    BY <1>6 DEF DB!Verdict
  <2> QED
    BY <1>0, <1>1, <1>2, <1>6, <2>1 DEF DB!Verdict, DB!Return, DB!Idle
<1>7. CASE DB!StoreTx(x)
  <2>1. CASE DB!Allocate
    <3>1. call.id \in DOMAIN events'
      BY <2>1 DEF DB!Allocate, DB!Put
    <3>2. \E err, s : call' = DB!Returned(err, s)
      BY <1>7 DEF DB!StoreTx, DB!Return
    <3> QED
      BY <1>7, <3>1, <3>2 DEF DB!StoreTx, DB!Returned, DB!Idle
  <2>2. CASE ~DB!Allocate
    <3>1. \E err \in {DB!Failure(x), "uncertain"} : \E s : call' = DB!Returned(err, s)
      BY <1>7, <2>2 DEF DB!StoreTx, DB!Return
    <3> QED
      BY <1>0, <1>1, <1>7, <3>1 DEF DB!StoreTx, DB!Idle
  <2> QED
    BY <2>1, <2>2
<1> QED
  BY <1>3, <1>4, <1>5, <1>6, <1>7 DEF DB!StoreStep

LEMMA StoreBeginCall ==
    ASSUME NEW id, NEW s, NEW x, DB!StoreBegin(id, Genuine, s, x)
    PROVE  /\ DB!Idle /\ UNCHANGED <<events, dlq>>
           /\ call'.pc # "idle" => call'.id = id
           /\ call'.pc = "idle" /\ call'.err = "nil" => id \in DOMAIN events \cup DOMAIN dlq
BY DEF DB!StoreBegin, DB!AnswerFrom, DB!Returned, DB!Started, DB!Failure, DB!tables

LEMMA ForwarderFrame ==
    ASSUME Forwarder
    PROVE  UNCHANGED <<procVars, eng, outcome, call>>
BY DEF Forwarder, FwdFetch, FwdSend, FwdPost, FwdReply, FwdExit, MoveApplied, NotApplied,
       DB!QuarantineCorrupt, DB!MoveToDLQ, DB!RemoveEvent, DB!MarkFailed, dbVars

LEMMA EnvironmentFrame ==
    ASSUME Environment
    PROVE  UNCHANGED <<procVars, eng, fwd, outcome, net, call>>
BY DEF Environment, DB!BecomeDue, DB!CorruptRow

LEMMA ServedLateFrame ==
    ASSUME NEW id, ServedLate(id)
    PROVE  UNCHANGED <<dbVars, procVars, eng, fwd, outcome, call>>
BY DEF ServedLate, dbVars

LEMMA HeldByEngineKept ==
    ASSUME DBP!IInv, AgentInv, [Next]_vars
    PROVE  HeldByEngine'
<1>0. HeldByEngine /\ InHand /\ DB!TypeOK /\ eng \in EngineType
  BY StoreFacts DEF AgentInv, Types
<1>1. ASSUME UNCHANGED <<call, eng>> PROVE HeldByEngine'
  BY <1>0, <1>1, SafeStays DEF HeldByEngine, DB!Idle
<1>2. ASSUME call'.pc = "idle", eng'.pc # "await" PROVE HeldByEngine'
  BY <1>2 DEF HeldByEngine, DB!Idle
<1>3. CASE \/ \E id \in Telemetry : Produce(id)
           \/ Signal \/ DrainExpires \/ CloseChannel \/ Restart \/ UNCHANGED vars
  BY <1>1, <1>3 DEF Produce, Signal, DrainExpires, CloseChannel, Restart, vars, dbVars
<1>4. CASE Forwarder
  BY <1>1, <1>4, ForwarderFrame
<1>5. CASE Environment \/ \E id \in EventIds : ServedLate(id)
  BY <1>1, <1>5, EnvironmentFrame, ServedLateFrame
<1>6. CASE Exit \/ Crash
  <2>1. eng'.pc = "recv"
    BY <1>6 DEF Exit, Crash, EngineIdle
  <2>2. call'.pc = "idle"
    BY <1>0, <1>6 DEF Exit, Crash, DB!Crash, DB!Returned, HeldByEngine, DB!Idle, dbVars
  <2> QED
    BY <1>2, <2>1, <2>2
<1>7. CASE EngineRecv \/ EngineExit
  <2>1. call'.pc = "idle"
    BY <1>0, <1>7 DEF EngineRecv, EngineExit, HeldByEngine, DB!Idle, dbVars
  <2>2. eng'.pc \in {"store", "off"}
    BY <1>7 DEF EngineRecv, EngineExit, EngineIdle
  <2> QED
    BY <1>2, <2>1, <2>2
<1>8. CASE EngineStore
  <2>1. DB!StoreBegin(eng.id, Genuine, eng.seq, Cancelled(eng.ctx))
    BY <1>8 DEF EngineStore
  <2>2. eng'.pc = "await" /\ eng'.id = eng.id
    BY <1>0, <1>8 DEF EngineStore, EngineType
  <2>3. call'.pc # "idle" => call'.id = eng'.id
    BY <2>1, <2>2, StoreBeginCall
  <2>4. PICK t : t = eng.id
    OBVIOUS
  <2>5. call'.pc = "idle" /\ call'.err = "nil" => Safe(t)
    BY <2>1, <2>4, StoreBeginCall DEF Safe, Stored
  <2>6. call'.pc = "idle" /\ call'.err = "nil" => Safe(t)'
    BY <2>5, SafeStays
  <2> QED
    BY <2>2, <2>3, <2>4, <2>6 DEF HeldByEngine, DB!Idle, Safe, Stored, Pruned
<1>9. CASE StoreProceeds
  <2>1. /\ ~DB!Idle /\ eng' = eng
        /\ call'.pc = "idle" \/ call'.id = call.id
        /\ call'.pc = "idle" /\ call'.err = "nil" => call.id \in DOMAIN events'
    BY <1>0, <1>9, StoreStepCall DEF StoreProceeds
  <2> QED
    BY <1>0, <2>1 DEF HeldByEngine, DB!Idle, Safe, Stored
<1>10. CASE EngineResult \/ EngineWait \/ EngineRecover \/ EngineFindingDone
  <2>1. call'.pc = "idle"
    BY <1>0, <1>10
    DEF EngineResult, EngineWait, EngineRecover, EngineFindingDone, MoveApplied, NotApplied,
        DB!MoveToDLQ, HeldByEngine, DB!Idle, dbVars
  <2>2. eng'.pc \in {"detect", "store", "recv", "recover", "wait"}
    <3>1. ASSUME NEW o, Finish(o) PROVE eng'.pc = "recv"
      BY <3>1 DEF Finish, EngineIdle
    <3>2. CASE EngineResult
      BY <1>0, <3>1, <3>2 DEF EngineResult, EngineType
    <3>3. CASE EngineWait
      BY <1>0, <3>1, <3>3 DEF EngineWait, EngineType
    <3>4. CASE EngineRecover
      BY <3>1, <3>4 DEF EngineRecover
    <3>5. CASE EngineFindingDone
      BY <3>5 DEF EngineFindingDone, EngineIdle
    <3> QED
      BY <1>10, <3>2, <3>3, <3>4, <3>5
  <2> QED
    BY <1>2, <2>1, <2>2
<1>11. CASE EngineDetect
  <2>1. CASE eng' = EngineIdle /\ UNCHANGED dbVars
    <3>1. call'.pc = "idle" /\ eng'.pc = "recv"
      BY <1>0, <1>11, <2>1 DEF EngineDetect, HeldByEngine, DB!Idle, dbVars, EngineIdle
    <3> QED
      BY <1>2, <3>1
  <2>2. CASE /\ DB!StoreBegin(FindingOf[eng.id], Genuine, 0, Cancelled(eng.ctx))
             /\ eng' = [eng EXCEPT !.pc = "finding"]
    <3>1. eng'.pc = "finding" /\ eng'.id = eng.id
      BY <1>0, <2>2 DEF EngineType
    <3>2. call'.pc # "idle" => call'.id = FindingOf[eng.id]
      BY <2>2, StoreBeginCall
    <3> QED
      BY <3>1, <3>2 DEF HeldByEngine, DB!Idle
  <2> QED
    BY <1>11, <2>1, <2>2 DEF EngineDetect
<1> QED
  BY <1>3, <1>4, <1>5, <1>6, <1>7, <1>8, <1>9, <1>10, <1>11 DEF Next, Engine, Lifecycle

LEMMA InHandKept ==
    ASSUME DBP!IInv, AgentInv, [Next]_vars
    PROVE  InHand'
<1>0. InHand /\ eng \in EngineType
  BY DEF AgentInv, Types
<1>1. CASE UNCHANGED eng
  BY <1>0, <1>1 DEF InHand
<1>2. CASE eng'.pc \in {"recv", "off"}
  BY <1>2 DEF InHand
<1>3. CASE EngineRecv
  <2>1. Head(chan) \in Telemetry
    BY <1>3 DEF EngineRecv, AgentInv, Types
  <2>2. eng'.id = Head(chan) /\ eng'.attempts = 0
    BY <1>3 DEF EngineRecv, EngineIdle
  <2> QED
    BY <2>1, <2>2 DEF InHand, MaxAttempts
<1>4. ASSUME eng' \in EngineType, eng'.id = eng.id, eng.pc \notin {"recv", "off"},
             eng'.pc \in {"store", "await", "wait"} => eng'.attempts < MaxAttempts
      PROVE  InHand'
  BY <1>0, <1>4 DEF InHand
<1>5. CASE EngineStore
  BY <1>0, <1>5 DEF EngineStore, EngineType, InHand
<1>6. CASE EngineResult
  <2>1. CASE call.err = "nil" /\ eng' = [eng EXCEPT !.pc = "detect"]
    BY <1>0, <1>6, <2>1 DEF EngineResult, EngineType, InHand
  <2>2. CASE eng' = [eng EXCEPT !.pc = "store", !.ctx = "drain", !.seq = call.seq]
    BY <1>0, <1>6, <2>2 DEF EngineResult, EngineType, InHand
  <2>3. CASE Finish("failed_before_commit")
    BY <2>3 DEF Finish, EngineIdle, InHand
  <2>4. CASE eng' = [eng EXCEPT !.attempts = @ + 1, !.seq = call.seq,
                       !.pc = IF eng.attempts + 1 >= MaxAttempts THEN "recover" ELSE "wait"]
    BY <1>0, <1>6, <2>4 DEF EngineResult, EngineType, InHand, MaxAttempts
  <2> QED
    BY <1>6, <2>1, <2>2, <2>3, <2>4 DEF EngineResult
<1>7. CASE EngineWait
  <2>1. CASE \E o : Finish(o)
    BY <1>2, <2>1 DEF Finish, EngineIdle
  <2>2. CASE eng' \in {[eng EXCEPT !.pc = "store", !.ctx = "drain"], [eng EXCEPT !.pc = "store"]}
    BY <1>0, <1>7, <2>2 DEF EngineWait, EngineType, InHand
  <2> QED
    BY <1>7, <2>1, <2>2 DEF EngineWait
<1>8. CASE EngineRecover \/ EngineFindingDone \/ EngineExit
  BY <1>2, <1>8 DEF EngineRecover, EngineFindingDone, EngineExit, Finish, EngineIdle
<1>9. CASE EngineDetect
  <2>1. CASE eng' = EngineIdle
    BY <1>2, <2>1 DEF EngineIdle
  <2>2. CASE eng' = [eng EXCEPT !.pc = "finding"]
    BY <1>0, <1>9, <2>2 DEF EngineDetect, EngineType, InHand
  <2> QED
    BY <1>9, <2>1, <2>2 DEF EngineDetect
<1>10. CASE Exit \/ Crash
  BY <1>2, <1>10 DEF Exit, Crash, EngineIdle
<1>11. CASE \/ \E id \in Telemetry : Produce(id)
            \/ Signal \/ DrainExpires \/ CloseChannel \/ Restart \/ UNCHANGED vars
            \/ StoreProceeds
  BY <1>1, <1>11
  DEF Produce, Signal, DrainExpires, CloseChannel, Restart, vars, StoreProceeds
<1> QED
  BY <1>1, <1>3, <1>5, <1>6, <1>7, <1>8, <1>9, <1>10, <1>11, ForwarderFrame,
     EnvironmentFrame, ServedLateFrame DEF Next, Engine, Lifecycle

-----------------------------------------------------------------------------
(* ProcessEvent decides on the event in hand, truthfully, and lets go of   *)
(* it or hands it to detection.                                            *)
Decides(o) ==
    /\ Working
    /\ outcome' = [outcome EXCEPT ![eng.id] = o]
    /\ o = "committed" => Safe(eng.id)
    /\ o = "dlq" => eng.id \in DOMAIN dlq'
    /\ \/ eng'.pc = "recv"
       \/ o = "committed" /\ eng'.pc = "detect" /\ eng'.id = eng.id
    /\ chan' \in {chan, << >>} /\ UNCHANGED produced

(* Otherwise the engine goes on with the event in hand, or drops it.       *)
GoesOn ==
    /\ UNCHANGED outcome
    /\ chan' \in {chan, << >>} /\ UNCHANGED produced
    /\ \/ eng'.pc \in {"recv", "off"}
       \/ /\ eng'.id = eng.id
          /\ eng'.pc \in {"store", "await", "wait", "recover"} => Working
          /\ eng'.pc \in {"detect", "finding"} => eng.pc \in {"detect", "finding"}

LEMMA EngineOutcomes ==
    ASSUME DBP!IInv, AgentInv, Engine
    PROVE  EngineRecv \/ GoesOn \/ \E o \in Outcomes \ {"none"} : Decides(o)
<1>0. HeldByEngine /\ InHand /\ eng \in EngineType
  BY DEF AgentInv, Types
<1>1. CASE EngineStore \/ StoreProceeds
  BY <1>0, <1>1 DEF EngineStore, StoreProceeds, GoesOn, procVars, EngineType, Working
<1>2. ASSUME NEW o, Finish(o)
      PROVE  eng'.pc = "recv" /\ outcome' = [outcome EXCEPT ![eng.id] = o]
  BY <1>2 DEF Finish, EngineIdle
<1>3. CASE EngineResult
  <2>1. UNCHANGED <<chan, produced>> /\ Working
    BY <1>3 DEF EngineResult, procVars, Working
  <2>2. CASE /\ call.err = "nil" /\ eng' = [eng EXCEPT !.pc = "detect"]
             /\ outcome' = [outcome EXCEPT ![eng.id] = "committed"]
    <3>1. Safe(eng.id)
      BY <1>0, <1>3, <2>2 DEF EngineResult, HeldByEngine
    <3>2. eng'.pc = "detect" /\ eng'.id = eng.id
      BY <1>0, <2>2 DEF EngineType
    <3>3. Decides("committed")
      BY <2>1, <2>2, <3>1, <3>2 DEF Decides
    <3> QED
      BY <3>3 DEF Outcomes
  <2>3. CASE Finish("failed_before_commit")
    <3>1. Decides("failed_before_commit")
      BY <1>2, <2>1, <2>3 DEF Decides
    <3> QED
      BY <3>1 DEF Outcomes
  <2>4. CASE /\ UNCHANGED outcome
             /\ \/ eng' = [eng EXCEPT !.pc = "store", !.ctx = "drain", !.seq = call.seq]
                \/ eng' = [eng EXCEPT !.attempts = @ + 1, !.seq = call.seq,
                             !.pc = IF eng.attempts + 1 >= MaxAttempts THEN "recover"
                                    ELSE "wait"]
    <3>1. eng'.pc \in {"store", "recover", "wait"} /\ eng'.id = eng.id
      BY <1>0, <2>4 DEF EngineType
    <3> QED
      BY <2>1, <2>4, <3>1 DEF GoesOn
  <2> QED
    BY <1>3, <2>2, <2>3, <2>4 DEF EngineResult
<1>4. CASE EngineWait
  <2>1. UNCHANGED <<chan, produced>> /\ Working
    BY <1>4 DEF EngineWait, procVars, Working
  <2>2. ASSUME NEW o \in {"dropped_logged", "dropped_unlogged"}, Finish(o)
        PROVE  Decides(o) /\ o \in Outcomes \ {"none"}
    BY <1>2, <2>1, <2>2 DEF Decides, Outcomes
  <2>3. CASE /\ UNCHANGED outcome
             /\ eng' \in {[eng EXCEPT !.pc = "store", !.ctx = "drain"],
                          [eng EXCEPT !.pc = "store"]}
    <3>1. eng'.pc = "store" /\ eng'.id = eng.id
      BY <1>0, <2>3 DEF EngineType
    <3> QED
      BY <2>1, <2>3, <3>1 DEF GoesOn
  <2> QED
    BY <1>4, <2>2, <2>3 DEF EngineWait
<1>5. CASE EngineRecover
  <2>1. chan' \in {chan, << >>} /\ UNCHANGED produced /\ Working
    BY <1>5 DEF EngineRecover, Die, Working
  <2>2. MoveApplied(eng.id, eng.seq, eng.ctx) => eng.id \in DOMAIN dlq'
    BY DEF MoveApplied, DB!MoveToDLQ, DB!MoveRaw, DB!Put
  <2>3. PICK o \in {"dlq", "spilled", "fatal"} :
          Finish(o) /\ (o = "dlq" => eng.id \in DOMAIN dlq')
    BY <1>5, <2>2 DEF EngineRecover
  <2>4. Decides(o)
    BY <1>2, <2>1, <2>3 DEF Decides
  <2> QED
    BY <2>4 DEF Outcomes
<1>6. CASE EngineDetect
  <2>1. UNCHANGED <<chan, produced, outcome>>
    BY <1>6 DEF EngineDetect, procVars
  <2>2. eng'.pc = "recv" \/ (eng'.pc = "finding" /\ eng'.id = eng.id)
    BY <1>0, <1>6 DEF EngineDetect, EngineIdle, EngineType
  <2> QED
    BY <1>6, <2>1, <2>2 DEF GoesOn, EngineDetect
<1>7. CASE EngineFindingDone \/ EngineExit
  BY <1>7 DEF EngineFindingDone, EngineExit, EngineIdle, GoesOn, procVars
<1> QED
  BY <1>1, <1>3, <1>4, <1>5, <1>6, <1>7 DEF Engine

LEMMA EventFlow ==
    ASSUME DBP!IInv, AgentInv, [Next]_vars
    PROVE  \/ \E id \in Telemetry : Produce(id)
           \/ EngineRecv
           \/ GoesOn
           \/ \E o \in Outcomes \ {"none"} : Decides(o)
<1>1. CASE UNCHANGED <<eng, outcome, chan, produced>>
  BY <1>1 DEF GoesOn, Working
<1>2. CASE Forwarder \/ Environment \/ \E id \in EventIds : ServedLate(id)
  BY <1>1, <1>2, ForwarderFrame, EnvironmentFrame, ServedLateFrame DEF procVars
<1>3. CASE Signal \/ DrainExpires \/ CloseChannel \/ Restart \/ UNCHANGED vars
  BY <1>1, <1>3 DEF Signal, DrainExpires, CloseChannel, Restart, vars, procVars
<1>4. CASE Exit \/ Crash
  BY <1>4 DEF Exit, Crash, Die, EngineIdle, GoesOn
<1> QED
  BY <1>2, <1>3, <1>4, EngineOutcomes DEF Next, Lifecycle

LEMMA DecidedOnceKept ==
    ASSUME DBP!IInv, AgentInv, [Next]_vars
    PROVE  DecidedOnce'
<1>0. /\ DecidedOnce /\ InHand /\ chan \in Seq(Telemetry) /\ produced \subseteq Telemetry
      /\ outcome \in [EventIds -> Outcomes] /\ Telemetry \subseteq EventIds
  BY PipelineAssumption DEF AgentInv, Types
<1>1. ASSUME NEW id \in Telemetry, Produce(id) PROVE DecidedOnce'
  <2>1. /\ id \notin produced /\ chan' = Append(chan, id) /\ produced' = produced \cup {id}
        /\ UNCHANGED <<eng, outcome>>
    BY <1>1 DEF Produce
  <2>2. /\ Len(chan) \in Nat /\ Len(chan') = Len(chan) + 1
        /\ \A i \in 1..Len(chan) : chan'[i] = chan[i]
        /\ chan'[Len(chan) + 1] = id
    BY <1>0, <2>1
  <2>3. \A i \in 1..Len(chan') : (i \in 1..Len(chan) /\ chan'[i] = chan[i])
                                \/ (i = Len(chan) + 1 /\ chan'[i] = id)
    BY <2>2
  <2>4. \A i \in 1..Len(chan) : chan[i] # id
    BY <1>0, <2>1 DEF DecidedOnce
  <2>5. \A i \in 1..Len(chan') : chan'[i] \in produced' /\ outcome'[chan'[i]] = "none"
    BY <1>0, <2>1, <2>3 DEF DecidedOnce
  <2>6. \A i, j \in 1..Len(chan') : chan'[i] = chan'[j] => i = j
    BY <1>0, <2>3, <2>4 DEF DecidedOnce
  <2>7. Working => eng.id # id
    BY <1>0, <2>1 DEF DecidedOnce
  <2>8. Working => \A i \in 1..Len(chan') : chan'[i] # eng.id
    BY <1>0, <2>3, <2>7 DEF DecidedOnce
  <2> QED
    BY <1>0, <2>1, <2>5, <2>6, <2>8 DEF DecidedOnce, Working
<1>2. CASE EngineRecv
  <2>1. /\ chan # << >> /\ chan' = Tail(chan) /\ UNCHANGED <<produced, outcome>>
        /\ eng'.id = Head(chan) /\ eng'.pc = "store"
    BY <1>2 DEF EngineRecv, EngineIdle
  <2>2. /\ Len(chan) \in Nat \ {0} /\ Len(chan') = Len(chan) - 1 /\ Head(chan) = chan[1]
        /\ \A i \in 1..Len(chan') : chan'[i] = chan[i + 1]
    BY <1>0, <2>1
  <2>3. \A i \in 1..Len(chan') : i + 1 \in 1..Len(chan) /\ i + 1 # 1
    BY <2>2
  <2>4. \A i \in 1..Len(chan') : chan'[i] \in produced' /\ outcome'[chan'[i]] = "none"
    BY <1>0, <2>1, <2>2, <2>3 DEF DecidedOnce
  <2>5. \A i, j \in 1..Len(chan') : chan'[i] = chan'[j] => i = j
    <3> SUFFICES ASSUME NEW i \in 1..Len(chan'), NEW j \in 1..Len(chan'), chan'[i] = chan'[j]
                 PROVE  i = j
      OBVIOUS
    <3>1. i + 1 = j + 1
      BY <1>0, <2>2, <2>3 DEF DecidedOnce
    <3> QED
      BY <3>1
  <2>6. 1 \in 1..Len(chan)
    BY <2>2
  <2>7. chan[1] \in produced /\ outcome[chan[1]] = "none"
    BY <1>0, <2>6 DEF DecidedOnce
  <2>8. \A i \in 1..Len(chan') : chan'[i] # chan[1]
    BY <1>0, <2>2, <2>3, <2>6 DEF DecidedOnce
  <2> QED
    BY <1>0, <2>1, <2>2, <2>4, <2>5, <2>7, <2>8 DEF DecidedOnce, Working
<1>3. CASE GoesOn
  <2>1. CASE chan' = chan
    BY <1>0, <1>3, <2>1 DEF DecidedOnce, GoesOn, Working
  <2>2. CASE chan' = << >>
    <3>1. 1..Len(chan') = {}
      BY <2>2
    <3> QED
      BY <1>0, <1>3, <3>1 DEF DecidedOnce, GoesOn, Working
  <2> QED
    BY <1>3, <2>1, <2>2 DEF GoesOn
<1>4. ASSUME NEW o \in Outcomes \ {"none"}, Decides(o) PROVE DecidedOnce'
  <2>1. /\ Working /\ eng.id \in EventIds /\ eng.id \in produced
        /\ \A i \in 1..Len(chan) : chan[i] # eng.id
    BY <1>0, <1>4 DEF Decides, DecidedOnce
  <2>2. /\ outcome'[eng.id] = o
        /\ \A id \in EventIds : id # eng.id => outcome'[id] = outcome[id]
    BY <1>0, <1>4, <2>1 DEF Decides
  <2>3. \A i \in 1..Len(chan') : /\ i \in 1..Len(chan) /\ chan'[i] = chan[i]
                                 /\ chan[i] \in Telemetry
    <3>1. CASE chan' = chan
      BY <1>0, <3>1
    <3>2. CASE chan' = << >>
      BY <3>2
    <3> QED
      BY <1>4, <3>1, <3>2 DEF Decides
  <2>4. \A i \in 1..Len(chan') : chan'[i] \in produced' /\ outcome'[chan'[i]] = "none"
    BY <1>0, <1>4, <2>1, <2>2, <2>3 DEF Decides, DecidedOnce
  <2>5. \A i, j \in 1..Len(chan') : chan'[i] = chan'[j] => i = j
    BY <1>0, <2>3 DEF DecidedOnce
  <2>6. \A id \in Telemetry \ produced' : outcome'[id] = "none"
    BY <1>0, <1>4, <2>1, <2>2 DEF Decides, DecidedOnce
  <2>7. ~Working' /\ (eng'.pc \in {"detect", "finding"} => outcome'[eng'.id] = "committed")
    BY <1>4, <2>2 DEF Decides, Working
  <2> QED
    BY <2>4, <2>5, <2>6, <2>7 DEF DecidedOnce
<1> QED
  BY <1>1, <1>2, <1>3, <1>4, EventFlow

-----------------------------------------------------------------------------
(* A promise once true stays true: nothing that was decided is decided     *)
(* again.                                                                  *)
LEMMA OutcomeStays ==
    ASSUME DBP!IInv, AgentInv, [Next]_vars, NEW t \in Telemetry, outcome[t] # "none"
    PROVE  outcome'[t] = outcome[t]
<1>1. CASE UNCHANGED outcome
  BY <1>1
<1>2. ASSUME NEW o, Decides(o) PROVE outcome'[t] = outcome[t]
  <2>1. Working /\ outcome[eng.id] = "none"
    BY <1>2 DEF Decides, AgentInv, DecidedOnce
  <2> QED
    BY <1>2, <2>1, PipelineAssumption DEF Decides, AgentInv, Types
<1> QED
  BY <1>1, <1>2, EventFlow DEF Produce, EngineRecv, GoesOn

LEMMA NoLossKept ==
    ASSUME DBP!IInv, AgentInv, [Next]_vars
    PROVE  NoLossAfterCommit'
<1> SUFFICES ASSUME NEW t \in Telemetry
             PROVE  /\ outcome'[t] = "committed" => Safe(t)'
                    /\ outcome'[t] = "dlq" => t \in DOMAIN dlq'
  BY DEF NoLossAfterCommit, Safe, Stored, Pruned
<1>1. CASE outcome'[t] = outcome[t]
  <2>1. /\ outcome[t] = "committed" => Safe(t)
        /\ outcome[t] = "dlq" => t \in DOMAIN dlq
    BY DEF AgentInv, NoLossAfterCommit, Safe
  <2>2. DOMAIN dlq \subseteq DOMAIN dlq'
    BY Effects DEF Grows
  <2> QED
    BY <1>1, <2>1, <2>2, SafeStays
<1>2. CASE outcome'[t] # outcome[t]
  <2>1. PICK o : Decides(o)
    BY <1>2, EventFlow DEF Produce, EngineRecv, GoesOn
  <2>2. t = eng.id /\ outcome'[t] = o
    BY <1>2, <2>1, PipelineAssumption DEF Decides, AgentInv, Types
  <2>3. /\ o = "committed" => Safe(t)
        /\ o = "dlq" => t \in DOMAIN dlq'
    BY <2>1, <2>2 DEF Decides
  <2> QED
    BY <2>2, <2>3, SafeStays
<1> QED
  BY <1>1, <1>2

LEMMA NothingPrecedesKept ==
    ASSUME DBP!IInv, AgentInv, [Next]_vars
    PROVE  NothingPrecedesItsCommit'
<1>0. /\ NothingPrecedesItsCommit /\ HeldByEngine /\ InHand /\ DecidedOnce /\ Copies /\ Types
      /\ InTransit /\ allocated \subseteq allocated'
      /\ \A p \in allocated' : p \in allocated \/ (~DB!Idle /\ p[1] = call.id)
  BY Effects DEF AgentInv, Grows
<1>1. ASSUME NEW id \in accepted' PROVE \E p \in allocated' : p[1] = id
  <2>1. CASE id \in accepted
    BY <1>0, <2>1 DEF NothingPrecedesItsCommit, Committed
  <2>2. CASE id \notin accepted
    <3>1. CASE FwdPost /\ id = Current[1]
      <4>1. Current \in fwd.batch
        BY <1>0, <3>1, CurrentInBatch DEF FwdPost, Copies, Types, ForwarderType
      <4> QED
        BY <1>0, <3>1, <4>1 DEF Copies
    <3>2. CASE id \in transit
      BY <1>0, <3>2 DEF InTransit, Committed
    <3> QED
      BY <1>1, <2>2, <3>1, <3>2, ReachesServer DEF FwdPost, ServedLate
  <2> QED
    BY <2>1, <2>2
<1>2. ASSUME NEW t \in Telemetry, FindingOf[t] # NoEvent,
             NEW p \in allocated', p[1] = FindingOf[t]
      PROVE  outcome'[t] = "committed"
  <2>1. CASE p \in allocated
    <3>1. outcome[t] = "committed"
      BY <1>0, <1>2, <2>1 DEF NothingPrecedesItsCommit, Committed
    <3> QED
      BY <3>1, OutcomeStays
  <2>2. CASE ~DB!Idle /\ call.id = FindingOf[t]
    <3>1. FindingOf[t] \notin Telemetry
      BY <1>2, PipelineAssumption
    <3>2. eng.pc = "finding" /\ FindingOf[eng.id] = FindingOf[t] /\ eng.id \in Telemetry
      BY <1>0, <2>2, <3>1 DEF HeldByEngine, InHand
    <3>3. eng.id = t
      BY <1>2, <3>2, PipelineAssumption
    <3>4. outcome[t] = "committed"
      BY <1>0, <3>2, <3>3 DEF DecidedOnce
    <3> QED
      BY <3>4, OutcomeStays
  <2> QED
    BY <1>0, <1>2, <2>1, <2>2
<1> QED
  BY <1>1, <1>2 DEF NothingPrecedesItsCommit, Committed

-----------------------------------------------------------------------------
LEMMA CopiesStay ==
    ASSUME DBP!IInv, AgentInv, [Next]_vars,
           \/ UNCHANGED fwd
           \/ fwd'.batch = {} /\ fwd'.pc \in {"off", "idle"}
    PROVE  Copies'
<1>1. Copies /\ allocated \subseteq allocated' /\ accepted \subseteq accepted'
  BY Effects, AcceptedGrows DEF AgentInv, Grows
<1>2. CASE UNCHANGED fwd
  BY <1>1, <1>2 DEF Copies, Current
<1>3. CASE fwd'.batch = {} /\ fwd'.pc \in {"off", "idle"}
  BY <1>3 DEF Copies
<1> QED
  BY <1>2, <1>3

LEMMA NextCopyKeeps ==
    ASSUME DBP!IInv, AgentInv, [Next]_vars, fwd.pc \in {"send", "reply"}, fwd' = NextCopy
    PROVE  Copies'
<1>1. Copies /\ allocated \subseteq allocated' /\ fwd \in ForwarderType
  BY Effects DEF AgentInv, Grows, Types, ForwarderType
<1>2. Current \in fwd.batch
  BY <1>1, CurrentInBatch DEF Copies, ForwarderType
<1>3. PICK c : c = Current
  OBVIOUS
<1>4. /\ fwd'.batch = fwd.batch \ {c}
      /\ fwd'.pc = IF fwd.batch = {c} THEN "idle" ELSE "send"
  BY <1>1, <1>3 DEF NextCopy, ForwarderType
<1>5. fwd.batch # {c} => fwd'.batch # {}
  BY <1>2, <1>3, <1>4
<1> QED
  BY <1>1, <1>4, <1>5 DEF Copies

LEMMA CopiesKept ==
    ASSUME DBP!IInv, AgentInv, [Next]_vars
    PROVE  Copies'
<1>0. Types /\ Copies /\ fwd \in ForwarderType /\ allocated \subseteq allocated'
  BY Effects DEF AgentInv, Types, ForwarderType, Grows
<1>1. CASE FwdFetch
  <2> DEFINE ids == DB!PendingBatch(BatchLimit)
             corrupt == {id \in ids : events[id].content = Garbage}
             copies == {<<id, events[id].seq>> : id \in ids \ corrupt}
  <2>1. copies \subseteq allocated
    BY StoreFacts DEF DB!PendingBatch, DB!Due, DB!SeqAllocatedOnce
  <2>2. \/ UNCHANGED fwd
        \/ ids # corrupt /\ fwd' = [fwd EXCEPT !.pc = "send", !.batch = copies]
    BY <1>1 DEF FwdFetch
  <2>3. ids # corrupt => copies # {}
    BY DEF copies
  <2> HIDE DEF copies, corrupt, ids
  <2>4. CASE fwd' = [fwd EXCEPT !.pc = "send", !.batch = copies] /\ copies # {}
    <3>1. fwd'.pc = "send" /\ fwd'.batch = copies
      BY <1>0, <2>4 DEF ForwarderType
    <3> QED
      BY <1>0, <2>1, <2>4, <3>1 DEF Copies
  <2> QED
    BY <2>2, <2>3, <2>4, CopiesStay
<1>2. CASE FwdSend
  <2>1. CASE fwd' = NextCopy
    BY <1>2, <2>1, NextCopyKeeps DEF FwdSend
  <2>2. CASE fwd' = [fwd EXCEPT !.pc = "post"]
    <3>1. fwd'.pc = "post" /\ fwd'.batch = fwd.batch
      BY <1>0, <2>2 DEF ForwarderType
    <3> QED
      BY <1>0, <1>2, <3>1 DEF FwdSend, Copies
  <2> QED
    BY <1>2, <2>1, <2>2 DEF FwdSend
<1>3. CASE FwdPost
  <2>1. PICK r \in {"202", "400", "retry"} :
          /\ fwd' = [fwd EXCEPT !.pc = "reply", !.reply = r]
          /\ r = "202" => Current[1] \in accepted'
    BY <1>3 DEF FwdPost
  <2>2. fwd'.batch = fwd.batch /\ fwd'.pc = "reply" /\ fwd'.reply = r
    BY <1>0, <2>1 DEF ForwarderType
  <2>3. Current' = Current
    BY <2>2 DEF Current
  <2> QED
    BY <1>0, <1>3, <2>1, <2>2, <2>3 DEF Copies, FwdPost
<1>4. CASE FwdReply
  BY <1>4, NextCopyKeeps DEF FwdReply
<1>5. CASE FwdExit \/ Exit \/ Crash \/ Restart
  <2>1. fwd'.batch = {} /\ fwd'.pc \in {"off", "idle"}
    BY <1>5 DEF FwdExit, Exit, Crash, Restart, Die, ForwarderOff
  <2> QED
    BY <2>1, CopiesStay
<1>6. CASE EngineRecover
  <2>1. \/ UNCHANGED fwd
        \/ fwd'.batch = {} /\ fwd'.pc = "off"
    BY <1>6 DEF EngineRecover, Die, ForwarderOff
  <2> QED
    BY <2>1, CopiesStay
<1>7. CASE UNCHANGED fwd
  BY <1>7, CopiesStay
<1>8. CASE \/ \E id \in Telemetry : Produce(id)
           \/ \E id \in EventIds : ServedLate(id)
           \/ EngineRecv \/ EngineStore \/ StoreProceeds \/ EngineResult \/ EngineWait
           \/ EngineDetect \/ EngineFindingDone \/ EngineExit
           \/ Environment \/ Signal \/ DrainExpires \/ CloseChannel \/ UNCHANGED vars
  BY <1>7, <1>8
  DEF Produce, ServedLate, EngineRecv, EngineStore, StoreProceeds, EngineResult, EngineWait,
      EngineDetect, EngineFindingDone, EngineExit, Environment, Signal, DrainExpires,
      CloseChannel, vars
<1> QED
  BY <1>1, <1>2, <1>3, <1>4, <1>5, <1>6, <1>8 DEF Next, Engine, Forwarder, Lifecycle

LEMMA InTransitKept ==
    ASSUME DBP!IInv, AgentInv, [Next]_vars
    PROVE  InTransit'
<1>0. Types /\ Copies /\ InTransit /\ allocated \subseteq allocated'
  BY Effects DEF AgentInv, Grows
<1> SUFFICES ASSUME NEW id \in transit' PROVE \E p \in allocated' : p[1] = id
  BY DEF InTransit, Committed
<1>1. CASE id \in transit
  BY <1>0, <1>1 DEF InTransit, Committed
<1>2. CASE FwdPost /\ id = Current[1]
  <2>1. Current \in fwd.batch
    BY <1>0, <1>2, CurrentInBatch DEF FwdPost, Copies, Types, ForwarderType
  <2> QED
    BY <1>0, <1>2, <2>1 DEF Copies
<1> QED
  BY <1>1, <1>2, ReachesServer DEF FwdPost, ServedLate

-----------------------------------------------------------------------------
(* The numbers stay within what the store has allocated.                   *)
StoreNumbers ==
    /\ agentState.nextSeq <= MaxSeq + 1 /\ call.seq <= MaxSeq + 1
    /\ \A id \in DOMAIN dlq : dlq[id].seq <= MaxSeq + 1

LEMMA StoreStepNumbers ==
    ASSUME DB!TypeOK, StoreNumbers, NEW size, NEW x, DB!StoreStep(size, x)
    PROVE  StoreNumbers'
<1>0. /\ call \in DB!Calls /\ call.seq \in Nat /\ agentState \in DB!AgentState
      /\ agentState.nextSeq \in Nat /\ UNCHANGED dlq
  BY DEF DB!TypeOK, DB!Calls, DB!AgentState, DB!StoreStep, DB!CheckQuota, DB!PruneRound,
         DB!Account, DB!Verdict, DB!StoreTx, DB!tables
<1>1. SUFFICES agentState'.nextSeq <= MaxSeq + 1 /\ call'.seq <= MaxSeq + 1
  BY <1>0 DEF StoreNumbers
<1>2. ASSUME NEW err, DB!Return(err) PROVE call'.seq = call.seq
  BY <1>2 DEF DB!Return, DB!Returned
<1>3. ASSUME NEW pc, DB!Goto(pc) PROVE call'.seq = call.seq
  BY <1>0, <1>3 DEF DB!Goto, DB!Calls
<1>4. CASE DB!CheckQuota(size)
  <2>1. agentState' = agentState /\ call'.seq = call.seq
    BY <1>2, <1>3, <1>4 DEF DB!CheckQuota, DB!tables
  <2> QED
    BY <2>1 DEF StoreNumbers
<1>5. CASE DB!PruneRound(size, x)
  <2>1. agentState' = agentState
    BY <1>5 DEF DB!PruneRound
  <2>2. call'.seq = call.seq
    BY <1>0, <1>2, <1>3, <1>5 DEF DB!PruneRound, DB!Calls
  <2> QED
    BY <2>1, <2>2 DEF StoreNumbers
<1>6. CASE DB!Account(x)
  <2>1. call'.seq = call.seq
    BY <1>0, <1>2, <1>6 DEF DB!Account, DB!Calls
  <2>2. agentState'.nextSeq = agentState.nextSeq
    BY <1>0, <1>6 DEF DB!Account, DB!AgentState
  <2> QED
    BY <2>1, <2>2 DEF StoreNumbers
<1>7. CASE DB!Verdict(size, x)
  <2>1. call'.seq = call.seq
    BY <1>2, <1>3, <1>7 DEF DB!Verdict
  <2>2. agentState'.nextSeq = agentState.nextSeq
    BY <1>0, <1>7 DEF DB!Verdict, DB!AgentState
  <2> QED
    BY <2>1, <2>2 DEF StoreNumbers
<1>8. CASE DB!StoreTx(x)
  <2>1. call'.seq \in {call.seq, agentState.nextSeq}
    BY <1>8 DEF DB!StoreTx, DB!Return, DB!Returned
  <2>2. CASE agentState' = agentState
    BY <2>1, <2>2 DEF StoreNumbers
  <2>3. CASE DB!Allocate
    <3>1. agentState.nextSeq <= MaxSeq /\ agentState'.nextSeq = agentState.nextSeq + 1
      BY <1>0, <2>3 DEF DB!Allocate, DB!AgentState
    <3>2. agentState'.nextSeq <= MaxSeq + 1
      BY <1>0, <3>1, PipelineAssumption
    <3> QED
      BY <2>1, <3>2 DEF StoreNumbers
  <2> QED
    BY <1>8, <2>2, <2>3 DEF DB!StoreTx, DB!tables
<1> QED
  BY <1>4, <1>5, <1>6, <1>7, <1>8 DEF DB!StoreStep

LEMMA RowNumbers ==
    ASSUME DBP!IInv, StoreNumbers, NEW id \in DOMAIN events
    PROVE  events[id].seq <= MaxSeq + 1
<1>1. /\ <<id, events[id].seq>> \in allocated
      /\ events[id].seq < agentState.nextSeq
      /\ events[id].seq \in Nat /\ agentState.nextSeq \in Nat
  BY StoreFacts DEF DB!SeqAllocatedOnce, DB!TypeOK, DB!AgentState
<1> QED
  BY <1>1, PipelineAssumption DEF StoreNumbers

LEMMA KeepingNumbers ==
    ASSUME DBP!IInv, StoreNumbers, KeepingStep
    PROVE  StoreNumbers'
<1>0. DB!TypeOK
  BY StoreFacts
<1>1. ASSUME NEW id \in EventIds, NEW s \in Seqs, NEW x \in BOOLEAN,
             DB!StoreBegin(id, Genuine, s, x)
      PROVE  StoreNumbers'
  <2>1. UNCHANGED <<dlq, agentState>>
    BY <1>1 DEF DB!StoreBegin, DB!tables
  <2>2. \/ call'.seq = s
        \/ id \in DOMAIN events /\ call'.seq = events[id].seq
        \/ id \in DOMAIN dlq /\ call'.seq = dlq[id].seq
    BY <1>1 DEF DB!StoreBegin, DB!AnswerFrom, DB!Returned, DB!Started
  <2>3. call'.seq <= MaxSeq + 1
    BY <2>2, RowNumbers DEF StoreNumbers, Seqs
  <2> QED
    BY <2>1, <2>3 DEF StoreNumbers
<1>2. CASE \E size \in DB!TotalSize, x \in BOOLEAN : DB!StoreStep(size, x)
  BY <1>0, <1>2, StoreStepNumbers
<1>3. ASSUME NEW id \in EventIds, NEW s \in Seqs, DB!MoveToDLQ(id, Genuine, s)
      PROVE  StoreNumbers'
  <2>1. UNCHANGED <<agentState, call>>
    BY <1>3 DEF DB!MoveToDLQ
  <2>2. ASSUME NEW y \in DOMAIN dlq' PROVE dlq'[y].seq <= MaxSeq + 1
    <3>1. dlq' = DB!Put(dlq, id, [content |-> Genuine, seq |-> s])
      BY <1>3 DEF DB!MoveToDLQ, DB!MoveRaw
    <3>2. CASE y = id
      BY <3>1, <3>2 DEF DB!Put, Seqs
    <3>3. CASE y # id
      BY <2>2, <3>1, <3>3 DEF DB!Put, StoreNumbers
    <3> QED
      BY <3>2, <3>3
  <2> QED
    BY <2>1, <2>2 DEF StoreNumbers
<1>4. ASSUME NEW ids \in SUBSET EventIds, DB!QuarantineCorrupt(ids)
      PROVE  StoreNumbers'
  <2>1. UNCHANGED <<agentState, call>> /\ ids \subseteq DOMAIN events
    BY <1>4 DEF DB!QuarantineCorrupt, DB!Due
  <2>2. ASSUME NEW y \in DOMAIN dlq' PROVE dlq'[y].seq <= MaxSeq + 1
    <3>1. CASE y \in ids
      <4>1. dlq'[y].seq = events[y].seq
        BY <1>4, <3>1 DEF DB!QuarantineCorrupt
      <4> QED
        BY <2>1, <3>1, <4>1, RowNumbers
    <3>2. CASE y \notin ids
      BY <1>4, <2>2, <3>2 DEF DB!QuarantineCorrupt, StoreNumbers
    <3> QED
      BY <3>1, <3>2
  <2> QED
    BY <2>1, <2>2 DEF StoreNumbers
<1>5. CASE \E id \in EventIds : DB!MarkFailed(id) \/ DB!BecomeDue(id) \/ DB!CorruptRow(id)
  BY <1>5 DEF DB!MarkFailed, DB!BecomeDue, DB!CorruptRow, StoreNumbers
<1>6. CASE DB!Crash
  <2>1. UNCHANGED <<dlq, agentState>> /\ call'.seq = 0
    BY <1>6 DEF DB!Crash, DB!Returned, DB!tables
  <2> QED
    BY <2>1, PipelineAssumption DEF StoreNumbers
<1>7. CASE UNCHANGED dbVars
  BY <1>7 DEF dbVars, StoreNumbers
<1> QED
  BY <1>1, <1>2, <1>3, <1>4, <1>5, <1>6, <1>7 DEF KeepingStep

LEMMA EngineNumbers ==
    ASSUME AgentInv, [Next]_vars
    PROVE  eng'.seq \in {eng.seq, call.seq, 0}
<1>0. eng \in EngineType
  BY DEF AgentInv, Types
<1>1. CASE UNCHANGED eng
  BY <1>1
<1>2. ASSUME NEW o, Finish(o) PROVE eng'.seq = 0
  BY <1>2 DEF Finish, EngineIdle
<1>3. CASE EngineRecv \/ EngineFindingDone \/ EngineExit \/ Exit \/ Crash
  <2>1. CASE EngineRecv
    BY <2>1 DEF EngineRecv, EngineIdle
  <2>2. CASE EngineFindingDone \/ EngineExit \/ Exit \/ Crash
    BY <2>2 DEF EngineFindingDone, EngineExit, Exit, Crash, EngineIdle
  <2> QED
    BY <1>3, <2>1, <2>2
<1>4. CASE EngineStore
  BY <1>0, <1>4 DEF EngineStore, EngineType
<1>5. CASE EngineResult
  BY <1>0, <1>2, <1>5 DEF EngineResult, EngineType
<1>6. CASE EngineWait
  BY <1>0, <1>2, <1>6 DEF EngineWait, EngineType
<1>7. CASE EngineRecover
  BY <1>2, <1>7 DEF EngineRecover
<1>8. CASE EngineDetect
  BY <1>0, <1>8 DEF EngineDetect, EngineIdle, EngineType
<1>9. CASE \/ \E id \in Telemetry : Produce(id)
           \/ StoreProceeds \/ Signal \/ DrainExpires \/ CloseChannel \/ Restart
           \/ UNCHANGED vars
  BY <1>1, <1>9
  DEF Produce, StoreProceeds, Signal, DrainExpires, CloseChannel, Restart, vars
<1> QED
  BY <1>1, <1>3, <1>4, <1>5, <1>6, <1>7, <1>8, <1>9, ForwarderFrame, EnvironmentFrame,
     ServedLateFrame
  DEF Next, Engine, Lifecycle

LEMMA NumbersKept ==
    ASSUME DBP!IInv, AgentInv, [Next]_vars
    PROVE  Numbers'
<1>1. StoreNumbers
  BY DEF AgentInv, Numbers, StoreNumbers
<1>2. StoreNumbers'
  <2>1. CASE KeepingStep
    BY <1>1, <2>1, KeepingNumbers
  <2>2. CASE \E id \in EventIds \cap accepted : DB!RemoveEvent(id)
    BY <1>1, <2>2 DEF DB!RemoveEvent, StoreNumbers
  <2> QED
    BY <2>1, <2>2, Uses
<1>3. eng'.seq <= MaxSeq + 1
  BY EngineNumbers, PipelineAssumption DEF AgentInv, Numbers
<1> QED
  BY <1>2, <1>3 DEF Numbers, StoreNumbers

-----------------------------------------------------------------------------
LEMMA InitEdgeInv == Init => EdgeInv
<1> SUFFICES ASSUME Init PROVE EdgeInv
  OBVIOUS
<1>1. DBP!IInv
  BY StoreInit DEF Init
<1>2. /\ call.pc = "idle" /\ call.seq = 0 /\ agentState.nextSeq = 1
      /\ DOMAIN dlq = {} /\ allocated = {}
  BY DEF Init, DB!Init, DB!Returned
<1>3. /\ eng \in EngineType /\ eng.pc = "recv" /\ eng.seq = 0
      /\ fwd \in ForwarderType /\ fwd.pc = "idle" /\ fwd.batch = {}
  BY ConstantTypes DEF Init, EngineIdle, ForwarderOff
<1>4. Types
  <2>1. chan \in Seq(Telemetry) /\ Len(chan) <= ChanCap
    BY EmptyChannel DEF Init
  <2>2. outcome \in [EventIds -> Outcomes] /\ starts \in 1..MaxStarts
    BY PipelineAssumption DEF Init, Outcomes
  <2> QED
    BY <1>3, <2>1, <2>2 DEF Init, Types, EngineType, ForwarderType
<1>5. HeldByEngine /\ InHand
  BY <1>2, <1>3 DEF HeldByEngine, InHand, DB!Idle
<1>6. DecidedOnce
  <2>1. 1..Len(chan) = {}
    BY DEF Init
  <2> QED
    BY <1>3, <2>1, PipelineAssumption DEF Init, DecidedOnce, Working
<1>7. Copies /\ InTransit
  BY <1>3 DEF Init, Copies, InTransit
<1>8. Numbers
  BY <1>2, <1>3, PipelineAssumption DEF Numbers
<1>9. NoLossAfterCommit /\ NothingPrecedesItsCommit
  BY <1>2, PipelineAssumption DEF Init, NoLossAfterCommit, NothingPrecedesItsCommit, Committed
<1> QED
  BY <1>1, <1>4, <1>5, <1>6, <1>7, <1>8, <1>9 DEF EdgeInv, AgentInv

LEMMA NextEdgeInv == EdgeInv /\ [Next]_vars => EdgeInv'
<1> SUFFICES ASSUME DBP!IInv, AgentInv, [Next]_vars PROVE EdgeInv'
  BY DEF EdgeInv
<1>1. DBP!IInv'
  BY Uses, UsesAreSteps, StoreKeepsItsInvariant
<1>2. Types' /\ HeldByEngine' /\ InHand' /\ DecidedOnce' /\ Copies' /\ InTransit'
      /\ Numbers'
  BY TypesKept, HeldByEngineKept, InHandKept, DecidedOnceKept, CopiesKept, InTransitKept,
     NumbersKept
<1>3. NoLossAfterCommit' /\ NothingPrecedesItsCommit'
  BY NoLossKept, NothingPrecedesKept
<1> QED
  BY <1>1, <1>2, <1>3 DEF EdgeInv, AgentInv

LEMMA EdgeInvariant == Spec => []EdgeInv
BY InitEdgeInv, NextEdgeInv, PTL DEF Spec

(***************************************************************************)
(* The agent is well-formed in every reachable state: store, channel,      *)
(* engine and forwarder (main.go, engine.go, forwarder.go).                *)
(***************************************************************************)
THEOREM AgentTyped == Spec => []TypeOK
<1>1. EdgeInv => TypeOK
  BY StoreFacts DEF EdgeInv, AgentInv, Types, EngineType, ForwarderType, TypeOK
<1> QED
  BY <1>1, EdgeInvariant, PTL

(***************************************************************************)
(* What ProcessEvent reported COMMITTED is stored, accepted by the server  *)
(* or was prunable and pruned, through every retry, late reply, shutdown,  *)
(* crash and restart; what it reported RECOVERED_DLQ stays there.          *)
(***************************************************************************)
THEOREM NothingLostAfterCommit == Spec => []NoLossAfterCommit
<1>1. EdgeInv => NoLossAfterCommit
  BY DEF EdgeInv, AgentInv
<1> QED
  BY <1>1, EdgeInvariant, PTL

(***************************************************************************)
(* The server has nothing that was not committed locally first, and there  *)
(* is no finding whose telemetry was not reported committed.               *)
(***************************************************************************)
THEOREM CommitComesFirst == Spec => []NothingPrecedesItsCommit
<1>1. EdgeInv => NothingPrecedesItsCommit
  BY DEF EdgeInv, AgentInv
<1> QED
  BY <1>1, EdgeInvariant, PTL

-----------------------------------------------------------------------------
(***************************************************************************)
(* Numbers are given once, unless the server has the event.  This has an   *)
(* invariant of its own.  What was committed is stored, with the server or *)
(* pruned (Whereabouts), and what the engine may still store is not pruned,*)
(* because the quota works only while the engine stores, and not on what   *)
(* it stores (NotPruned).                                                  *)
(***************************************************************************)
Whereabouts ==
    \A p \in allocated : Stored(p[1]) \/ p[1] \in accepted \/ Pruned(p[1])

NotPruned ==
    /\ pruned \subseteq allocated
    /\ \A i \in 1..Len(chan) : ~Committed(chan[i])
    /\ \A id \in Telemetry \ produced : ~Committed(id)
    /\ Working => ~Pruned(eng.id)
    /\ eng.pc \in {"detect", "finding"} => ~Pruned(FindingOf[eng.id])

NumberInv == RenumberedOnlyIfSent /\ Whereabouts /\ NotPruned

(* What is new among the rows pruned and the numbers allocated.            *)
NewlyPruned ==
    \A p \in pruned' : p \in pruned \/ (~DB!Idle /\ p \in allocated /\ p[1] \in DOMAIN events)

NewlyAllocated ==
    \E n : \A p \in allocated' : p \in allocated \/ (p[1] \in DOMAIN events' /\ p[2] = n)

LEMMA StoreStepGhosts ==
    ASSUME DB!SeqAllocatedOnce, NEW size, NEW x, DB!StoreStep(size, x)
    PROVE  NewlyPruned /\ NewlyAllocated
<1>1. CASE DB!CheckQuota(size) \/ DB!Account(x) \/ DB!Verdict(size, x)
  BY <1>1 DEF DB!CheckQuota, DB!Account, DB!Verdict, DB!tables, DB!ghosts, NewlyPruned,
              NewlyAllocated
<1>2. CASE DB!PruneRound(size, x)
  <2> DEFINE batch == DB!OldestBatch(DB!Prunable[call.tier])
  <2>1. /\ UNCHANGED allocated /\ call.pc = "prune"
        /\ \/ UNCHANGED pruned
           \/ pruned' = pruned \cup {<<id, events[id].seq>> : id \in batch}
    BY <1>2 DEF DB!PruneRound
  <2>2. \A id \in batch : id \in DOMAIN events /\ <<id, events[id].seq>> \in allocated
    BY DEF DB!OldestBatch, DB!SeqAllocatedOnce
  <2> QED
    BY <2>1, <2>2 DEF NewlyPruned, NewlyAllocated, DB!Idle
<1>3. CASE DB!StoreTx(x)
  <2>1. /\ UNCHANGED pruned
        /\ \/ UNCHANGED allocated
           \/ /\ call.id \in DOMAIN events'
              /\ allocated' = allocated \cup {<<call.id, agentState.nextSeq>>}
    BY <1>3 DEF DB!StoreTx, DB!Allocate, DB!Put
  <2> QED
    BY <2>1 DEF NewlyPruned, NewlyAllocated
<1> QED
  BY <1>1, <1>2, <1>3 DEF DB!StoreStep

LEMMA Ghosts ==
    ASSUME DBP!IInv, AgentInv, [Next]_vars
    PROVE  NewlyPruned /\ NewlyAllocated
<1>1. CASE \E size \in DB!TotalSize, x \in BOOLEAN : DB!StoreStep(size, x)
  BY <1>1, StoreStepGhosts, StoreFacts
<1>2. CASE UNCHANGED <<allocated, pruned>>
  BY <1>2 DEF NewlyPruned, NewlyAllocated
<1> QED
  BY <1>1, <1>2, Uses
  DEF KeepingStep, DB!StoreBegin, DB!MoveToDLQ, DB!QuarantineCorrupt, DB!MarkFailed,
      DB!BecomeDue, DB!CorruptRow, DB!RemoveEvent, DB!Crash, DB!ghosts, dbVars

(* A call inside the mutex is for what the engine has in its hands, which  *)
(* is no longer on its way, and is in no table.                            *)
LEMMA Caller ==
    ASSUME DBP!IInv, AgentInv, ~DB!Idle
    PROVE  /\ call.id \notin DOMAIN events \cup DOMAIN dlq
           /\ \A i \in 1..Len(chan) : chan[i] # call.id
           /\ call.id \notin Telemetry \ produced
           /\ \/ Working /\ call.id = eng.id
              \/ eng.pc = "finding" /\ call.id = FindingOf[eng.id]
<1>1. HeldByEngine /\ InHand /\ DecidedOnce /\ chan \in Seq(Telemetry)
  BY DEF AgentInv, Types
<1>2. call.id \in EventIds \ (DOMAIN events \cup DOMAIN dlq)
  BY StoreFacts
<1>3. CASE eng.pc = "await" /\ call.id = eng.id
  BY <1>1, <1>2, <1>3 DEF DecidedOnce, Working
<1>4. CASE eng.pc = "finding" /\ call.id = FindingOf[eng.id]
  <2>1. eng.id \in Telemetry
    BY <1>1, <1>4 DEF InHand
  <2>2. call.id \notin Telemetry
    BY <1>2, <1>4, <2>1, PipelineAssumption
  <2>3. \A i \in 1..Len(chan) : chan[i] \in Telemetry
    BY <1>1
  <2> QED
    BY <1>2, <1>4, <2>2, <2>3
<1> QED
  BY <1>1, <1>3, <1>4 DEF HeldByEngine

LEMMA WhereaboutsKept ==
    ASSUME DBP!IInv, AgentInv, NumberInv, [Next]_vars
    PROVE  Whereabouts'
<1> SUFFICES ASSUME NEW p \in allocated'
             PROVE  (Stored(p[1]) \/ p[1] \in accepted \/ Pruned(p[1]))'
  BY DEF Whereabouts
<1>1. CASE p \in allocated
  BY <1>1, Effects, AcceptedGrows
  DEF NumberInv, Whereabouts, Stored, Pruned, Grows, Leaves
<1>2. CASE p[1] \in DOMAIN events'
  BY <1>2 DEF Stored
<1> QED
  BY <1>1, <1>2, Ghosts DEF NewlyAllocated

LEMMA RenumberedKept ==
    ASSUME DBP!IInv, AgentInv, NumberInv, [Next]_vars
    PROVE  RenumberedOnlyIfSent'
<1> SUFFICES ASSUME NEW p \in allocated', NEW q \in allocated', p[1] = q[1], p[1] \notin accepted'
             PROVE  p[2] = q[2]
  BY DEF RenumberedOnlyIfSent
<1>1. p[1] \notin accepted
  BY AcceptedGrows
<1>2. ASSUME ~DB!Idle, NEW r \in allocated, r[1] = call.id, r[1] \notin accepted
      PROVE  FALSE
  <2>1. Stored(r[1]) \/ Pruned(r[1])
    BY <1>2 DEF NumberInv, Whereabouts
  <2>2. Pruned(call.id)
    BY <1>2, <2>1, Caller DEF Stored
  <2> QED
    BY <1>2, <2>2, Caller DEF NumberInv, NotPruned
<1>3. CASE p \in allocated /\ q \in allocated
  BY <1>1, <1>3 DEF NumberInv, RenumberedOnlyIfSent
<1>4. CASE p \notin allocated /\ q \notin allocated
  BY <1>4, Ghosts DEF NewlyAllocated
<1> QED
  BY <1>1, <1>2, <1>3, <1>4, Effects DEF Grows

LEMMA NotPrunedKept ==
    ASSUME DBP!IInv, AgentInv, NumberInv, [Next]_vars
    PROVE  NotPruned'
<1> DEFINE com(id) == \E p \in allocated' : p[1] = id
           pru(id) == \E p \in pruned' : p[1] = id
<1>0. /\ NotPruned /\ DecidedOnce /\ InHand /\ NothingPrecedesItsCommit
      /\ chan \in Seq(Telemetry) /\ pruned \subseteq EventIds \X Nat
  BY StoreFacts DEF NumberInv, AgentInv, Types, DB!TypeOK
<1>1. Grows /\ NewlyPruned
  BY Effects, Ghosts
<1>2. pruned' \subseteq allocated'
  BY <1>0, <1>1 DEF NotPruned, Grows, NewlyPruned
<1>3. ASSUME NEW id, ~Committed(id), ~DB!Idle => id # call.id
      PROVE  ~com(id)
  BY <1>1, <1>3 DEF Grows, Committed
<1>4. ASSUME NEW id, ~Committed(id)
      PROVE  ~pru(id)
  BY <1>0, <1>1, <1>4 DEF NotPruned, NewlyPruned, Committed, Pruned
<1>5. ASSUME NEW id, ~Pruned(id), ~DB!Idle => id = call.id
      PROVE  ~pru(id)
  BY <1>1, <1>5, Caller DEF NewlyPruned, Pruned
<1>6. \A id \in Telemetry \ produced : ~com(id)
  BY <1>0, <1>3, Caller DEF NotPruned
<1>7. \A i \in 1..Len(chan) : ~com(chan[i])
  BY <1>0, <1>3, Caller DEF NotPruned
<1> HIDE DEF com, pru
<1>8. ASSUME NEW id \in Telemetry, Produce(id) PROVE NotPruned'
  <2>1. /\ id \notin produced /\ chan' = Append(chan, id) /\ produced' = produced \cup {id}
        /\ UNCHANGED <<eng, pruned>>
    BY <1>8 DEF Produce, dbVars
  <2>2. \A i \in 1..Len(chan') : (i \in 1..Len(chan) /\ chan'[i] = chan[i]) \/ chan'[i] = id
    BY <1>0, <2>1
  <2>3. \A i \in 1..Len(chan') : ~com(chan'[i])
    BY <1>6, <1>7, <2>1, <2>2
  <2>4. \A x \in Telemetry \ produced' : ~com(x)
    BY <1>6, <2>1
  <2> QED
    BY <1>0, <1>2, <2>1, <2>3, <2>4 DEF NotPruned, Working, Pruned, Committed, com, pru
<1>9. CASE EngineRecv
  <2>1. /\ chan # << >> /\ chan' = Tail(chan) /\ UNCHANGED produced
        /\ eng'.id = Head(chan) /\ eng'.pc = "store"
    BY <1>9 DEF EngineRecv, EngineIdle
  <2>2. /\ Len(chan) \in Nat \ {0} /\ Len(chan') = Len(chan) - 1 /\ Head(chan) = chan[1]
        /\ \A i \in 1..Len(chan') : chan'[i] = chan[i + 1] /\ i + 1 \in 1..Len(chan)
    BY <1>0, <2>1
  <2>3. \A i \in 1..Len(chan') : ~com(chan'[i])
    BY <1>7, <2>2
  <2>4. ~Committed(chan[1])
    BY <1>0, <2>2 DEF NotPruned
  <2>5. ~pru(eng'.id)
    BY <1>4, <2>1, <2>2, <2>4
  <2>6. eng'.pc \notin {"detect", "finding"}
    BY <2>1
  <2> QED
    BY <1>2, <1>6, <2>1, <2>3, <2>5, <2>6 DEF NotPruned, Pruned, Committed, com, pru
<1>10. ASSUME chan' \in {chan, << >>}, UNCHANGED produced
       PROVE  /\ \A i \in 1..Len(chan') : ~com(chan'[i])
              /\ \A x \in Telemetry \ produced' : ~com(x)
  <2>1. CASE chan' = chan
    BY <1>6, <1>7, <1>10, <2>1
  <2>2. CASE chan' = << >>
    <3>1. 1..Len(chan') = {}
      BY <2>2
    <3> QED
      BY <1>6, <1>10, <3>1
  <2> QED
    BY <1>10, <2>1, <2>2
<1>11. CASE GoesOn
  <2>1. chan' \in {chan, << >>} /\ UNCHANGED produced
    BY <1>11 DEF GoesOn
  <2>2. Working' => ~pru(eng'.id)
    <3> SUFFICES ASSUME Working' PROVE ~pru(eng'.id)
      OBVIOUS
    <3>1. Working /\ eng'.id = eng.id /\ ~Pruned(eng.id)
      BY <1>0, <1>11 DEF GoesOn, Working, NotPruned
    <3>2. ~DB!Idle => eng.id = call.id
      BY <3>1, Caller DEF Working
    <3> QED
      BY <1>5, <3>1, <3>2
  <2>3. eng'.pc \in {"detect", "finding"} => ~pru(FindingOf[eng'.id])
    <3> SUFFICES ASSUME eng'.pc \in {"detect", "finding"} PROVE ~pru(FindingOf[eng'.id])
      OBVIOUS
    <3>1. eng.pc \in {"detect", "finding"} /\ eng'.id = eng.id /\ ~Pruned(FindingOf[eng.id])
      BY <1>0, <1>11 DEF GoesOn, NotPruned
    <3>2. ~DB!Idle => FindingOf[eng.id] = call.id
      BY <3>1, Caller DEF Working
    <3> QED
      BY <1>5, <3>1, <3>2
  <2> QED
    BY <1>2, <1>10, <2>1, <2>2, <2>3 DEF NotPruned, Pruned, Committed, com, pru
<1>12. ASSUME NEW o \in Outcomes \ {"none"}, Decides(o) PROVE NotPruned'
  <2>1. chan' \in {chan, << >>} /\ UNCHANGED produced /\ ~Working'
    BY <1>12 DEF Decides, Working
  <2>2. eng'.pc \in {"detect", "finding"} => ~pru(FindingOf[eng'.id])
    <3> SUFFICES ASSUME eng'.pc \in {"detect", "finding"} PROVE ~pru(FindingOf[eng'.id])
      OBVIOUS
    <3>1. eng'.id = eng.id /\ Working
      BY <1>12 DEF Decides
    <3>2. eng.id \in Telemetry /\ outcome[eng.id] = "none"
      BY <1>0, <3>1 DEF InHand, DecidedOnce, Working
    <3>3. ~Committed(FindingOf[eng.id])
      <4>1. CASE FindingOf[eng.id] = NoEvent
        <5>1. allocated \subseteq EventIds \X Nat /\ NoEvent \notin EventIds
          BY StoreFacts, PipelineAssumption DEF DB!TypeOK
        <5> QED
          BY <4>1, <5>1 DEF Committed
      <4>2. CASE FindingOf[eng.id] # NoEvent
        BY <1>0, <3>2, <4>2 DEF NothingPrecedesItsCommit
      <4> QED
        BY <4>1, <4>2
    <3> QED
      BY <1>4, <3>1, <3>3
  <2> QED
    BY <1>2, <1>10, <2>1, <2>2 DEF NotPruned, Pruned, Committed, com, pru
<1> QED
  BY <1>8, <1>9, <1>11, <1>12, EventFlow

LEMMA NumberInvariant == Spec => []NumberInv
<1>1. Init => NumberInv
  <2> SUFFICES ASSUME Init PROVE NumberInv
    OBVIOUS
  <2>1. allocated = {} /\ pruned = {}
    BY DEF Init, DB!Init
  <2> QED
    BY <2>1 DEF NumberInv, RenumberedOnlyIfSent, Whereabouts, NotPruned, Committed, Pruned
<1>2. EdgeInv /\ NumberInv /\ [Next]_vars => NumberInv'
  BY WhereaboutsKept, RenumberedKept, NotPrunedKept DEF EdgeInv, NumberInv
<1> QED
  BY <1>1, <1>2, EdgeInvariant, PTL DEF Spec

(***************************************************************************)
(* Store's idempotency check is enough: through uncertain commits, retries,*)
(* crashes, restarts and pruning, an event gets a second sequence number   *)
(* only when the server has it already (sqlite.go, Store).                *)
(***************************************************************************)
THEOREM NumberedOnceUnlessSent == Spec => []RenumberedOnlyIfSent
<1>1. NumberInv => RenumberedOnlyIfSent
  BY DEF NumberInv
<1> QED
  BY <1>1, NumberInvariant, PTL

(***************************************************************************)
(* A row leaves the events table only to the server, to the dead letter    *)
(* queue or to the quota, however stale the forwarder's copy of it is.     *)
(***************************************************************************)
THEOREM RowsAlwaysLeaveForAReason == Spec => RowsLeaveForAReason
<1> DEFINE A == \A id \in DOMAIN events \ DOMAIN events' :
                  \/ id \in accepted
                  \/ id \in DOMAIN dlq'
                  \/ call.pc = "prune" /\ Sev[id] \notin DB!Critical
<1>1. EdgeInv /\ [Next]_vars => A
  BY Effects DEF EdgeInv, Leaves
<1>2. EdgeInv /\ [Next]_vars => [A]_vars
  BY <1>1
<1> HIDE DEF A
<1>3. Spec => [][A]_vars
  BY <1>2, EdgeInvariant, PTL DEF Spec
<1> QED
  BY <1>3 DEF A, RowsLeaveForAReason

(***************************************************************************)
(* Engine, detection, forwarder, shutdown and crashes use the store only   *)
(* through its methods: the agent implements EventStore.                   *)
(***************************************************************************)
THEOREM AgentImplementsStore == Spec => StoreIsRespected
<1>1. Init => DB!Init
  BY DEF Init
<1>2. EdgeInv /\ [Next]_vars => [DB!Next]_(DB!vars)
  BY Uses, UsesAreSteps DEF EdgeInv
<1> QED
  BY <1>1, <1>2, EdgeInvariant, PTL DEF Spec, StoreIsRespected, DB!Spec

(***************************************************************************)
(* What is proved of the store holds of the agent, with the real callers:  *)
(* an event has one home, no sequence number is allocated twice, drops are *)
(* not over-counted, and the quota prunes in order.                        *)
(***************************************************************************)
THEOREM AgentKeepsTheStore ==
    Spec => /\ [](DB!OneHome /\ DB!SeqAllocatedOnce /\ DB!NeverOvercounted)
            /\ DB!PruneRespectsPriority
<1>1. Spec => DBP!Spec
  <2>1. Init => DBP!Init
    BY SameInit DEF Init
  <2>2. EdgeInv /\ [Next]_vars => [DBP!Next]_(DBP!vars)
    BY Uses, UsesAreSteps, SameNext DEF EdgeInv, DB!vars, DBP!vars
  <2> QED
    BY <2>1, <2>2, EdgeInvariant, PTL DEF Spec, DBP!Spec
<1>2. DBP!Spec => []DBP!NeverOvercounted
  BY DBP!DropsNeverOvercounted, StoreAssumptions
<1>3. DBP!Spec => DBP!PruneRespectsPriority
  BY DBP!PruningInOrder, StoreAssumptions
<1>4. EdgeInv => DB!OneHome /\ DB!SeqAllocatedOnce
  BY StoreFacts DEF EdgeInv
<1>5. DBP!NeverOvercounted => DB!NeverOvercounted
  BY SameCardinality
  DEF DB!NeverOvercounted, DB!Severities, DB!Prunable, DBP!NeverOvercounted, DBP!Severities,
      DBP!Prunable
<1>6. [DBP!PrunedInOrder]_(DBP!vars) => [DB!PrunedInOrder]_(DB!vars)
  BY DEF DB!PrunedInOrder, DB!Critical, DB!Importance, DB!vars, DBP!PrunedInOrder,
         DBP!Critical, DBP!Importance, DBP!vars
<1>7. DBP!PruneRespectsPriority => DB!PruneRespectsPriority
  BY <1>6, PTL DEF DB!PruneRespectsPriority, DBP!PruneRespectsPriority
<1> QED
  BY <1>1, <1>2, <1>3, <1>4, <1>5, <1>7, EdgeInvariant, PTL
===============================================================================
