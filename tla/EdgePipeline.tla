---------------------------- MODULE EdgePipeline ----------------------------
(***************************************************************************)
(* The endpoint agent around its store (cmd/endpoint/main.go): collectors  *)
(* put events on the channel centralEvents; the ingestion engine           *)
(* (ingestion/engine.go) makes each durable and runs detection on it       *)
(* (detection/engine.go); the forwarder (forwarder/forwarder.go) posts     *)
(* stored events to the server.  Engine and forwarder are two goroutines   *)
(* that meet only in the store's mutex.  Shutdown cancels ctx, then after  *)
(* a deadline drainCtx; the process may also die at any step.              *)
(***************************************************************************)
EXTENDS Naturals, Sequences, FiniteSets

CONSTANTS
    EventIds, NoEvent, Genuine, Garbage, Sev, PruneBatch, MaxSeq,   \* EventStore
    Telemetry,      \* the ids collectors produce; the others are findings
    FindingOf,      \* telemetry id -> id of the finding of the rule it matches
    Foreign,        \* ids whose tenant_id is not the forwarder's
    Fragile,        \* ids whose stored payload may become unreadable
    ChanCap,        \* capacity of centralEvents (200 in the code)
    BatchLimit,     \* events fetched per round (50 in the code)
    MaxStarts       \* bound: how often the process is started

VARIABLES
    events, dlq, agentState, call, allocated, pruned,   \* EventStore
    chan,           \* centralEvents
    produced,       \* ghost: ids the collectors have put on the channel
    eng,            \* the ingestion goroutine
    fwd,            \* the forwarder goroutine
    phase,          \* run, stopping (ctx cancelled), closed (channel too), down
    expired,        \* drainCtx cancelled
    starts,         \* process starts so far
    outcome,        \* ghost: what ProcessEvent last returned for an id
    accepted,       \* external: ids the server has queued
    transit         \* external: ids in requests given up that may still be served

DB == INSTANCE EventStore WITH Contents <- {Genuine}, CallerSeqs <- 0..(MaxSeq + 1)

dbVars   == <<events, dlq, agentState, call, allocated, pruned>>
procVars == <<chan, produced, phase, expired, starts>>
net      == <<accepted, transit>>
vars     == <<dbVars, procVars, eng, fwd, outcome, net>>

(* What EventStore assumes of its constants; and a finding's id is a hash  *)
(* over the id of the telemetry it cites, so two events never share one.   *)
ASSUME PipelineAssumption ==
    /\ Sev \in [EventIds -> DB!Severities]
    /\ IsFiniteSet(EventIds) /\ NoEvent \notin EventIds /\ Garbage # Genuine
    /\ PruneBatch \in Nat \ {0} /\ MaxSeq \in Nat
    /\ Telemetry \subseteq EventIds
    /\ FindingOf \in [Telemetry -> (EventIds \ Telemetry) \cup {NoEvent}]
    /\ \A t, u \in Telemetry : FindingOf[t] = FindingOf[u] => t = u \/ FindingOf[t] = NoEvent
    /\ Foreign \subseteq EventIds /\ Fragile \subseteq EventIds
    /\ ChanCap \in Nat \ {0} /\ BatchLimit \in Nat \ {0} /\ MaxStarts \in Nat \ {0}

MaxAttempts == 3      \* uncertain commits before recovery to the DLQ

EngineIdle   == [pc |-> "recv", id |-> NoEvent, seq |-> 0, attempts |-> 0, ctx |-> "ctx"]
ForwarderOff == [pc |-> "off", batch |-> {}, reply |-> "none"]

Up == phase # "down"

(* ctx is cancelled by the signal, drainCtx by its deadline.               *)
Cancelled(ctx) == IF ctx = "ctx" THEN phase # "run" ELSE expired

Init ==
    /\ DB!Init
    /\ chan = << >> /\ produced = {}
    /\ phase = "run" /\ expired = FALSE /\ starts = 1
    /\ eng = EngineIdle
    /\ fwd = [ForwarderOff EXCEPT !.pc = "idle"]
    /\ outcome = [id \in EventIds |-> "none"]
    /\ accepted = {} /\ transit = {}

-----------------------------------------------------------------------------
(* Definitions named M_... are slips the code could contain; each shows     *)
(* that some property would notice it.  No specification uses them.         *)

(* A collector observes something new and sends it; a full channel blocks. *)
Produce(id) ==
    /\ phase \in {"run", "stopping"}
    /\ id \in Telemetry \ produced
    /\ Len(chan) < ChanCap
    /\ chan' = Append(chan, id)
    /\ produced' = produced \cup {id}
    /\ UNCHANGED <<dbVars, phase, expired, starts, eng, fwd, outcome, net>>

(* M: detection runs before the event is stored.                           *)
M_DetectFirst ==
    /\ Up /\ eng.pc = "recv" /\ chan # << >>
    /\ chan' = Tail(chan)
    /\ eng' = [EngineIdle EXCEPT !.pc = "detect", !.id = Head(chan)]
    /\ UNCHANGED <<dbVars, produced, phase, expired, starts, fwd, outcome, net>>

(***************************************************************************)
(* The ingestion engine.  Run takes the next event; ProcessEvent starts    *)
(* under ctx, or under drainCtx when ctx is already cancelled.             *)
(***************************************************************************)
EngineRecv ==
    /\ Up /\ eng.pc = "recv"
    /\ chan # << >>
    /\ chan' = Tail(chan)
    /\ eng' = [EngineIdle EXCEPT !.pc = "store", !.id = Head(chan),
                                 !.ctx = IF Cancelled("ctx") THEN "drain" ELSE "ctx"]
    /\ UNCHANGED <<dbVars, produced, phase, expired, starts, fwd, outcome, net>>

EngineStore ==
    /\ Up /\ eng.pc = "store"
    /\ DB!StoreBegin(eng.id, Genuine, eng.seq, Cancelled(eng.ctx))
    /\ eng' = [eng EXCEPT !.pc = "await"]
    /\ UNCHANGED <<procVars, fwd, outcome, net>>

(* Store goes on under the caller's context.                               *)
StoreProceeds ==
    /\ Up
    /\ \E size \in DB!TotalSize : DB!StoreStep(size, Cancelled(eng.ctx))
    /\ UNCHANGED <<procVars, eng, fwd, outcome, net>>

Finish(o) ==
    /\ outcome' = [outcome EXCEPT ![eng.id] = o]
    /\ eng' = EngineIdle

(* M: every cancelled attempt is repeated, also when drainCtx has expired. *)
M_RetryForever == call.err = "canceled"

(* Store was interrupted by the cancellation of ctx.                       *)
Interrupted == call.err = "canceled" /\ eng.ctx = "ctx"

(***************************************************************************)
(* What ProcessEvent does with Store's answer: committed events go to      *)
(* OnCommitted (detection), an event interrupted by the cancellation of    *)
(* ctx is tried again under drainCtx, any other failure before the commit  *)
(* drops it with a log line, and an uncertain commit is retried until it   *)
(* is given up to recovery.                                                *)
(***************************************************************************)
EngineResult ==
    /\ Up /\ eng.pc = "await" /\ DB!Idle
    /\ \/ /\ call.err = "nil"
          /\ outcome' = [outcome EXCEPT ![eng.id] = "committed"]
          /\ eng' = [eng EXCEPT !.pc = "detect"]
       \/ /\ Interrupted
          /\ eng' = [eng EXCEPT !.pc = "store", !.ctx = "drain", !.seq = call.seq]
          /\ UNCHANGED outcome
       \/ /\ call.err \in {"failed", "canceled"} /\ ~Interrupted
          /\ Finish("failed_before_commit")
       \/ /\ call.err = "uncertain"
          /\ eng' = [eng EXCEPT !.attempts = @ + 1, !.seq = call.seq,
                       !.pc = IF eng.attempts + 1 >= MaxAttempts THEN "recover" ELSE "wait"]
          /\ UNCHANGED outcome
    /\ UNCHANGED <<dbVars, procVars, fwd, net>>

(***************************************************************************)
(* The cancellation-aware wait between uncertain attempts.  When drainCtx  *)
(* is the one that expired, the select may take either ready branch: the   *)
(* Done branch logs, the timer branch falls through to a drop that only    *)
(* OnDropped would report, and the endpoint sets no OnDropped.             *)
(***************************************************************************)
EngineWait ==
    /\ Up /\ eng.pc = "wait"
    /\ \/ /\ eng.ctx = "ctx" /\ Cancelled("ctx")
          /\ eng' = [eng EXCEPT !.pc = "store", !.ctx = "drain"]
          /\ UNCHANGED outcome
       \/ /\ eng.ctx = "drain" /\ Cancelled("drain")
          /\ \E o \in {"dropped_logged", "dropped_unlogged"} : Finish(o)
       \/ /\ ~(eng.ctx = "drain" /\ Cancelled("drain"))
          /\ eng' = [eng EXCEPT !.pc = "store"]
          /\ UNCHANGED outcome
    /\ UNCHANGED <<dbVars, procVars, fwd, net>>

(* The process ends and loses what it held in memory.                      *)
Die == phase' = "down" /\ chan' = << >> /\ fwd' = ForwarderOff /\ expired' = FALSE

(* A transaction that moves the event to the DLQ: applied, or not.         *)
NotApplied == DB!Idle /\ UNCHANGED dbVars

(* M: the error of the move is not looked at.                              *)
M_AssumeMoved(id, seq, ctx) == NotApplied

MoveApplied(id, seq, ctx) == ~Cancelled(ctx) /\ DB!MoveToDLQ(id, Genuine, seq)

(***************************************************************************)
(* Recovery after the last uncertain attempt: the DLQ, else the spill file *)
(* (a commit error may hide a transaction that was applied).  When both    *)
(* fail the process ends with log.Fatalf.                                  *)
(***************************************************************************)
EngineRecover ==
    /\ Up /\ eng.pc = "recover"
    /\ \/ /\ MoveApplied(eng.id, eng.seq, eng.ctx)
          /\ Finish("dlq")
          /\ UNCHANGED <<phase, chan, fwd, expired>>
       \/ /\ MoveApplied(eng.id, eng.seq, eng.ctx) \/ NotApplied
          /\ Finish("spilled")
          /\ UNCHANGED <<phase, chan, fwd, expired>>
       \/ /\ MoveApplied(eng.id, eng.seq, eng.ctx) \/ NotApplied
          /\ Finish("fatal")
          /\ Die
    /\ UNCHANGED <<produced, starts, net>>

(***************************************************************************)
(* OnCommitted: evaluate the rule.  A match stores the finding once, under *)
(* the same context; whatever happens to it is only logged.  No match, a   *)
(* rule error or a recovered panic stores nothing.  Then the forwarder is  *)
(* woken, which its ticker would do anyway.                                *)
(***************************************************************************)
EngineDetect ==
    /\ Up /\ eng.pc = "detect"
    /\ \/ /\ eng' = EngineIdle
          /\ UNCHANGED dbVars
       \/ /\ FindingOf[eng.id] # NoEvent
          /\ DB!StoreBegin(FindingOf[eng.id], Genuine, 0, Cancelled(eng.ctx))
          /\ eng' = [eng EXCEPT !.pc = "finding"]
    /\ UNCHANGED <<procVars, fwd, outcome, net>>

EngineFindingDone ==
    /\ Up /\ eng.pc = "finding" /\ DB!Idle
    /\ eng' = EngineIdle
    /\ UNCHANGED <<dbVars, procVars, fwd, outcome, net>>

-----------------------------------------------------------------------------
(***************************************************************************)
(* The forwarder.  A round fetches copies of the due rows, oldest first,   *)
(* and works through them; the copies may be stale by then.  Rows of the   *)
(* batch that do not deserialize go to the DLQ; when one cannot be moved   *)
(* GetPendingEvents fails, the earlier ones being moved already.           *)
(***************************************************************************)
FwdFetch ==
    LET ids      == DB!PendingBatch(BatchLimit)
        corrupt  == {id \in ids : events[id].content = Garbage}
        before(n) == {id \in corrupt : events[id].seq < n}
    IN  /\ Up /\ fwd.pc = "idle"
        /\ ~Cancelled("ctx")
        /\ \/ /\ ids # {}
              /\ DB!QuarantineCorrupt(corrupt)
              /\ fwd' = IF ids = corrupt THEN fwd ELSE
                          [fwd EXCEPT !.pc = "send",
                             !.batch = {<<id, events[id].seq>> : id \in ids \ corrupt}]
           \/ /\ \E id \in corrupt : DB!QuarantineCorrupt(before(events[id].seq))
              /\ UNCHANGED fwd
        /\ UNCHANGED <<procVars, eng, outcome, net>>

Current == CHOOSE e \in fwd.batch : \A x \in fwd.batch : e[2] <= x[2]

NextCopy == [fwd EXCEPT !.pc = IF fwd.batch = {Current} THEN "idle" ELSE "send",
                        !.batch = @ \ {Current}, !.reply = "none"]

(* An event of another tenant is dead-lettered, the others are posted.     *)
FwdSend ==
    /\ Up /\ fwd.pc = "send"
    /\ ~Cancelled("ctx")
    /\ \/ /\ Current[1] \in Foreign
          /\ \/ MoveApplied(Current[1], Current[2], "ctx")
             \/ NotApplied
          /\ fwd' = NextCopy
       \/ /\ Current[1] \notin Foreign
          /\ fwd' = [fwd EXCEPT !.pc = "post"]
          /\ UNCHANGED dbVars
    /\ UNCHANGED <<procVars, eng, outcome, net>>

(***************************************************************************)
(* The network and the server are external.  A request or its response may *)
(* be lost; the server queues the event before it answers 202, rejects it  *)
(* for good with 400, or answers something else (429, 413, 5xx).  "retry"  *)
(* is such an answer or an error, as that of the client's timeout: then    *)
(* the request may have been served, or may be served later.               *)
(***************************************************************************)
FwdPost ==
    /\ Up /\ fwd.pc = "post"
    /\ \E r \in {"202", "400", "retry"} :
          /\ Cancelled("ctx") => r = "retry"
          /\ fwd' = [fwd EXCEPT !.pc = "reply", !.reply = r]
          /\ \/ /\ r # "400"
                /\ accepted' = accepted \cup {Current[1]}
                /\ transit' = transit \ {Current[1]}
             \/ /\ r # "202"
                /\ UNCHANGED net
             \/ /\ r = "retry" /\ Current[1] \notin accepted
                /\ transit' = transit \cup {Current[1]}
                /\ UNCHANGED accepted
    /\ UNCHANGED <<dbVars, procVars, eng, outcome>>

(* The server serves a request that the forwarder has given up, also when  *)
(* the agent is down.                                                      *)
ServedLate(id) ==
    /\ id \in transit
    /\ accepted' = accepted \cup {id}
    /\ transit' = transit \ {id}
    /\ UNCHANGED <<dbVars, procVars, eng, fwd, outcome>>

(* M: a 202 removes the row without the mutex.                             *)
M_RemoveUnlocked ==
    /\ Up /\ fwd.pc = "reply" /\ fwd' = NextCopy /\ fwd.reply = "202"
    /\ events' = DB!Drop(events, {Current[1]})
    /\ UNCHANGED <<dlq, agentState, call, allocated, pruned, procVars, eng, outcome, net>>

(* Each reply has one storage call; when it fails it is only logged.       *)
FwdReply ==
    /\ Up /\ fwd.pc = "reply"
    /\ fwd' = NextCopy
    /\ \/ NotApplied
       \/ /\ ~Cancelled("ctx")
          /\ \/ fwd.reply = "202" /\ DB!RemoveEvent(Current[1])
             \/ fwd.reply = "400" /\ DB!MoveToDLQ(Current[1], Genuine, Current[2])
             \/ fwd.reply = "retry" /\ DB!MarkFailed(Current[1])
    /\ UNCHANGED <<procVars, eng, outcome, net>>

FwdExit ==
    /\ Up /\ fwd.pc \in {"idle", "send"}
    /\ Cancelled("ctx")
    /\ fwd' = ForwarderOff
    /\ UNCHANGED <<dbVars, procVars, eng, outcome, net>>

-----------------------------------------------------------------------------
(* External: time passes a retry, or a stored payload goes bad.            *)
Environment ==
    /\ \/ \E id \in EventIds : DB!BecomeDue(id)
       \/ \E id \in Fragile  : DB!CorruptRow(id)
    /\ UNCHANGED <<procVars, eng, fwd, outcome, net>>

(***************************************************************************)
(* Shutdown: the signal cancels ctx and arms the drain deadline; main      *)
(* stops the collectors, closes the channel, waits for the engine to drain *)
(* it, then for the forwarder, and closes the store.                       *)
(***************************************************************************)
Signal ==
    /\ phase = "run"
    /\ phase' = "stopping"
    /\ UNCHANGED <<dbVars, chan, produced, expired, starts, eng, fwd, outcome, net>>

DrainExpires ==
    /\ phase \in {"stopping", "closed"} /\ ~expired
    /\ expired' = TRUE
    /\ UNCHANGED <<dbVars, chan, produced, phase, starts, eng, fwd, outcome, net>>

(* Every collector's Stop has returned; some may never do (Collectors).    *)
CloseChannel ==
    /\ phase = "stopping"
    /\ phase' = "closed"
    /\ UNCHANGED <<dbVars, chan, produced, expired, starts, eng, fwd, outcome, net>>

EngineExit ==
    /\ phase = "closed" /\ eng.pc = "recv" /\ chan = << >>
    /\ eng' = [EngineIdle EXCEPT !.pc = "off"]
    /\ UNCHANGED <<dbVars, procVars, fwd, outcome, net>>

Exit ==
    /\ phase = "closed" /\ eng.pc = "off" /\ fwd.pc = "off"
    /\ Die
    /\ eng' = EngineIdle
    /\ UNCHANGED <<dbVars, produced, starts, outcome, net>>

Crash ==
    /\ Up
    /\ Die
    /\ eng' = EngineIdle
    /\ DB!Crash
    /\ UNCHANGED <<produced, starts, outcome, net>>

Restart ==
    /\ phase = "down" /\ starts < MaxStarts
    /\ phase' = "run" /\ starts' = starts + 1
    /\ fwd' = [ForwarderOff EXCEPT !.pc = "idle"]
    /\ UNCHANGED <<dbVars, chan, produced, expired, eng, outcome, net>>

Engine    == EngineRecv \/ EngineStore \/ StoreProceeds \/ EngineResult \/ EngineWait
               \/ EngineRecover \/ EngineDetect \/ EngineFindingDone \/ EngineExit
Forwarder == FwdFetch \/ FwdSend \/ FwdPost \/ FwdReply \/ FwdExit
Lifecycle == Signal \/ DrainExpires \/ CloseChannel \/ Exit \/ Crash \/ Restart

Next ==
    \/ \E id \in Telemetry : Produce(id)
    \/ Engine
    \/ Forwarder
    \/ Environment
    \/ \E id \in EventIds : ServedLate(id)
    \/ Lifecycle

Spec == Init /\ [][Next]_vars

(***************************************************************************)
(* Fairness.  The goroutines are always scheduled and every select has a   *)
(* ticker, a timer or a deadline, so engine, forwarder and shutdown steps  *)
(* are weakly fair, as is the passing of a retry time.  A server that is   *)
(* asked again and again about an event eventually answers 202 or 400, and *)
(* a MoveToDLQ made again and again for a 400 eventually succeeds.         *)
(* Collectors, signals, crashes and corruption are not fair, and neither is*)
(* CloseChannel: main waits for every collector's Stop before it, and a    *)
(* Stop may never return.                                                  *)
(***************************************************************************)
Answered(id) ==
    FwdPost /\ Current[1] = id /\ fwd'.reply \in {"202", "400"}

Applied(id) == FwdReply /\ Current[1] = id /\ fwd.reply = "400" /\ events' # events

Fairness ==
    /\ WF_vars(Engine)
    /\ WF_vars(Forwarder)
    /\ \A id \in EventIds : WF_vars(Environment /\ id \in DOMAIN events /\ ~events[id].due
                                     /\ events'[id].due)
    /\ WF_vars(DrainExpires) /\ WF_vars(Exit)
    /\ \A id \in EventIds : SF_vars(Answered(id)) /\ SF_vars(Applied(id))

FairSpec == Spec /\ Fairness

-----------------------------------------------------------------------------
Outcomes == {"none", "committed", "failed_before_commit", "dropped_logged",
             "dropped_unlogged", "dlq", "spilled", "fatal"}

(* The store is well-formed, centralEvents holds collected telemetry and no *)
(* more than its capacity, and engine and forwarder are at known statements *)
(* (the engine after at most MaxAttempts uncertain commits).                *)
TypeOK ==
    /\ DB!TypeOK
    /\ chan \in Seq(Telemetry) /\ Len(chan) <= ChanCap
    /\ produced \subseteq Telemetry
    /\ phase \in {"run", "stopping", "closed", "down"} /\ expired \in BOOLEAN
    /\ starts \in 1..MaxStarts
    /\ eng \in [pc : {"recv", "store", "await", "wait", "recover", "detect", "finding", "off"},
                id : Telemetry \cup {NoEvent}, seq : Nat, attempts : 0..MaxAttempts,
                ctx : {"ctx", "drain"}]
    /\ fwd \in [pc : {"off", "idle", "send", "post", "reply"},
                batch : SUBSET (EventIds \X Nat),
                reply : {"none", "202", "400", "retry"}]
    /\ outcome \in [EventIds -> Outcomes]
    /\ accepted \subseteq EventIds /\ transit \subseteq EventIds \ accepted

Stored(id)    == id \in DOMAIN events \cup DOMAIN dlq
Committed(id) == \E p \in allocated : p[1] = id
Pruned(id)    == \E p \in pruned : p[1] = id

(***************************************************************************)
(* The engine's promise survives the forwarder, the quota, shutdown and    *)
(* crashes: an event ProcessEvent reported COMMITTED is in the store or    *)
(* the server has it, unless the quota pruned it, and the quota never      *)
(* prunes a CRITICAL or FATAL one; an event reported RECOVERED_DLQ stays   *)
(* in the dead letter queue.                                               *)
(***************************************************************************)
NoLossAfterCommit ==
    \A id \in Telemetry :
        /\ outcome[id] = "committed" =>
              \/ Stored(id) \/ id \in accepted
              \/ Pruned(id) /\ Sev[id] \notin DB!Critical
        /\ outcome[id] = "dlq" => id \in DOMAIN dlq

(***************************************************************************)
(* An event is numbered, and so stored, a second time only when the server *)
(* already has it: whatever was uncertain about the first commit, a retry  *)
(* or a restart finds the row, or the dead letter, that it left.           *)
(***************************************************************************)
RenumberedOnlyIfSent ==
    \A p, q \in allocated : p[1] = q[1] => p[2] = q[2] \/ p[1] \in accepted

(***************************************************************************)
(* Durable before sent and detected after durable: what the server has was *)
(* committed locally first, and a finding exists anywhere only if the      *)
(* telemetry it cites was reported committed (OnCommitted runs detection). *)
(***************************************************************************)
NothingPrecedesItsCommit ==
    /\ \A id \in accepted : Committed(id)
    /\ \A t \in Telemetry : FindingOf[t] # NoEvent =>
          (Committed(FindingOf[t]) => outcome[t] = "committed")

(***************************************************************************)
(* Refinement: engine, detection, forwarder, shutdown and crashes use the  *)
(* store only through its methods, one at a time, so the agent implements  *)
(* EventStore and what is proved of it (one home, no number twice, pruning *)
(* in order) holds of the agent.                                           *)
(***************************************************************************)
StoreIsRespected == DB!Spec

(***************************************************************************)
(* A stored event leaves the events table only because the server has it,  *)
(* because it was dead-lettered, or because the quota took it: no stale    *)
(* 202 or late reply removes a row the server does not have.               *)
(***************************************************************************)
RowsLeaveForAReason ==
    [][\A id \in DOMAIN events \ DOMAIN events' :
         \/ id \in accepted
         \/ id \in DOMAIN dlq'
         \/ call.pc = "prune" /\ Sev[id] \notin DB!Critical]_vars

(***************************************************************************)
(* If the agent eventually keeps running, every CRITICAL or FATAL row      *)
(* reaches the server or the dead letter queue.                            *)
(***************************************************************************)
CriticalEventuallyLeaves ==
    \A id \in EventIds :
        Sev[id] \in DB!Critical =>
            (<>[](phase = "run") =>
                (id \in DOMAIN events ~> id \in accepted \cup DOMAIN dlq))

(***************************************************************************)
(* A signal ends the process: the drain deadline bounds the retries of the *)
(* engine and the forwarder never blocks shutdown.  The one wait that may  *)
(* have no end is main's for the Stop of a collector, and it is not for the*)
(* engine's sake: everything that was sent has been taken and worked off.  *)
(***************************************************************************)
ShutdownCompletes ==
    phase = "stopping" ~>
        \/ phase = "down"
        \/ [](phase = "stopping" /\ chan = << >> /\ eng.pc = "recv")

-----------------------------------------------------------------------------
(***************************************************************************)
(* Said by a comment of the code, and not what it does.                    *)
(***************************************************************************)

(* "A retry of an already-committed or already-dead-lettered event must    *)
(* not trigger destructive quota pruning": Store prunes only for an event  *)
(* that was never committed before.                                        *)
RetryNeverPrunes ==
    [][call.pc = "prune" /\ DOMAIN events' # DOMAIN events => ~Committed(call.id)]_vars
=============================================================================
