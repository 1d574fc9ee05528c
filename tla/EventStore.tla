----------------------------- MODULE EventStore -----------------------------
(***************************************************************************)
(* The agent's durability boundary: agent/internal/storage/sqlite.go.      *)
(*                                                                         *)
(* Every method holds the mutex s.mu from entry to return.  Store runs     *)
(* several SQLite statements under it, each of which commits on its own,   *)
(* can fail on its own and can be the last one before a crash, so it is a  *)
(* sequence of steps of the in-flight `call'.  The other methods change    *)
(* the database in one statement or one transaction and are one step each, *)
(* possible only while no Store is inside the mutex.                       *)
(*                                                                         *)
(* Callers are arbitrary here (Next offers every method with every         *)
(* argument); EdgePipeline composes the same steps with the real callers.  *)
(***************************************************************************)
EXTENDS Naturals, Sequences, FiniteSets

CONSTANTS
    EventIds,       \* event_id values
    NoEvent,        \* no event_id
    Contents,       \* everything of an event except event_id, severity and seq_no
    Garbage,        \* the content of a row whose payload no longer deserializes
    Sev,            \* the severity of each event
    PruneBatch,     \* LIMIT of the pruning DELETE (50 in the code)
    CallerSeqs,     \* SeqNo values an arbitrary caller's event may carry
    MaxSeq          \* bound: sequence numbers a behaviour may allocate

(* Definitions named M_... are slips the code could contain; each shows     *)
(* that some property would notice it.  No specification uses them.         *)

Prunable   == <<"DEBUG", "INFO", "WARNING">>     \* in pruning order
Severities == {"DEBUG", "INFO", "WARNING", "CRITICAL", "FATAL"}
Critical   == {"CRITICAL", "FATAL"}

ASSUME SevAssumption      == Sev \in [EventIds -> Severities]
ASSUME IdAssumption       == NoEvent \notin EventIds /\ IsFiniteSet(EventIds)
ASSUME ContentAssumption  == Garbage \notin Contents
ASSUME PruneAssumption    == PruneBatch \in Nat \ {0}
ASSUME SeqAssumption      == MaxSeq \in Nat /\ CallerSeqs \subseteq Nat

VARIABLES
    events,         \* table events: id -> row
    dlq,            \* table dead_letter_queue: id -> row
    agentState,     \* the single row of table agent_state
    call,           \* the Store call inside s.mu, or the outcome of the last one
    allocated,      \* ghost: <<id, seq_no>> of every committed INSERT
    pruned          \* ghost: <<id, seq_no>> of every row the quota deleted

tables == <<events, dlq, agentState>>
ghosts == <<allocated, pruned>>
vars   == <<events, dlq, agentState, call, allocated, pruned>>

(***************************************************************************)
(* A payload is <content, seq>, because Serialize() embeds seq_no, and the *)
(* seq_no column repeats the latter.  `due' abstracts next_attempt_at:     *)
(* NULL, or not later than now.                                            *)
(***************************************************************************)
Payload == Contents \cup {Garbage}

Put(t, id, row) == [x \in DOMAIN t \cup {id} |-> IF x = id THEN row ELSE t[x]]
Drop(t, ids)    == [x \in DOMAIN t \ ids |-> t[x]]

(* Between calls, what the last Store returned: its error, and the SeqNo   *)
(* it left in the caller's event.                                          *)
Returned(err, s) ==
    [pc |-> "idle", err |-> err, id |-> NoEvent, content |-> Garbage,
     seq |-> s, tier |-> 1, rows |-> 0]

(* A Store that is past its idempotency check.                             *)
Started(id, c, s) ==
    [pc |-> "quota", err |-> "nil", id |-> id, content |-> c,
     seq |-> s, tier |-> 1, rows |-> 0]

Pcs  == {"idle", "quota", "prune", "account", "verdict", "tx"}
Errs == {"nil", "failed", "canceled", "uncertain"}

(* The first Init() of a fresh database.                                   *)
Init ==
    /\ events     = << >>
    /\ dlq        = << >>
    /\ agentState = [nextSeq  |-> 1,
                     dropped  |-> [s \in Severities |-> 0],
                     pressure |-> "NULL"]
    /\ call       = Returned("nil", 0)
    /\ allocated  = {}
    /\ pruned     = {}

Idle == call.pc = "idle"

-----------------------------------------------------------------------------
(***************************************************************************)
(* "canceled" is ErrStoreFailedBeforeCommit caused by the caller's         *)
(* context, "failed" the same with any other cause, "uncertain" is         *)
(* ErrStoreUncertain.                                                      *)
(***************************************************************************)
Return(err) == call' = Returned(err, call.seq)
Goto(pc)    == call' = [call EXCEPT !.pc = pc]

(* M: an error that is wrapped in neither sentinel.                        *)
M_Unclassified(cancelled) == IF cancelled THEN "canceled" ELSE "unknown"

(* A statement fails for an I/O error, or because the context is cancelled *)
(* (and then it cannot succeed).                                           *)
Failure(cancelled) == IF cancelled THEN "canceled" ELSE "failed"

(* A row with this id answers the call: nil for the same payload, an       *)
(* integrity error for another one.                                        *)
AnswerFrom(t, id, c) ==
    /\ id \in DOMAIN t
    /\ call' = Returned(IF t[id].content = c THEN "nil" ELSE "failed", t[id].seq)

(* M: the row is looked for in the dead letter queue only, and the INSERT  *)
(* replaces one that is there.                                             *)
M_LookOnlyInDLQ(id, c, s, cancelled) ==
    /\ Idle
    /\ \/ call' = Returned(Failure(cancelled), s)
       \/ ~cancelled /\ AnswerFrom(dlq, id, c)
       \/ ~cancelled /\ id \notin DOMAIN dlq /\ call' = Started(id, c, s)
    /\ UNCHANGED <<tables, ghosts>>

(***************************************************************************)
(* Store up to its quota check: idempotency first, in events, then in the  *)
(* dead letter queue.                                                      *)
(***************************************************************************)
StoreBegin(id, c, s, cancelled) ==
    /\ Idle
    /\ \/ call' = Returned(Failure(cancelled), s)
       \/ /\ ~cancelled
          /\ \/ AnswerFrom(events, id, c)
             \/ id \notin DOMAIN events /\ AnswerFrom(dlq, id, c)
             \/ /\ id \notin DOMAIN events \cup DOMAIN dlq
                /\ call' = Started(id, c, s)
    /\ UNCHANGED <<tables, ghosts>>

(***************************************************************************)
(* getTotalSize is external: the database, WAL and SHM files grow and      *)
(* shrink as SQLite decides.  A reading, the estimate included, is below   *)
(* 0.9 quota ("fits"), below the quota ("tight") or not below it ("full"). *)
(***************************************************************************)
TotalSize == {"fits", "tight", "full"}

CheckQuota(size) ==
    /\ call.pc = "quota"
    /\ \/ Goto(IF size = "full" THEN "prune" ELSE "tx")
       \/ Return("failed")      \* the files cannot be examined
    /\ UNCHANGED <<tables, ghosts>>

(* M: ORDER BY seq_no DESC.                                                *)
M_NewestBatch(sev) ==
    LET rows == {id \in DOMAIN events : Sev[id] = sev}
    IN  {id \in rows : Cardinality({x \in rows : events[x].seq > events[id].seq})
                         < PruneBatch}

(* The PruneBatch oldest rows of a severity.                               *)
OldestBatch(sev) ==
    LET rows == {id \in DOMAIN events : Sev[id] = sev}
    IN  {id \in rows : Cardinality({x \in rows : events[x].seq < events[id].seq})
                         < PruneBatch}

(***************************************************************************)
(* One round of the pruning loop: there is room now, the DELETE fails, it  *)
(* removes a batch, or it finds no row and the next severity is due.       *)
(***************************************************************************)
PruneRound(size, cancelled) ==
    LET sev   == Prunable[call.tier]
        batch == OldestBatch(sev)
    IN  /\ call.pc = "prune"
        /\ \/ /\ size = "fits"
              /\ Goto("tx")
              /\ UNCHANGED <<events, pruned>>
           \/ /\ size # "fits"
              /\ Return(Failure(cancelled))
              /\ UNCHANGED <<events, pruned>>
           \/ /\ size # "fits" /\ ~cancelled /\ batch # {}
              /\ events' = Drop(events, batch)
              /\ pruned' = pruned \cup {<<id, events[id].seq>> : id \in batch}
              /\ call'   = [call EXCEPT !.pc = "account", !.rows = Cardinality(batch)]
           \/ /\ size # "fits" /\ ~cancelled /\ batch = {}
              /\ IF call.tier < Len(Prunable)
                 THEN call' = [call EXCEPT !.tier = @ + 1]
                 ELSE Goto("verdict")
              /\ UNCHANGED <<events, pruned>>
        /\ UNCHANGED <<dlq, agentState, allocated>>

(* M: the UPDATE is tried again when its answer is lost.                   *)
M_CountAgain(cancelled) ==
    /\ call.pc = "account" /\ ~cancelled
    /\ agentState' = [agentState EXCEPT !.dropped[Prunable[call.tier]] = @ + call.rows]
    /\ call' \in {call, [call EXCEPT !.pc = "prune"]}
    /\ UNCHANGED <<events, dlq, ghosts>>

(* The UPDATE that counts the deleted rows: a statement of its own.        *)
Account(cancelled) ==
    /\ call.pc = "account"
    /\ \/ /\ Return(Failure(cancelled))
          /\ UNCHANGED agentState
       \/ /\ ~cancelled
          /\ agentState' = [agentState EXCEPT
                              !.dropped[Prunable[call.tier]] = @ + call.rows,
                              !.pressure = "PRUNING"]
          /\ call' = [call EXCEPT !.pc = "prune", !.rows = 0]
    /\ UNCHANGED <<events, dlq, ghosts>>

(* Nothing is left to prune: refuse all but critical events, or go on.     *)
Verdict(size, cancelled) ==
    /\ call.pc = "verdict"
    /\ \/ /\ Return(Failure(cancelled))
          /\ UNCHANGED agentState
       \/ /\ ~cancelled
          /\ size = "full"
          /\ agentState' = [agentState EXCEPT !.pressure = "EMERGENCY"]
          /\ IF Sev[call.id] \in Critical THEN Goto("tx") ELSE Return("failed")
       \/ /\ ~cancelled
          /\ size # "full"
          /\ agentState' = [agentState EXCEPT
                              !.pressure = IF @ = "NULL" THEN @ ELSE "OK"]
          /\ Goto("tx")
    /\ UNCHANGED <<events, dlq, ghosts>>

(***************************************************************************)
(* The serializable transaction: allocate the sequence number, INSERT,     *)
(* advance the counter, commit.  A failure before Commit leaves the tables *)
(* alone, with SeqNo already set or not; an error from Commit is uncertain *)
(* and the transaction may have been applied or not.                       *)
(***************************************************************************)
(* M: the counter is not advanced in the transaction.                      *)
M_KeepCounter ==
    /\ events' = Put(events, call.id, [content |-> call.content,
                                       seq |-> agentState.nextSeq, due |-> TRUE])
    /\ allocated' = allocated \cup {<<call.id, agentState.nextSeq>>}
    /\ UNCHANGED agentState

Allocate ==
    /\ agentState.nextSeq <= MaxSeq
    /\ events' = Put(events, call.id, [content |-> call.content,
                                       seq |-> agentState.nextSeq, due |-> TRUE])
    /\ agentState' = [agentState EXCEPT !.nextSeq = @ + 1]
    /\ allocated'  = allocated \cup {<<call.id, agentState.nextSeq>>}

StoreTx(cancelled) ==
    /\ call.pc = "tx"
    /\ \/ /\ Return(Failure(cancelled))
          /\ UNCHANGED <<tables, allocated>>
       \/ /\ \E err \in {Failure(cancelled), "uncertain"} :
               call' = Returned(err, agentState.nextSeq)
          /\ UNCHANGED <<tables, allocated>>
       \/ /\ ~cancelled
          /\ \E err \in {"nil", "uncertain"} :
               call' = Returned(err, agentState.nextSeq)
          /\ Allocate
          /\ UNCHANGED dlq
    /\ UNCHANGED pruned

-----------------------------------------------------------------------------
(***************************************************************************)
(* moveRawToDLQLocked, one transaction: an entry with another payload is   *)
(* an integrity error; otherwise the entry exists afterwards and the row   *)
(* is gone from events.                                                    *)
(***************************************************************************)
CanMove(id, c, s) ==
    id \in DOMAIN dlq => dlq[id] = [content |-> c, seq |-> s]

(* M: the INSERT without the DELETE, and the DELETE without the INSERT.    *)
M_InsertOnly(id, c, s) == dlq' = Put(dlq, id, [content |-> c, seq |-> s]) /\ events' = events
M_DeleteOnly(id, c, s) == dlq' = dlq /\ events' = Drop(events, {id})

MoveRaw(id, c, s) ==
    /\ dlq'    = Put(dlq, id, [content |-> c, seq |-> s])
    /\ events' = Drop(events, {id})

MoveToDLQ(id, c, s) ==
    /\ Idle
    /\ CanMove(id, c, s)
    /\ MoveRaw(id, c, s)
    /\ UNCHANGED <<agentState, call, ghosts>>

(***************************************************************************)
(* GetPendingEvents selects the oldest due rows.  Its only change: rows of *)
(* the batch that no longer deserialize are dead-lettered, each in its own *)
(* transaction, until one fails.                                           *)
(***************************************************************************)
Due == {id \in DOMAIN events : events[id].due}

PendingBatch(limit) ==
    {id \in Due : Cardinality({x \in Due : events[x].seq < events[id].seq}) < limit}

QuarantineCorrupt(ids) ==
    /\ Idle
    /\ \A id \in ids : /\ id \in Due /\ events[id].content = Garbage
                       /\ CanMove(id, Garbage, events[id].seq)
    /\ dlq' = [x \in DOMAIN dlq \cup ids |->
                 IF x \in ids THEN [content |-> Garbage, seq |-> events[x].seq] ELSE dlq[x]]
    /\ events' = Drop(events, ids)
    /\ UNCHANGED <<agentState, call, ghosts>>

RemoveEvent(id) ==
    /\ Idle
    /\ events' = Drop(events, {id})
    /\ UNCHANGED <<dlq, agentState, call, ghosts>>

(* MarkFailed finds the row and schedules it later than now.               *)
MarkFailed(id) ==
    /\ Idle
    /\ id \in DOMAIN events
    /\ events' = [events EXCEPT ![id].due = FALSE]
    /\ UNCHANGED <<dlq, agentState, call, ghosts>>

(* M: next_attempt_at is compared in another format and never passes.      *)
M_NeverDue(id) == FALSE /\ UNCHANGED vars

(* Time passes next_attempt_at.                                            *)
BecomeDue(id) ==
    /\ id \in DOMAIN events
    /\ ~events[id].due
    /\ events' = [events EXCEPT ![id].due = TRUE]
    /\ UNCHANGED <<dlq, agentState, call, ghosts>>

(* External: a payload on disk stops being valid JSON.                     *)
CorruptRow(id) ==
    /\ id \in DOMAIN events
    /\ events[id].content # Garbage
    /\ events' = [events EXCEPT ![id].content = Garbage]
    /\ UNCHANGED <<dlq, agentState, call, ghosts>>

(* The process dies inside or outside Store and opens the database again.  *)
Crash ==
    /\ call' = Returned("nil", 0)
    /\ UNCHANGED <<tables, ghosts>>

-----------------------------------------------------------------------------
StoreStep(size, cancelled) ==
    \/ CheckQuota(size)
    \/ PruneRound(size, cancelled)
    \/ Account(cancelled)
    \/ Verdict(size, cancelled)
    \/ StoreTx(cancelled)

Next ==
    \/ \E id \in EventIds, c \in Contents, s \in CallerSeqs, x \in BOOLEAN :
          StoreBegin(id, c, s, x)
    \/ \E size \in TotalSize, x \in BOOLEAN : StoreStep(size, x)
    \/ \E id \in EventIds, c \in Contents, s \in CallerSeqs : MoveToDLQ(id, c, s)
    \/ \E ids \in SUBSET EventIds : QuarantineCorrupt(ids)
    \/ \E id \in EventIds : RemoveEvent(id)
    \/ \E id \in EventIds : MarkFailed(id)
    \/ \E id \in EventIds : BecomeDue(id)
    \/ \E id \in EventIds : CorruptRow(id)
    \/ Crash

Spec == Init /\ [][Next]_vars

-----------------------------------------------------------------------------
TableOf(rows, t) == DOMAIN t \subseteq EventIds /\ t \in [DOMAIN t -> rows]

EventRow   == [content : Payload, seq : Nat, due : BOOLEAN]
DlqRow     == [content : Payload, seq : Nat]
AgentState == [nextSeq : Nat \ {0}, dropped : [Severities -> Nat],
               pressure : {"NULL", "PRUNING", "EMERGENCY", "OK"}]
Calls      == [pc : Pcs, err : Errs, id : EventIds \cup {NoEvent},
               content : Payload, seq : Nat, tier : 1..3, rows : Nat]

(* The tables hold well-formed rows of known events, and the call in the   *)
(* mutex is at a known statement.                                          *)
TypeOK ==
    /\ TableOf(EventRow, events)
    /\ TableOf(DlqRow, dlq)
    /\ agentState \in AgentState
    /\ call \in Calls
    /\ allocated \in SUBSET (EventIds \X Nat)
    /\ pruned \in SUBSET (EventIds \X Nat)

(***************************************************************************)
(* An event_id has one durable home: never a row in events and an entry in *)
(* dead_letter_queue at once (Store checks both tables, MoveToDLQ deletes  *)
(* and inserts in one transaction).                                        *)
(***************************************************************************)
OneHome == DOMAIN events \cap DOMAIN dlq = {}

(***************************************************************************)
(* A sequence number is given to one committed INSERT only, the counter is *)
(* ahead of all of them, and a row carries the number it was allocated: no *)
(* crash, uncertain commit or pruning makes Store reuse one, so the UNIQUE *)
(* (device_id, seq_no) constraint can never reject an INSERT.              *)
(***************************************************************************)
SeqAllocatedOnce ==
    /\ \A p, q \in allocated : p[2] = q[2] => p[1] = q[1]
    /\ \A p \in allocated : p[2] < agentState.nextSeq
    /\ \A id \in DOMAIN events : <<id, events[id].seq>> \in allocated

(***************************************************************************)
(* enforceQuota never counts a row it did not delete: what agent_state     *)
(* reports as dropped is at most what was really pruned, and short of it   *)
(* by the batch a running Account still has to add, or by batches whose    *)
(* Account was interrupted.                                                *)
(***************************************************************************)
NeverOvercounted ==
    \A s \in Severities :
        agentState.dropped[s]
          + (IF call.pc = "account" /\ Prunable[call.tier] = s THEN call.rows ELSE 0)
        <= Cardinality({p \in pruned : Sev[p[1]] = s})

(***************************************************************************)
(* The quota spares CRITICAL and FATAL rows, takes a row of a severity     *)
(* only when no row of a less important one is left, and takes the oldest  *)
(* ones first: a step of the pruning loop deletes only such rows.          *)
(***************************************************************************)
Importance(sev) ==
    CASE sev = "DEBUG" -> 1 [] sev = "INFO" -> 2 [] sev = "WARNING" -> 3
      [] sev = "CRITICAL" -> 4 [] sev = "FATAL" -> 5

PrunedInOrder ==
    call.pc = "prune" =>
        \A id \in DOMAIN events \ DOMAIN events' :
            /\ Sev[id] \notin Critical
            /\ \A x \in DOMAIN events : Importance(Sev[id]) <= Importance(Sev[x])
            /\ \A x \in DOMAIN events' :
                 Sev[x] = Sev[id] => events[id].seq < events[x].seq

PruneRespectsPriority == [][PrunedInOrder]_vars
=============================================================================
