-------------------------- MODULE EventStoreProofs --------------------------
(***************************************************************************)
(* Theorems about EventStore, for every set of events, every severity, any *)
(* pruning batch and any number of allocations.                            *)
(***************************************************************************)
EXTENDS EventStore, FiniteSetTheorems, WellFoundedInduction, TLAPS

(***************************************************************************)
(* The strengthening.  While a Store is past its idempotency check its id  *)
(* is in neither table, because the mutex keeps every other writer out;    *)
(* and the pruning loop has emptied the severities before its own.         *)
(***************************************************************************)
NewId == ~Idle => call.id \in EventIds \ (DOMAIN events \cup DOMAIN dlq)

Pruning == call.pc \in {"prune", "account", "verdict"}

TiersEmptied ==
    Pruning => \A id \in DOMAIN events : \A i \in 1..3 :
                 i < call.tier => Sev[id] # Prunable[i]

(* The loop starts with the first severity.                                *)
AtQuota == call.pc = "quota" => call.tier = 1

IInv == TypeOK /\ OneHome /\ SeqAllocatedOnce /\ NewId /\ TiersEmptied /\ AtQuota

-----------------------------------------------------------------------------
(* The table operations keep tables tables.                                *)
LEMMA PutTable ==
    ASSUME NEW rows, NEW t, TableOf(rows, t), NEW id \in EventIds, NEW row \in rows
    PROVE  TableOf(rows, Put(t, id, row))
BY DEF TableOf, Put

(* Removing rows (a DELETE) leaves a table.                                *)
LEMMA DropTable ==
    ASSUME NEW rows, NEW t, TableOf(rows, t), NEW ids
    PROVE  TableOf(rows, Drop(t, ids))
BY DEF TableOf, Drop

(* A Store that returns leaves a well-formed outcome.                      *)
LEMMA ReturnedType ==
    ASSUME NEW err \in Errs, NEW s \in Nat
    PROVE  Returned(err, s) \in Calls /\ Returned(err, s).pc = "idle"
BY DEF Returned, Calls, Pcs, Payload

(* A failing statement surfaces as one of the two sentinel errors.         *)
LEMMA FailureType == \A x \in BOOLEAN : Failure(x) \in Errs
BY DEF Failure, Errs

(* The three severities of the pruning loop.                               *)
LEMMA PrunableTiers ==
    /\ Len(Prunable) = 3
    /\ \A i \in 1..3 : Prunable[i] \in Severities \ Critical
    /\ \A i, j \in 1..3 : Prunable[i] = Prunable[j] => i = j
<1>1. /\ Len(Prunable) = 3
      /\ Prunable[1] = "DEBUG" /\ Prunable[2] = "INFO" /\ Prunable[3] = "WARNING"
  BY DEF Prunable
<1>2. \A i \in 1..3 : i = 1 \/ i = 2 \/ i = 3
  OBVIOUS
<1> QED
  BY <1>1, <1>2 DEF Severities, Critical

-----------------------------------------------------------------------------
(* The first Init() of a fresh database satisfies the invariant.           *)
LEMMA InitIInv == Init => IInv
<1> SUFFICES ASSUME Init PROVE IInv
  OBVIOUS
<1>1. TypeOK
  <2>1. TableOf(EventRow, events) /\ TableOf(DlqRow, dlq)
    BY DEF Init, TableOf
  <2>2. agentState \in AgentState
    BY DEF Init, AgentState
  <2>3. call \in Calls
    BY ReturnedType DEF Init, Errs
  <2> QED
    BY <2>1, <2>2, <2>3 DEF Init, TypeOK
<1>2. OneHome /\ SeqAllocatedOnce /\ NewId /\ TiersEmptied /\ AtQuota
  BY DEF Init, AtQuota, OneHome, SeqAllocatedOnce, NewId, TiersEmptied, Pruning, Idle, Returned
<1> QED
  BY <1>1, <1>2 DEF IInv

(***************************************************************************)
(* Steps inside Store that touch no table: the call moves on, within the   *)
(* same id and without skipping a severity that still has rows, or ends.   *)
(***************************************************************************)
LEMMA CallOnly ==
    ASSUME IInv, UNCHANGED <<events, dlq, allocated, pruned>>,
           agentState' \in AgentState, agentState'.nextSeq = agentState.nextSeq,
           call' \in Calls,
           \/ call'.pc = "idle"
           \/ /\ ~Idle /\ call'.id = call.id
              /\ call'.pc # "quota" /\ (Pruning' => call'.tier = call.tier /\ Pruning)
           \/ ~Idle /\ call'.id = call.id /\ call'.tier = 1
    PROVE  IInv'
<1>1. TypeOK'
  BY DEF IInv, TypeOK
<1>2. OneHome' /\ SeqAllocatedOnce'
  BY DEF IInv, OneHome, SeqAllocatedOnce
<1>3. NewId'
  BY DEF IInv, NewId, Idle
<1>4. TiersEmptied'
  BY DEF IInv, TiersEmptied, Pruning, TypeOK, Calls
<1>5. AtQuota'
  BY DEF AtQuota
<1> QED
  BY <1>1, <1>2, <1>3, <1>4, <1>5 DEF IInv

(* Store's idempotency check keeps the invariant: the event it goes on with*)
(* is in neither table.                                                    *)
LEMMA StoreBeginIInv ==
    ASSUME IInv, NEW id \in EventIds, NEW c \in Contents, NEW s \in CallerSeqs,
           NEW x \in BOOLEAN, StoreBegin(id, c, s, x)
    PROVE  IInv'
<1>0. s \in Nat
  BY SeqAssumption
<1>1. CASE call' = Returned(Failure(x), s)
  <2>1. call' \in Calls /\ call'.pc = "idle"
    BY <1>0, <1>1, ReturnedType, FailureType
  <2> QED
    BY <2>1, CallOnly DEF StoreBegin, tables, ghosts, IInv, TypeOK
<1>2. CASE AnswerFrom(events, id, c) \/ AnswerFrom(dlq, id, c)
  <2>1. PICK t \in {events, dlq} : AnswerFrom(t, id, c)
    BY <1>2
  <2>2. t[id].seq \in Nat
    BY <2>1 DEF AnswerFrom, IInv, TypeOK, TableOf, EventRow, DlqRow
  <2>3. call' \in Calls /\ call'.pc = "idle"
    BY <2>1, <2>2, ReturnedType DEF AnswerFrom, Errs
  <2> QED
    BY <2>3, CallOnly DEF StoreBegin, tables, ghosts, IInv, TypeOK
<1>3. CASE /\ id \notin DOMAIN events \cup DOMAIN dlq
           /\ call' = Started(id, c, s)
  <2>1. call' \in Calls /\ call'.pc = "quota" /\ call'.id = id /\ call'.tier = 1
    BY <1>0, <1>3 DEF Started, Calls, Pcs, Errs, Payload
  <2>2. UNCHANGED <<events, dlq, agentState, allocated, pruned>>
    BY DEF StoreBegin, tables, ghosts
  <2> QED
    BY <1>3, <2>1, <2>2
    DEF IInv, TypeOK, OneHome, SeqAllocatedOnce, NewId, TiersEmptied, Pruning, AtQuota
<1> QED
  BY <1>1, <1>2, <1>3 DEF StoreBegin

(* The first reading of the size keeps the invariant.                      *)
LEMMA CheckQuotaIInv ==
    ASSUME IInv, NEW size \in TotalSize, CheckQuota(size)
    PROVE  IInv'
<1>1. call \in Calls /\ ~Idle
  BY DEF IInv, TypeOK, CheckQuota, Idle
<1>2. CASE \E pc \in {"prune", "tx"} : Goto(pc)
  <2>1. call' \in Calls /\ call'.id = call.id
    BY <1>1, <1>2 DEF Goto, Calls, Pcs
  <2>2. call'.tier = 1
    BY <1>1, <1>2 DEF Goto, Calls, CheckQuota, IInv, AtQuota
  <2> QED
    BY <1>1, <2>1, <2>2, CallOnly DEF CheckQuota, tables, ghosts, IInv, TypeOK
<1>3. CASE Return("failed")
  <2>1. call' \in Calls /\ call'.pc = "idle"
    BY <1>1, <1>3, ReturnedType DEF Return, Calls, Errs
  <2> QED
    BY <2>1, CallOnly DEF CheckQuota, tables, ghosts, IInv, TypeOK
<1> QED
  BY <1>2, <1>3 DEF CheckQuota

(* The oldest batch is a finite set of rows of the severity asked for, and *)
(* every row of that severity it leaves out is newer than all of it.       *)
LEMMA BatchIsOldest ==
    ASSUME TypeOK, NEW sev
    PROVE  /\ OldestBatch(sev) \subseteq DOMAIN events
           /\ Cardinality(OldestBatch(sev)) \in Nat
           /\ \A id \in OldestBatch(sev) : Sev[id] = sev
           /\ \A id \in OldestBatch(sev), x \in DOMAIN events \ OldestBatch(sev) :
                Sev[x] = sev => events[id].seq < events[x].seq
<1> DEFINE rows     == {id \in DOMAIN events : Sev[id] = sev}
           older(id) == {x \in rows : events[x].seq < events[id].seq}
<1>1. IsFiniteSet(DOMAIN events) /\ IsFiniteSet(rows)
  BY IdAssumption, FS_Subset DEF TypeOK, TableOf
<1>2. OldestBatch(sev) = {id \in rows : Cardinality(older(id)) < PruneBatch}
  BY DEF OldestBatch
<1>3. Cardinality(OldestBatch(sev)) \in Nat
  BY <1>1, <1>2, FS_Subset, FS_CardinalityType
<1>4. ASSUME NEW id \in OldestBatch(sev), NEW x \in DOMAIN events \ OldestBatch(sev),
             Sev[x] = sev
      PROVE  events[id].seq < events[x].seq
  <2>1. events[id].seq \in Nat /\ events[x].seq \in Nat
    BY <1>2 DEF TypeOK, TableOf, EventRow
  <2>2. IsFiniteSet(older(id)) /\ IsFiniteSet(older(x))
    BY <1>1, FS_Subset
  <2>3. Cardinality(older(id)) \in Nat /\ Cardinality(older(x)) \in Nat
    BY <2>2, FS_CardinalityType
  <2>4. Cardinality(older(id)) < PruneBatch /\ ~(Cardinality(older(x)) < PruneBatch)
    BY <1>2, <1>4
  <2>5. SUFFICES ASSUME events[x].seq <= events[id].seq PROVE FALSE
    BY <2>1
  <2>6. older(x) \subseteq older(id)
    BY <2>1, <2>5 DEF TypeOK, TableOf, EventRow
  <2>7. Cardinality(older(x)) <= Cardinality(older(id))
    BY <2>2, <2>6, FS_Subset
  <2> QED
    BY <2>3, <2>4, <2>7, PruneAssumption
<1> QED
  BY <1>2, <1>3, <1>4

(* The natural numbers are well-ordered.                                  *)
LEMMA SmallestNat ==
    ASSUME NEW T \in SUBSET Nat, T # {}
    PROVE  \E n \in T : \A m \in T : n <= m
<1> DEFINE R == {p \in Nat \X Nat : p[1] < p[2]}
<1>1. R = OpToRel(<, Nat)
  BY DEF OpToRel
<1>2. IsWellFoundedOn(R, Nat)
  BY <1>1, NatLessThanWellFounded
<1>3. PICK n \in T : \A m \in T : ~ (<<m, n>> \in R)
  <2> HIDE DEF R
  <2> QED
    BY <1>2, WFMin
<1>4. ASSUME NEW m \in T PROVE n <= m
  <2>1. n \in Nat /\ m \in Nat /\ ~ (<<m, n>> \in R)
    BY <1>3
  <2>2. ~(m < n)
    BY <2>1
  <2> QED
    BY <2>1, <2>2
<1> QED
  BY <1>4

(* An empty batch means that the severity has no row: its oldest row, if   *)
(* there were one, would be in the batch.                                  *)
LEMMA EmptyBatch ==
    ASSUME TypeOK, NEW sev, OldestBatch(sev) = {}
    PROVE  \A id \in DOMAIN events : Sev[id] # sev
<1> DEFINE rows == {id \in DOMAIN events : Sev[id] = sev}
           seqs == {events[id].seq : id \in rows}
<1> SUFFICES ASSUME rows # {} PROVE FALSE
  OBVIOUS
<1>1. seqs \subseteq Nat /\ seqs # {}
  BY DEF TypeOK, TableOf, EventRow
<1>2. PICK n \in seqs : \A m \in seqs : n <= m
  <2> HIDE DEF seqs
  <2> QED
    BY <1>1, SmallestNat
<1>3. PICK id \in rows : events[id].seq = n
  BY <1>2
<1>4. {x \in rows : events[x].seq < events[id].seq} = {}
  BY <1>1, <1>2, <1>3
<1>5. Cardinality({x \in rows : events[x].seq < events[id].seq}) < PruneBatch
  BY <1>4, FS_EmptySet, PruneAssumption
<1>6. id \in OldestBatch(sev)
  BY <1>5 DEF OldestBatch
<1> QED
  BY <1>6

(***************************************************************************)
(* Steps that drop or update rows and leave the call alone.  Only an idle  *)
(* store gets new dead letters.                                            *)
(***************************************************************************)
LEMMA RowsOnly ==
    ASSUME IInv, UNCHANGED <<agentState, call, allocated, pruned>>,
           TableOf(EventRow, events'), TableOf(DlqRow, dlq'),
           DOMAIN events' \subseteq DOMAIN events,
           \A id \in DOMAIN events' : events'[id].seq = events[id].seq,
           DOMAIN events' \cap DOMAIN dlq' = {},
           Idle \/ UNCHANGED dlq
    PROVE  IInv'
<1>1. TypeOK' /\ OneHome'
  BY DEF IInv, TypeOK, OneHome
<1>2. SeqAllocatedOnce'
  BY DEF IInv, SeqAllocatedOnce
<1>3. NewId' /\ TiersEmptied' /\ AtQuota'
  BY DEF IInv, NewId, TiersEmptied, AtQuota, Pruning, Idle
<1> QED
  BY <1>1, <1>2, <1>3 DEF IInv

(* moveRawToDLQLocked moves a row, so it never leaves an id in two tables. *)
LEMMA MoveToDLQIInv ==
    ASSUME IInv, NEW id \in EventIds, NEW c \in Contents, NEW s \in CallerSeqs,
           MoveToDLQ(id, c, s)
    PROVE  IInv'
<1>1. TableOf(EventRow, events')
  BY DropTable DEF IInv, TypeOK, MoveToDLQ, MoveRaw
<1>2. [content |-> c, seq |-> s] \in DlqRow
  BY SeqAssumption DEF DlqRow, Payload
<1>3. TableOf(DlqRow, dlq')
  BY <1>2, PutTable DEF IInv, TypeOK, MoveToDLQ, MoveRaw
<1>4. /\ DOMAIN events' \subseteq DOMAIN events
      /\ \A x \in DOMAIN events' : events'[x].seq = events[x].seq
  BY DEF MoveToDLQ, MoveRaw, Drop
<1>5. DOMAIN events' \cap DOMAIN dlq' = {}
  BY DEF MoveToDLQ, MoveRaw, Drop, Put, IInv, OneHome
<1> QED
  BY <1>1, <1>3, <1>4, <1>5, RowsOnly DEF MoveToDLQ, ghosts

(* Dead-lettering the corrupt rows of a batch keeps the invariant.         *)
LEMMA QuarantineIInv ==
    ASSUME IInv, NEW ids \in SUBSET EventIds, QuarantineCorrupt(ids)
    PROVE  IInv'
<1>1. TableOf(EventRow, events')
  BY DropTable DEF IInv, TypeOK, QuarantineCorrupt
<1>2. \A x \in ids : x \in DOMAIN events /\ events[x].seq \in Nat
  BY DEF IInv, TypeOK, TableOf, EventRow, QuarantineCorrupt, Due
<1>3. TableOf(DlqRow, dlq')
  BY <1>2 DEF IInv, TypeOK, TableOf, DlqRow, Payload, QuarantineCorrupt
<1>4. /\ DOMAIN events' \subseteq DOMAIN events
      /\ \A x \in DOMAIN events' : events'[x].seq = events[x].seq
  BY DEF QuarantineCorrupt, Drop
<1>5. DOMAIN events' \cap DOMAIN dlq' = {}
  BY DEF QuarantineCorrupt, Drop, IInv, OneHome
<1> QED
  BY <1>1, <1>3, <1>4, <1>5, RowsOnly DEF QuarantineCorrupt, ghosts

(* Deleting a forwarded row keeps the invariant.                           *)
LEMMA RemoveEventIInv ==
    ASSUME IInv, NEW id \in EventIds, RemoveEvent(id)
    PROVE  IInv'
<1>1. TableOf(EventRow, events')
  BY DropTable DEF IInv, TypeOK, RemoveEvent
<1>2. /\ DOMAIN events' \subseteq DOMAIN events
      /\ \A x \in DOMAIN events' : events'[x].seq = events[x].seq
      /\ DOMAIN events' \cap DOMAIN dlq' = {}
  BY DEF RemoveEvent, Drop, IInv, OneHome
<1> QED
  BY <1>1, <1>2, RowsOnly DEF RemoveEvent, ghosts, IInv, TypeOK

(* MarkFailed, the passing of a retry time and corruption on disk change   *)
(* one row, and not its number.                                            *)
LEMMA UpdateRow ==
    ASSUME TypeOK, NEW id \in EventIds,
           MarkFailed(id) \/ BecomeDue(id) \/ CorruptRow(id)
    PROVE  /\ TableOf(EventRow, events') /\ DOMAIN events' = DOMAIN events
           /\ \A x \in DOMAIN events' : events'[x].seq = events[x].seq
           /\ UNCHANGED <<dlq, agentState, call, allocated, pruned>>
<1>0. id \in DOMAIN events /\ events[id] \in EventRow
  BY DEF TypeOK, TableOf, MarkFailed, BecomeDue, CorruptRow
<1>1. PICK row \in EventRow : /\ row.seq = events[id].seq
                              /\ events' = [events EXCEPT ![id] = row]
  <2>1. CASE MarkFailed(id)
    <3>1. [events[id] EXCEPT !.due = FALSE] \in EventRow
      BY <1>0 DEF EventRow
    <3>2. [events[id] EXCEPT !.due = FALSE].seq = events[id].seq
      BY <1>0 DEF EventRow
    <3> QED
      BY <2>1, <3>1, <3>2 DEF MarkFailed
  <2>2. CASE BecomeDue(id)
    <3>1. [events[id] EXCEPT !.due = TRUE] \in EventRow
      BY <1>0 DEF EventRow
    <3>2. [events[id] EXCEPT !.due = TRUE].seq = events[id].seq
      BY <1>0 DEF EventRow
    <3> QED
      BY <2>2, <3>1, <3>2 DEF BecomeDue
  <2>3. CASE CorruptRow(id)
    <3>1. [events[id] EXCEPT !.content = Garbage] \in EventRow
      BY <1>0 DEF EventRow, Payload
    <3>2. [events[id] EXCEPT !.content = Garbage].seq = events[id].seq
      BY <1>0 DEF EventRow
    <3> QED
      BY <2>3, <3>1, <3>2 DEF CorruptRow
  <2> QED
    BY <2>1, <2>2, <2>3
<1>2. TableOf(EventRow, events')
  BY <1>1 DEF TypeOK, TableOf
<1>3. /\ DOMAIN events' = DOMAIN events
      /\ \A x \in DOMAIN events' : events'[x].seq = events[x].seq
  BY <1>0, <1>1 DEF TypeOK, TableOf
<1>4. UNCHANGED <<dlq, agentState, call, allocated, pruned>>
  BY DEF MarkFailed, BecomeDue, CorruptRow, ghosts
<1> QED
  BY <1>2, <1>3, <1>4

LEMMA UpdateIInv ==
    ASSUME IInv, NEW id \in EventIds,
           MarkFailed(id) \/ BecomeDue(id) \/ CorruptRow(id)
    PROVE  IInv'
<1>1. /\ TableOf(EventRow, events') /\ DOMAIN events' = DOMAIN events
      /\ \A x \in DOMAIN events' : events'[x].seq = events[x].seq
      /\ UNCHANGED <<dlq, agentState, call, allocated, pruned>>
  BY UpdateRow DEF IInv
<1>2. DOMAIN events' \cap DOMAIN dlq' = {}
  BY <1>1 DEF IInv, OneHome
<1> QED
  BY <1>1, <1>2, RowsOnly DEF IInv, TypeOK

(* A crash inside Store loses the call and nothing else.                   *)
LEMMA CrashIInv ==
    ASSUME IInv, Crash
    PROVE  IInv'
<1>1. call' \in Calls /\ call'.pc = "idle"
  BY ReturnedType DEF Crash, Errs
<1> QED
  BY <1>1, CallOnly DEF Crash, tables, ghosts, IInv, TypeOK

-----------------------------------------------------------------------------
(* One round of pruning.  A batch takes only rows of the current severity, *)
(* and a severity is passed over only when it has no row left.             *)
LEMMA PruneRoundIInv ==
    ASSUME IInv, NEW size \in TotalSize, NEW x \in BOOLEAN, PruneRound(size, x)
    PROVE  IInv'
<1> DEFINE batch == OldestBatch(Prunable[call.tier])
<1>1. call \in Calls /\ ~Idle /\ Pruning /\ call.tier \in 1..3
  BY DEF IInv, TypeOK, PruneRound, Idle, Pruning, Calls
<1>2. CASE /\ \/ Goto("tx") \/ Goto("verdict") \/ Return(Failure(x))
           /\ UNCHANGED <<events, pruned>>
  <2>1. call' \in Calls
    <3>1. CASE Goto("tx") \/ Goto("verdict")
      BY <1>1, <3>1 DEF Goto, Calls, Pcs
    <3>2. CASE Return(Failure(x))
      BY <1>1, <3>2, ReturnedType, FailureType DEF Return, Calls
    <3> QED
      BY <1>2, <3>1, <3>2
  <2>2. \/ call'.pc = "idle"
        \/ /\ ~Idle /\ call'.id = call.id
           /\ call'.pc # "quota" /\ (Pruning' => call'.tier = call.tier /\ Pruning)
    BY <1>1, <1>2 DEF Goto, Return, Returned, Calls
  <2> QED
    BY <1>2, <2>1, <2>2, CallOnly DEF PruneRound, IInv, TypeOK
<1>3. CASE /\ events' = Drop(events, batch)
           /\ pruned' = pruned \cup {<<id, events[id].seq>> : id \in batch}
           /\ call' = [call EXCEPT !.pc = "account", !.rows = Cardinality(batch)]
  <2>1. batch \subseteq DOMAIN events /\ Cardinality(batch) \in Nat
    BY BatchIsOldest DEF IInv
  <2>2. call' \in Calls /\ call'.id = call.id /\ call'.tier = call.tier /\ call'.pc = "account"
    BY <1>1, <1>3, <2>1 DEF Calls, Pcs
  <2>3. TableOf(EventRow, events')
    BY <1>3, DropTable DEF IInv, TypeOK
  <2>4. pruned' \in SUBSET (EventIds \X Nat)
    <3>1. \A id \in batch : <<id, events[id].seq>> \in EventIds \X Nat
      BY <2>1 DEF IInv, TypeOK, TableOf, EventRow
    <3> QED
      BY <1>3, <3>1 DEF IInv, TypeOK
  <2>5. UNCHANGED <<dlq, agentState, allocated>>
    BY DEF PruneRound
  <2>6. TypeOK'
    BY <2>2, <2>3, <2>4, <2>5 DEF IInv, TypeOK
  <2>7. /\ DOMAIN events' \subseteq DOMAIN events
        /\ \A id \in DOMAIN events' : events'[id].seq = events[id].seq
    BY <1>3 DEF Drop
  <2>8. OneHome' /\ SeqAllocatedOnce'
    BY <2>5, <2>7 DEF IInv, OneHome, SeqAllocatedOnce
  <2>9. NewId' /\ TiersEmptied' /\ AtQuota'
    BY <1>1, <2>2, <2>5, <2>7 DEF IInv, NewId, TiersEmptied, AtQuota, Pruning, Idle
  <2> QED
    BY <2>6, <2>8, <2>9 DEF IInv
<1>4. CASE /\ batch = {} /\ call.tier < Len(Prunable)
           /\ call' = [call EXCEPT !.tier = @ + 1]
           /\ UNCHANGED <<events, pruned>>
  <2>1. /\ call' \in Calls /\ call'.id = call.id /\ call'.pc = call.pc
        /\ call'.tier = call.tier + 1
    BY <1>1, <1>4, PrunableTiers DEF Calls
  <2>2. UNCHANGED <<events, dlq, agentState, allocated, pruned>>
    BY <1>4 DEF PruneRound
  <2>3. TypeOK' /\ OneHome' /\ SeqAllocatedOnce' /\ NewId' /\ AtQuota'
    BY <1>1, <2>1, <2>2
    DEF IInv, TypeOK, OneHome, SeqAllocatedOnce, NewId, AtQuota, Idle, Pruning
  <2>4. \A id \in DOMAIN events : Sev[id] # Prunable[call.tier]
    BY <1>4, EmptyBatch DEF IInv
  <2>5. TiersEmptied'
    BY <1>1, <2>1, <2>2, <2>4 DEF IInv, TiersEmptied, Pruning
  <2> QED
    BY <2>3, <2>5 DEF IInv
<1> QED
  BY <1>2, <1>3, <1>4 DEF PruneRound

(* Counting a deleted batch keeps the invariant.                           *)
LEMMA AccountIInv ==
    ASSUME IInv, NEW x \in BOOLEAN, Account(x)
    PROVE  IInv'
<1>1. call \in Calls /\ ~Idle /\ Pruning /\ call.tier \in 1..3 /\ agentState \in AgentState
  BY DEF IInv, TypeOK, Account, Idle, Pruning, Calls
<1>2. CASE Return(Failure(x)) /\ UNCHANGED agentState
  <2>1. call' \in Calls /\ call'.pc = "idle"
    BY <1>1, <1>2, ReturnedType, FailureType DEF Return, Calls
  <2> QED
    BY <1>1, <1>2, <2>1, CallOnly DEF Account, ghosts
<1>3. CASE /\ agentState' = [agentState EXCEPT !.dropped[Prunable[call.tier]] = @ + call.rows,
                                               !.pressure = "PRUNING"]
           /\ call' = [call EXCEPT !.pc = "prune", !.rows = 0]
  <2>1. /\ call' \in Calls /\ call'.id = call.id /\ call'.tier = call.tier
        /\ call'.pc = "prune"
    BY <1>1, <1>3 DEF Calls, Pcs
  <2>2. agentState' \in AgentState /\ agentState'.nextSeq = agentState.nextSeq
    <3>1. call.rows \in Nat /\ Prunable[call.tier] \in Severities
      BY <1>1, PrunableTiers DEF Calls
    <3>2. [agentState.dropped EXCEPT ![Prunable[call.tier]] = @ + call.rows]
             \in [Severities -> Nat]
      BY <1>1, <3>1 DEF AgentState
    <3>3. agentState' = [agentState EXCEPT
             !.dropped = [agentState.dropped EXCEPT ![Prunable[call.tier]] = @ + call.rows],
             !.pressure = "PRUNING"]
      BY <1>1, <1>3 DEF AgentState
    <3> QED
      BY <1>1, <3>2, <3>3 DEF AgentState
  <2> QED
    BY <1>1, <2>1, <2>2, CallOnly DEF Account, ghosts, Pruning
<1> QED
  BY <1>2, <1>3 DEF Account

(* The verdict at the end of the pruning loop keeps the invariant.         *)
LEMMA VerdictIInv ==
    ASSUME IInv, NEW size \in TotalSize, NEW x \in BOOLEAN, Verdict(size, x)
    PROVE  IInv'
<1>1. call \in Calls /\ ~Idle /\ agentState \in AgentState
  BY DEF IInv, TypeOK, Verdict, Idle
<1>2. agentState' \in AgentState /\ agentState'.nextSeq = agentState.nextSeq
  BY <1>1 DEF Verdict, AgentState
<1>3. CASE Goto("tx")
  <2>1. call' \in Calls /\ call'.id = call.id /\ call'.pc = "tx"
    BY <1>1, <1>3 DEF Goto, Calls, Pcs
  <2> QED
    BY <1>1, <1>2, <2>1, CallOnly DEF Verdict, ghosts, Pruning
<1>4. CASE \E err \in {Failure(x), "failed"} : Return(err)
  <2>0. PICK err \in Errs : call' = Returned(err, call.seq)
    BY <1>4, FailureType DEF Return, Errs
  <2>1. call' \in Calls /\ call'.pc = "idle"
    BY <1>1, <2>0, ReturnedType DEF Calls
  <2> QED
    BY <1>2, <2>1, CallOnly DEF Verdict, ghosts
<1> QED
  BY <1>3, <1>4 DEF Verdict

(* The transaction gives the event the next number, which no INSERT had.   *)
LEMMA StoreTxIInv ==
    ASSUME IInv, NEW x \in BOOLEAN, StoreTx(x)
    PROVE  IInv'
<1>1. /\ call \in Calls /\ ~Idle /\ agentState \in AgentState /\ agentState.nextSeq \in Nat
      /\ call.id \in EventIds \ (DOMAIN events \cup DOMAIN dlq)
  BY DEF IInv, TypeOK, StoreTx, Idle, AgentState, NewId
<1>2. call' \in Calls /\ call'.pc = "idle"
  <2>1. \E err \in Errs, s \in Nat : call' = Returned(err, s)
    BY <1>1, FailureType DEF StoreTx, Return, Calls, Errs
  <2> QED
    BY <2>1, ReturnedType
<1>3. CASE UNCHANGED <<tables, allocated>>
  BY <1>1, <1>2, <1>3, CallOnly DEF StoreTx, tables
<1>4. CASE Allocate /\ UNCHANGED dlq
  <2> DEFINE n   == agentState.nextSeq
             row == [content |-> call.content, seq |-> n, due |-> TRUE]
  <2>1. row \in EventRow
    BY <1>1 DEF EventRow, Calls
  <2>2. TableOf(EventRow, events')
    <3> HIDE DEF row
    <3>1. events' = Put(events, call.id, row)
      BY <1>4 DEF Allocate, row
    <3> QED
      BY <1>1, <2>1, <3>1, PutTable DEF IInv, TypeOK
  <2>3. agentState' \in AgentState /\ agentState'.nextSeq = n + 1
    BY <1>1, <1>4 DEF Allocate, AgentState
  <2>4. allocated' = allocated \cup {<<call.id, n>>}
    BY <1>4 DEF Allocate
  <2>5. TypeOK'
    BY <1>1, <1>2, <1>4, <2>2, <2>3, <2>4 DEF IInv, TypeOK, StoreTx
  <2>6. /\ DOMAIN events' = DOMAIN events \cup {call.id}
        /\ events'[call.id].seq = n
        /\ \A id \in DOMAIN events : events'[id] = events[id]
    BY <1>1, <1>4 DEF Allocate, Put
  <2>7. OneHome'
    BY <1>1, <1>4, <2>6 DEF IInv, OneHome
  <2>8. SeqAllocatedOnce'
    <3>1. \A p \in allocated : p[2] \in Nat /\ p[2] < n
      BY DEF IInv, TypeOK, SeqAllocatedOnce
    <3>2. \A p, q \in allocated' : p[2] = q[2] => p[1] = q[1]
      BY <1>1, <2>4, <3>1 DEF IInv, SeqAllocatedOnce
    <3>3. \A p \in allocated' : p[2] < agentState'.nextSeq
      BY <1>1, <2>3, <2>4, <3>1
    <3>4. \A id \in DOMAIN events' : <<id, events'[id].seq>> \in allocated'
      BY <2>4, <2>6 DEF IInv, SeqAllocatedOnce
    <3> QED
      BY <3>2, <3>3, <3>4 DEF SeqAllocatedOnce
  <2>9. NewId' /\ TiersEmptied' /\ AtQuota'
    BY <1>2 DEF NewId, TiersEmptied, AtQuota, Pruning, Idle
  <2> QED
    BY <2>5, <2>7, <2>8, <2>9 DEF IInv
<1> QED
  BY <1>3, <1>4 DEF StoreTx

-----------------------------------------------------------------------------
(* Every step of the store, a crash included, keeps the invariant.         *)
LEMMA NextIInv == IInv /\ [Next]_vars => IInv'
<1> SUFFICES ASSUME IInv, [Next]_vars PROVE IInv'
  OBVIOUS
<1>1. ASSUME NEW id \in EventIds, NEW c \in Contents, NEW s \in CallerSeqs,
             NEW x \in BOOLEAN, StoreBegin(id, c, s, x)
      PROVE  IInv'
  BY <1>1, StoreBeginIInv
<1>2. ASSUME NEW size \in TotalSize, NEW x \in BOOLEAN, StoreStep(size, x)
      PROVE  IInv'
  BY <1>2, CheckQuotaIInv, PruneRoundIInv, AccountIInv, VerdictIInv, StoreTxIInv
  DEF StoreStep
<1>3. ASSUME NEW id \in EventIds, NEW c \in Contents, NEW s \in CallerSeqs,
             MoveToDLQ(id, c, s)
      PROVE  IInv'
  BY <1>3, MoveToDLQIInv
<1>4. ASSUME NEW ids \in SUBSET EventIds, QuarantineCorrupt(ids)
      PROVE  IInv'
  BY <1>4, QuarantineIInv
<1>5. ASSUME NEW id \in EventIds, RemoveEvent(id) PROVE IInv'
  BY <1>5, RemoveEventIInv
<1>6. ASSUME NEW id \in EventIds, MarkFailed(id) \/ BecomeDue(id) \/ CorruptRow(id)
      PROVE  IInv'
  BY <1>6, UpdateIInv
<1>7. CASE Crash
  BY <1>7, CrashIInv
<1>8. CASE UNCHANGED vars
  BY <1>8 DEF vars, IInv, TypeOK, OneHome, SeqAllocatedOnce, NewId, TiersEmptied,
              AtQuota, Pruning, Idle
<1> QED
  BY <1>1, <1>2, <1>3, <1>4, <1>5, <1>6, <1>7, <1>8 DEF Next

(* The invariant holds in every reachable state.                           *)
LEMMA Invariance == Spec => []IInv
BY InitIInv, NextIInv, PTL DEF Spec

(***************************************************************************)
(* The tables and the call in the mutex are well-formed in every reachable *)
(* state, whatever the callers of the store do and wherever it crashes.    *)
(***************************************************************************)
THEOREM TypeCorrect == Spec => []TypeOK
<1>1. IInv => TypeOK
  BY DEF IInv
<1> QED
  BY <1>1, Invariance, PTL

(***************************************************************************)
(* No event_id is ever in events and in dead_letter_queue at once.         *)
(***************************************************************************)
THEOREM OneDurableHome == Spec => []OneHome
<1>1. IInv => OneHome
  BY DEF IInv
<1> QED
  BY <1>1, Invariance, PTL

(***************************************************************************)
(* No sequence number is allocated twice, and rows carry their own.        *)
(***************************************************************************)
THEOREM SeqNeverReused == Spec => []SeqAllocatedOnce
<1>1. IInv => SeqAllocatedOnce
  BY DEF IInv
<1> QED
  BY <1>1, Invariance, PTL

-----------------------------------------------------------------------------
(* The pruning loop visits the severities in the order of importance.      *)
LEMMA ImportanceOfTiers ==
    /\ \A i \in 1..3 : Importance(Prunable[i]) = i
    /\ \A sev \in Severities : Importance(sev) \in 1..3 => sev = Prunable[Importance(sev)]
<1>1. /\ Prunable[1] = "DEBUG" /\ Prunable[2] = "INFO" /\ Prunable[3] = "WARNING"
  BY DEF Prunable
<1>2. \A i \in 1..3 : i = 1 \/ i = 2 \/ i = 3
  OBVIOUS
<1>3. /\ Importance("DEBUG") = 1 /\ Importance("INFO") = 2 /\ Importance("WARNING") = 3
      /\ Importance("CRITICAL") = 4 /\ Importance("FATAL") = 5
  BY DEF Importance
<1> QED
  BY <1>1, <1>2, <1>3 DEF Severities

(* Rows that disappear while the pruning loop runs are a batch of its      *)
(* current severity: the mutex keeps every other deletion out.             *)
LEMMA OnlyBatchesDisappear ==
    ASSUME IInv, [Next]_vars, call.pc = "prune", DOMAIN events' # DOMAIN events
    PROVE  events' = Drop(events, OldestBatch(Prunable[call.tier]))
<1>1. ~Idle
  BY DEF Idle
<1>2. CASE UNCHANGED vars
  BY <1>2 DEF vars
<1>3. ASSUME NEW size \in TotalSize, NEW x \in BOOLEAN, StoreStep(size, x)
      PROVE  events' = Drop(events, OldestBatch(Prunable[call.tier]))
  BY <1>3 DEF StoreStep, CheckQuota, PruneRound, Account, Verdict, StoreTx, tables
<1>4. ASSUME NEW id \in EventIds, BecomeDue(id) \/ CorruptRow(id)
      PROVE  DOMAIN events' = DOMAIN events
  BY <1>4 DEF BecomeDue, CorruptRow
<1>5. CASE Crash
  BY <1>5 DEF Crash, tables
<1> QED
  BY <1>1, <1>2, <1>3, <1>4, <1>5
  DEF Next, StoreBegin, MoveToDLQ, QuarantineCorrupt, RemoveEvent, MarkFailed

(***************************************************************************)
(* Quota pruning never deletes a CRITICAL or FATAL row, deletes less       *)
(* important severities first, and within a severity the oldest rows.      *)
(***************************************************************************)
THEOREM PruningInOrder == Spec => PruneRespectsPriority
<1>1. IInv /\ [Next]_vars => PrunedInOrder
  <2> SUFFICES ASSUME IInv, [Next]_vars, call.pc = "prune",
                      NEW id \in DOMAIN events \ DOMAIN events'
               PROVE  /\ Sev[id] \notin Critical
                      /\ \A x \in DOMAIN events : Importance(Sev[id]) <= Importance(Sev[x])
                      /\ \A x \in DOMAIN events' :
                           Sev[x] = Sev[id] => events[id].seq < events[x].seq
    BY DEF PrunedInOrder
  <2> DEFINE sev   == Prunable[call.tier]
             batch == OldestBatch(sev)
  <2>1. events' = Drop(events, batch)
    BY OnlyBatchesDisappear
  <2>2. id \in batch /\ DOMAIN events' = DOMAIN events \ batch
    BY <2>1 DEF Drop
  <2>3. call.tier \in 1..3 /\ TypeOK
    BY DEF IInv, TypeOK, Calls
  <2>4. /\ Sev[id] = sev
        /\ \A x \in DOMAIN events \ batch : Sev[x] = sev => events[id].seq < events[x].seq
    BY <2>2, <2>3, BatchIsOldest
  <2>5. Sev[id] \notin Critical
    BY <2>3, <2>4, PrunableTiers
  <2>6. ASSUME NEW x \in DOMAIN events
        PROVE  Importance(Sev[id]) <= Importance(Sev[x])
    <3>1. Importance(Sev[id]) = call.tier
      BY <2>3, <2>4, ImportanceOfTiers
    <3>2. Sev[x] \in Severities
      BY <2>3, SevAssumption DEF TypeOK, TableOf
    <3>3. Importance(Sev[x]) \in 1..5
      BY <3>2 DEF Severities, Importance
    <3>4. ASSUME Importance(Sev[x]) < call.tier PROVE FALSE
      <4>1. Importance(Sev[x]) \in 1..3 /\ Sev[x] = Prunable[Importance(Sev[x])]
        BY <2>3, <3>2, <3>3, <3>4, ImportanceOfTiers
      <4> QED
        BY <3>4, <4>1 DEF IInv, TiersEmptied, Pruning
    <3> QED
      BY <2>3, <3>1, <3>3, <3>4
  <2> QED
    BY <2>2, <2>4, <2>5, <2>6
<1> QED
  BY <1>1, Invariance, PTL DEF Spec, PruneRespectsPriority

-----------------------------------------------------------------------------
(***************************************************************************)
(* Counting.  Pruned rows were allocated, and no row that is still there is*)
(* among them: so a batch adds to the pruned rows of its severity as many  *)
(* as it has.                                                              *)
(***************************************************************************)
PrunedApart ==
    /\ IsFiniteSet(pruned) /\ pruned \subseteq allocated
    /\ \A id \in DOMAIN events : <<id, events[id].seq>> \notin pruned

CountInv == PrunedApart /\ NeverOvercounted

PrunedOf(s) == {p \in pruned : Sev[p[1]] = s}

(* What the running Account still has to add.                              *)
Owed(s) == IF call.pc = "account" /\ Prunable[call.tier] = s THEN call.rows ELSE 0

LEMMA CountTypes ==
    ASSUME IInv, PrunedApart, NEW s \in Severities
    PROVE  /\ agentState.dropped[s] \in Nat /\ Owed(s) \in Nat
           /\ IsFiniteSet(PrunedOf(s)) /\ Cardinality(PrunedOf(s)) \in Nat
<1>1. agentState.dropped[s] \in Nat
  BY DEF IInv, TypeOK, AgentState
<1>2. Owed(s) \in Nat
  BY DEF IInv, TypeOK, Calls, Owed
<1>3. PrunedOf(s) \in SUBSET pruned
  BY DEF PrunedOf
<1>4. IsFiniteSet(PrunedOf(s))
  BY <1>3, FS_Subset DEF PrunedApart
<1> QED
  BY <1>1, <1>2, <1>4, FS_CardinalityType

(* A step that prunes nothing and counts nothing.                          *)
LEMMA CountsStay ==
    ASSUME IInv, CountInv, UNCHANGED pruned, agentState'.dropped = agentState.dropped,
           allocated \subseteq allocated',
           call' = call \/ call'.pc # "account",
           \A id \in DOMAIN events' : <<id, events'[id].seq>> \notin pruned
    PROVE  CountInv'
<1>1. PrunedApart'
  BY DEF CountInv, PrunedApart
<1>2. ASSUME NEW s \in Severities
      PROVE  agentState'.dropped[s] + Owed(s)' <= Cardinality(PrunedOf(s))
  <2>1. agentState.dropped[s] + Owed(s) <= Cardinality(PrunedOf(s))
    BY DEF CountInv, NeverOvercounted, Owed, PrunedOf
  <2>2. /\ agentState.dropped[s] \in Nat /\ Owed(s) \in Nat
        /\ Cardinality(PrunedOf(s)) \in Nat
    BY CountTypes DEF CountInv
  <2>3. Owed(s)' = Owed(s) \/ Owed(s)' = 0
    BY DEF Owed
  <2> QED
    BY <2>1, <2>2, <2>3
<1>3. NeverOvercounted'
  BY <1>2 DEF NeverOvercounted, Owed, PrunedOf
<1> QED
  BY <1>1, <1>3 DEF CountInv

(* The DELETE of a batch: its rows are new among the pruned ones.          *)
LEMMA CountsPruned ==
    ASSUME IInv, CountInv, call.tier \in 1..3,
           LET batch == OldestBatch(Prunable[call.tier])
           IN  /\ events' = Drop(events, batch)
               /\ pruned' = pruned \cup {<<id, events[id].seq>> : id \in batch}
               /\ call' = [call EXCEPT !.pc = "account", !.rows = Cardinality(batch)],
           UNCHANGED <<agentState, allocated>>, call.pc # "account"
    PROVE  CountInv'
<1> DEFINE sev   == Prunable[call.tier]
           batch == OldestBatch(sev)
           gone  == {<<id, events[id].seq>> : id \in batch}
<1>1. batch \subseteq DOMAIN events /\ Cardinality(batch) \in Nat
      /\ \A id \in batch : Sev[id] = sev
  BY BatchIsOldest DEF IInv
<1>2. /\ DOMAIN events' = DOMAIN events \ batch
      /\ \A id \in DOMAIN events' : events'[id] = events[id]
  BY DEF Drop
<1>3. call'.pc = "account" /\ call'.rows = Cardinality(batch) /\ call'.tier = call.tier
  BY DEF IInv, TypeOK, Calls
<1> HIDE DEF batch
<1>4. IsFiniteSet(batch)
  <2>1. DOMAIN events \in SUBSET EventIds
    BY DEF IInv, TypeOK, TableOf
  <2> QED
    BY <1>1, <2>1, IdAssumption, FS_Subset
<1>5. IsFiniteSet(gone) /\ Cardinality(gone) = Cardinality(batch)
  <2> DEFINE f == [id \in batch |-> <<id, events[id].seq>>]
  <2>1. f \in Injection(batch, gone)
    BY DEF Injection, IsInjective
  <2>2. f \in Surjection(batch, gone)
    BY DEF Surjection
  <2>3. f \in Bijection(batch, gone)
    BY <2>1, <2>2 DEF Bijection
  <2> QED
    BY <1>4, <2>3, FS_Bijection DEF ExistsBijection
<1>6. gone \cap pruned = {} /\ gone \subseteq allocated
  BY <1>1 DEF CountInv, PrunedApart, IInv, SeqAllocatedOnce
<1>7. pruned' = pruned \cup gone
  BY DEF batch
<1>8. PrunedApart'
  <2>1. IsFiniteSet(pruned')
    <3>1. IsFiniteSet(pruned)
      BY DEF CountInv, PrunedApart
    <3> HIDE DEF gone
    <3>2. IsFiniteSet(pruned \cup gone)
      BY <1>5, <3>1, FS_Union
    <3> QED
      BY <1>7, <3>2
  <2>2. \A id \in DOMAIN events' : <<id, events'[id].seq>> \notin pruned'
    BY <1>2, <1>7 DEF CountInv, PrunedApart
  <2>3. pruned' \subseteq allocated'
    BY <1>6, <1>7 DEF CountInv, PrunedApart
  <2> QED
    BY <2>1, <2>2, <2>3 DEF PrunedApart
<1>9. ASSUME NEW s \in Severities
      PROVE  agentState'.dropped[s] + Owed(s)' <= Cardinality(PrunedOf(s)')
  <2>1. /\ agentState.dropped[s] \in Nat
        /\ IsFiniteSet(PrunedOf(s)) /\ Cardinality(PrunedOf(s)) \in Nat
    BY CountTypes DEF CountInv
  <2>2. agentState.dropped[s] <= Cardinality(PrunedOf(s))
    <3>1. agentState.dropped[s] + 0 <= Cardinality(PrunedOf(s))
      BY DEF CountInv, NeverOvercounted, PrunedOf
    <3> QED
      BY <2>1, <3>1
  <2>3. CASE s = sev
    <3>1. PrunedOf(s)' = PrunedOf(s) \cup gone
      BY <1>1, <1>7, <2>3 DEF PrunedOf
    <3>2. PrunedOf(s) \cap gone = {}
      BY <1>6 DEF PrunedOf
    <3> HIDE DEF gone
    <3>3. Cardinality(PrunedOf(s) \cup gone) = Cardinality(PrunedOf(s)) + Cardinality(gone)
      <4>1. Cardinality(PrunedOf(s) \cup gone) =
                Cardinality(PrunedOf(s)) + Cardinality(gone) - Cardinality(PrunedOf(s) \cap gone)
        BY <1>5, <2>1, FS_Union
      <4>2. Cardinality(PrunedOf(s) \cap gone) = 0
        BY <3>2, FS_EmptySet
      <4> QED
        BY <1>1, <1>5, <2>1, <4>1, <4>2
    <3>4. Owed(s)' = Cardinality(batch)
      BY <1>3, <2>3 DEF Owed
    <3> QED
      BY <1>1, <1>5, <2>1, <2>2, <3>1, <3>3, <3>4
  <2>4. CASE s # sev
    <3>1. PrunedOf(s)' = PrunedOf(s)
      BY <1>1, <1>7, <2>4 DEF PrunedOf
    <3>2. Owed(s)' = 0
      BY <1>3, <2>4 DEF Owed
    <3> QED
      BY <2>1, <2>2, <3>1, <3>2
  <2> QED
    BY <2>3, <2>4
<1>10. NeverOvercounted'
  BY <1>9 DEF NeverOvercounted, Owed, PrunedOf
<1> QED
  BY <1>8, <1>10 DEF CountInv

(* The UPDATE turns what is owed into what is counted.                     *)
LEMMA CountsAccounted ==
    ASSUME IInv, CountInv, NEW x \in BOOLEAN, Account(x)
    PROVE  CountInv'
<1>1. /\ UNCHANGED <<events, allocated, pruned>> /\ call.pc = "account"
      /\ call \in Calls /\ agentState \in AgentState
  BY DEF Account, ghosts, IInv, TypeOK
<1>2. CASE Return(Failure(x)) /\ UNCHANGED agentState
  <2>1. call'.pc # "account"
    BY <1>2 DEF Return, Returned
  <2> QED
    BY <1>1, <1>2, <2>1, CountsStay DEF CountInv, PrunedApart
<1>3. CASE /\ agentState' = [agentState EXCEPT !.dropped[Prunable[call.tier]] = @ + call.rows,
                                               !.pressure = "PRUNING"]
           /\ call' = [call EXCEPT !.pc = "prune", !.rows = 0]
  <2>1. call'.pc = "prune"
    BY <1>1, <1>3 DEF Calls
  <2>2. ASSUME NEW s \in Severities
        PROVE  agentState'.dropped[s] + Owed(s)' = agentState.dropped[s] + Owed(s)
    <3>1. Owed(s)' = 0
      BY <2>1 DEF Owed
    <3>2. agentState.dropped \in [Severities -> Nat] /\ call.rows \in Nat
      BY <1>1 DEF AgentState, Calls
    <3>3. agentState'.dropped = [agentState.dropped EXCEPT ![Prunable[call.tier]] = @ + call.rows]
      BY <1>1, <1>3 DEF AgentState
    <3>4. agentState'.dropped[s] = agentState.dropped[s] + Owed(s)
      BY <1>1, <3>2, <3>3 DEF Owed
    <3>5. agentState.dropped[s] \in Nat /\ Owed(s) \in Nat
      BY CountTypes DEF CountInv
    <3> QED
      BY <3>1, <3>4, <3>5
  <2>3. NeverOvercounted'
    BY <1>1, <2>2 DEF CountInv, NeverOvercounted, Owed
  <2> QED
    BY <1>1, <2>3 DEF CountInv, PrunedApart
<1> QED
  BY <1>2, <1>3 DEF Account

(* The rows that stay keep their numbers.                                  *)
LEMMA RowsApart ==
    ASSUME PrunedApart, DOMAIN events' \subseteq DOMAIN events,
           \A id \in DOMAIN events' : events'[id].seq = events[id].seq
    PROVE  \A id \in DOMAIN events' : <<id, events'[id].seq>> \notin pruned
BY DEF PrunedApart

LEMMA CountStore ==
    ASSUME IInv, CountInv, NEW size \in TotalSize, NEW x \in BOOLEAN, StoreStep(size, x)
    PROVE  CountInv'
<1>0. call \in Calls /\ agentState \in AgentState
  BY DEF IInv, TypeOK
<1>1. CASE CheckQuota(size)
  <2>1. call'.pc # "account"
    BY <1>0, <1>1 DEF CheckQuota, Goto, Return, Returned, Calls
  <2> QED
    BY <1>1, <2>1, CountsStay DEF CheckQuota, tables, ghosts, CountInv, PrunedApart
<1>2. CASE PruneRound(size, x)
  <2> DEFINE batch == OldestBatch(Prunable[call.tier])
  <2>1. CASE /\ events' = Drop(events, batch)
             /\ pruned' = pruned \cup {<<id, events[id].seq>> : id \in batch}
             /\ call' = [call EXCEPT !.pc = "account", !.rows = Cardinality(batch)]
    <3>1. call.tier \in 1..3 /\ UNCHANGED <<agentState, allocated>> /\ call.pc # "account"
      BY <1>0, <1>2 DEF PruneRound, Calls
    <3> QED
      BY <2>1, <3>1, CountsPruned
  <2>2. CASE UNCHANGED <<events, pruned>>
    <3>1. call.pc = "prune" /\ UNCHANGED <<agentState, allocated>>
      BY <1>2 DEF PruneRound
    <3>2. CASE Goto("tx") \/ Goto("verdict") \/ Return(Failure(x))
               \/ call' = [call EXCEPT !.tier = @ + 1]
      <4>1. call'.pc # "account"
        BY <1>0, <3>1, <3>2 DEF Goto, Return, Returned, Calls
      <4> QED
        BY <2>2, <3>1, <4>1, CountsStay DEF CountInv, PrunedApart
    <3> QED
      BY <1>2, <2>1, <3>2 DEF PruneRound
  <2> QED
    BY <1>2, <2>1, <2>2 DEF PruneRound
<1>3. CASE Account(x)
  BY <1>3, CountsAccounted
<1>4. CASE Verdict(size, x)
  <2>1. call'.pc # "account"
    BY <1>0, <1>4 DEF Verdict, Goto, Return, Returned, Calls
  <2>2. agentState'.dropped = agentState.dropped
    BY <1>0, <1>4 DEF Verdict, AgentState
  <2> QED
    BY <1>4, <2>1, <2>2, CountsStay DEF Verdict, ghosts, CountInv, PrunedApart
<1>5. CASE StoreTx(x)
  <2>1. call'.pc # "account" /\ UNCHANGED pruned
    BY <1>5 DEF StoreTx, Return, Returned
  <2>2. CASE UNCHANGED <<tables, allocated>>
    BY <2>1, <2>2, CountsStay DEF tables, CountInv, PrunedApart
  <2>3. CASE Allocate
    <3>1. agentState'.dropped = agentState.dropped
      BY <1>0, <2>3 DEF Allocate, AgentState
    <3>2. <<call.id, agentState.nextSeq>> \notin pruned
      <4>1. \A p \in pruned : p[2] < agentState.nextSeq
        BY DEF CountInv, PrunedApart, IInv, SeqAllocatedOnce
      <4>2. agentState.nextSeq \in Nat
        BY <1>0 DEF AgentState
      <4> QED
        BY <4>1, <4>2
    <3>3. \A id \in DOMAIN events' : \/ id = call.id /\ events'[id].seq = agentState.nextSeq
                                     \/ id \in DOMAIN events /\ events'[id] = events[id]
      BY <2>3 DEF Allocate, Put
    <3>4. \A id \in DOMAIN events' : <<id, events'[id].seq>> \notin pruned
      BY <3>2, <3>3 DEF CountInv, PrunedApart
    <3> QED
      BY <2>1, <2>3, <3>1, <3>4, CountsStay DEF Allocate
  <2> QED
    BY <1>5, <2>2, <2>3 DEF StoreTx
<1> QED
  BY <1>1, <1>2, <1>3, <1>4, <1>5 DEF StoreStep

LEMMA CountStep == IInv /\ CountInv /\ [Next]_vars => CountInv'
<1> SUFFICES ASSUME IInv, CountInv, [Next]_vars PROVE CountInv'
  OBVIOUS
<1>1. ASSUME UNCHANGED <<agentState, call, allocated, pruned>>,
             DOMAIN events' \subseteq DOMAIN events,
             \A id \in DOMAIN events' : events'[id].seq = events[id].seq
      PROVE  CountInv'
  BY <1>1, RowsApart, CountsStay DEF CountInv
<1>2. ASSUME NEW id \in EventIds, NEW c \in Contents, NEW s \in CallerSeqs,
             NEW x \in BOOLEAN, StoreBegin(id, c, s, x)
      PROVE  CountInv'
  <2>1. call'.pc # "account"
    BY <1>2 DEF StoreBegin, AnswerFrom, Returned, Started
  <2> QED
    BY <1>2, <2>1, CountsStay DEF StoreBegin, tables, ghosts, CountInv, PrunedApart
<1>3. ASSUME NEW id \in EventIds, NEW c \in Contents, NEW s \in CallerSeqs,
             MoveToDLQ(id, c, s)
      PROVE  CountInv'
  BY <1>1, <1>3 DEF MoveToDLQ, MoveRaw, Drop, ghosts
<1>4. ASSUME NEW ids \in SUBSET EventIds, QuarantineCorrupt(ids)
      PROVE  CountInv'
  BY <1>1, <1>4 DEF QuarantineCorrupt, Drop, ghosts
<1>5. ASSUME NEW id \in EventIds, RemoveEvent(id) PROVE CountInv'
  BY <1>1, <1>5 DEF RemoveEvent, Drop, ghosts
<1>6. ASSUME NEW id \in EventIds, MarkFailed(id) \/ BecomeDue(id) \/ CorruptRow(id)
      PROVE  CountInv'
  BY <1>1, <1>6, UpdateRow DEF IInv
<1>7. CASE Crash
  <2>1. call'.pc # "account"
    BY <1>7 DEF Crash, Returned
  <2> QED
    BY <1>7, <2>1, CountsStay DEF Crash, tables, ghosts, CountInv, PrunedApart
<1>8. CASE UNCHANGED vars
  BY <1>1, <1>8 DEF vars
<1> QED
  BY <1>2, <1>3, <1>4, <1>5, <1>6, <1>7, <1>8, CountStore DEF Next

(***************************************************************************)
(* What agent_state reports as dropped, with the batch a running Account   *)
(* still has to add, is never more than what the quota really deleted.     *)
(***************************************************************************)
THEOREM DropsNeverOvercounted == Spec => []NeverOvercounted
<1>1. Init => CountInv
  <2> SUFFICES ASSUME Init PROVE CountInv
    OBVIOUS
  <2>1. PrunedApart
    BY FS_EmptySet DEF Init, PrunedApart
  <2>2. ASSUME NEW s \in Severities
        PROVE  agentState.dropped[s]
                 + (IF call.pc = "account" /\ Prunable[call.tier] = s THEN call.rows ELSE 0)
               <= Cardinality({p \in pruned : Sev[p[1]] = s})
    <3>1. {p \in pruned : Sev[p[1]] = s} = {}
      BY DEF Init
    <3>2. agentState.dropped[s] = 0 /\ call.pc = "idle"
      BY DEF Init, Returned
    <3> QED
      BY <3>1, <3>2, FS_EmptySet
  <2> QED
    BY <2>1, <2>2 DEF CountInv, NeverOvercounted
<1>2. CountInv => NeverOvercounted
  BY DEF CountInv
<1> QED
  BY <1>1, <1>2, CountStep, Invariance, PTL DEF Spec
=============================================================================
