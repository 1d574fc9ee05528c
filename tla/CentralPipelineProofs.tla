----------------------- MODULE CentralPipelineProofs ------------------------
(***************************************************************************)
(* Theorems about the central server's pipeline: for every set of events,  *)
(* every number of workers, every batch size and every length of the       *)
(* stream.                                                                 *)
(***************************************************************************)
EXTENDS CentralPipeline, FiniteSetTheorems, SequenceTheorems, TLAPS

-----------------------------------------------------------------------------
(* Ranks.  The messages of a finite set, each with the number of smaller   *)
(* ones, are numbered from 0 without a gap, so InOrder is well defined.    *)
Below(S, m) == {x \in S : x < m}

LEMMA BelowFinite ==
    ASSUME NEW S, IsFiniteSet(S), NEW m
    PROVE  IsFiniteSet(Below(S, m)) /\ Cardinality(Below(S, m)) \in Nat
<1>1. Below(S, m) \in SUBSET S
  BY DEF Below
<1>2. IsFiniteSet(Below(S, m))
  BY <1>1, FS_Subset
<1> QED
  BY <1>2, FS_CardinalityType

LEMMA RanksGrow ==
    ASSUME NEW S \in SUBSET Nat, IsFiniteSet(S), NEW m \in S, NEW k \in S, m < k
    PROVE  Cardinality(Below(S, m)) < Cardinality(Below(S, k))
<1> DEFINE M == Below(S, m)
           K == Below(S, k)
<1>1. /\ IsFiniteSet(M) /\ Cardinality(M) \in Nat
      /\ IsFiniteSet(K) /\ Cardinality(K) \in Nat
  BY BelowFinite
<1>2. m \notin M /\ M \cup {m} \in SUBSET K
  <2>1. m \notin M /\ m \in K
    BY DEF Below
  <2>2. ASSUME NEW x \in M
        PROVE  x \in K
    <3>1. x \in S /\ x < m
      BY DEF Below
    <3>2. x < k
      BY <3>1
    <3> QED
      BY <3>1, <3>2 DEF Below
  <2> QED
    BY <2>1, <2>2
<1> HIDE DEF M, K
<1>3. IsFiniteSet(M \cup {m}) /\ Cardinality(M \cup {m}) = Cardinality(M) + 1
  BY <1>1, <1>2, FS_AddElement
<1>4. Cardinality(M \cup {m}) <= Cardinality(K)
  BY <1>1, <1>2, FS_Subset
<1>5. Cardinality(M) < Cardinality(K)
  BY <1>1, <1>3, <1>4
<1> QED
  BY <1>5 DEF M, K

LEMMA RankExists ==
    ASSUME NEW S \in SUBSET Nat, IsFiniteSet(S), NEW i \in 1..Cardinality(S)
    PROVE  \E m \in S : Cardinality(Below(S, m)) = i - 1
<1> DEFINE n    == Cardinality(S)
           T    == 0..(n - 1)
           rank == [m \in S |-> Cardinality(Below(S, m))]
<1>1. n \in Nat
  BY FS_CardinalityType
<1>2. ASSUME NEW m \in S
      PROVE  Cardinality(Below(S, m)) \in T
  <2>1. Cardinality(Below(S, m)) \in Nat
    BY BelowFinite
  <2>2. Below(S, m) \in SUBSET S /\ m \notin Below(S, m)
    BY DEF Below
  <2>3. Cardinality(Below(S, m)) <= n /\ Cardinality(Below(S, m)) # n
    BY <2>2, FS_Subset
  <2> QED
    BY <1>1, <2>1, <2>3
<1>3. rank \in [S -> T]
  BY <1>2
<1>4. \A m, k \in S : m # k => rank[m] # rank[k]
  <2> SUFFICES ASSUME NEW m \in S, NEW k \in S, m # k
               PROVE  Cardinality(Below(S, m)) # Cardinality(Below(S, k))
    OBVIOUS
  <2>1. m < k \/ k < m
    OBVIOUS
  <2>2. Cardinality(Below(S, m)) \in Nat /\ Cardinality(Below(S, k)) \in Nat
    BY BelowFinite
  <2> QED
    BY <2>1, <2>2, RanksGrow
<1> HIDE DEF rank
<1>5. rank \in Injection(S, T)
  BY <1>3, <1>4 DEF Injection, IsInjective
<1>6. IsFiniteSet(T) /\ Cardinality(T) = n
  <2>1. 0 \in Int /\ n - 1 \in Int
    BY <1>1
  <2>2. /\ IsFiniteSet(0..(n - 1))
        /\ Cardinality(0..(n - 1)) = IF 0 > n - 1 THEN 0 ELSE (n - 1) - 0 + 1
    BY <2>1, FS_Interval
  <2>3. (IF 0 > n - 1 THEN 0 ELSE (n - 1) - 0 + 1) = n
    BY <1>1
  <2> QED
    BY <2>2, <2>3
<1>7. rank \in Surjection(S, T)
  BY <1>5, <1>6, FS_Injection
<1>8. i - 1 \in T
  BY <1>1
<1>9. \E m \in S : rank[m] = i - 1
  BY <1>7, <1>8 DEF Surjection
<1> QED
  BY <1>9 DEF rank

LEMMA InOrderSeq ==
    ASSUME NEW S \in SUBSET Nat, IsFiniteSet(S)
    PROVE  InOrder(S) \in Seq(S)
<1> DEFINE pick(i) == CHOOSE m \in S : Cardinality({x \in S : x < m}) = i - 1
<1>1. Cardinality(S) \in Nat
  BY FS_CardinalityType
<1>2. ASSUME NEW i \in 1..Cardinality(S)
      PROVE  pick(i) \in S
  <2>1. \E m \in S : Cardinality({x \in S : x < m}) = i - 1
    BY RankExists DEF Below
  <2> QED
    BY <2>1
<1>3. InOrder(S) = [i \in 1..Cardinality(S) |-> pick(i)]
  BY DEF InOrder
<1> HIDE DEF pick
<1>4. InOrder(S) \in [1..Cardinality(S) -> S]
  BY <1>2, <1>3
<1> QED
  BY <1>1, <1>4, SeqDef

(* XREADGROUP COUNT n takes the next messages without a gap.               *)
LEMMA OldestInterval ==
    ASSUME NEW a \in Nat, NEW b \in Nat, a < b, NEW n \in Nat \ {0}
    PROVE  LET new == Oldest(a + 1 .. b, n)
               end == IF b - a < n THEN b ELSE a + n
           IN  new = a + 1 .. end /\ Cardinality(new) = end - a
<1> DEFINE S   == a + 1 .. b
           end == IF b - a < n THEN b ELSE a + n
<1>1. ASSUME NEW m \in S
      PROVE  Cardinality({x \in S : x < m}) = m - (a + 1)
  <2>1. {x \in S : x < m} = a + 1 .. m - 1
    OBVIOUS
  <2>2. a + 1 \in Int /\ m - 1 \in Int
    OBVIOUS
  <2>3. Cardinality(a + 1 .. m - 1) = IF a + 1 > m - 1 THEN 0 ELSE (m - 1) - (a + 1) + 1
    BY <2>2, FS_Interval
  <2>4. (IF a + 1 > m - 1 THEN 0 ELSE (m - 1) - (a + 1) + 1) = m - (a + 1)
    OBVIOUS
  <2> QED
    BY <2>1, <2>3, <2>4
<1>2. Oldest(S, n) = {m \in S : m - (a + 1) < n}
  BY <1>1 DEF Oldest
<1>3. {m \in S : m - (a + 1) < n} = a + 1 .. end
  OBVIOUS
<1>4. Cardinality(a + 1 .. end) = end - a
  <2>1. a + 1 \in Int /\ end \in Int /\ ~(a + 1 > end)
    OBVIOUS
  <2>2. Cardinality(a + 1 .. end) = end - (a + 1) + 1
    BY <2>1, FS_Interval
  <2> QED
    BY <2>1, <2>2
<1> QED
  BY <1>2, <1>3, <1>4

-----------------------------------------------------------------------------
(* The goroutines.                                                         *)
Pcs    == {"boot", "wait", "claim", "process", "ack"}
Vias   == {"claim", "process"}
Job(M) == [pc : Pcs, via : Vias, todo : Seq(M)]

(* A message that is done with: PostgreSQL or the dead letter stream has it.*)
Settled(m) == stream[m] \in rows \/ m \in deadLetters

(* What a goroutine relies on: it has something to work on when it works,  *)
(* it acknowledges only what is settled, and whoever has left its boot has *)
(* a group to read from.                                                   *)
Working(t) ==
    /\ t[2] = "recovery" => th[t].via = "claim"
    /\ t[2] = "main" /\ th[t].pc # "boot" => cursor # NoGroup
    /\ th[t].pc \in {"claim", "process", "ack"} => th[t].todo # << >>
    /\ th[t].pc = "ack" => Settled(Cur(t))

Workmanship == \A t \in Threads : Working(t)

(* An event answered with 202 is in the stream.                            *)
Published == \A e \in accepted : \E m \in Msgs : stream[m] = e

LEMMA ThreadKinds ==
    ASSUME NEW t \in Threads
    PROVE  t[2] = "main" \/ t[2] = "recovery"
BY DEF Threads

(* Resume replaces the goroutine's own record and no other.                *)
LEMMA ResumeJob ==
    ASSUME NEW M, th \in [Threads -> Job(M)], NEW t \in Threads, NEW via \in Vias,
           NEW todo \in Seq(M), Resume(t, via, todo)
    PROVE  /\ th' \in [Threads -> Job(M)]
           /\ \A u \in Threads : u # t => th'[u] = th[u]
           /\ th'[t].pc \in {"wait", "claim", "process"}
           /\ th'[t].pc # "wait" => th'[t].todo # << >>
           /\ th'[t].via = via \/ (t[2] = "main" /\ th'[t].via = "process")
                               \/ (t[2] # "main" /\ th'[t].via = "claim")
<1> DEFINE job == IF todo # << >>       THEN [pc |-> via, via |-> via, todo |-> todo]
                  ELSE IF t[2] = "main" THEN InLoop
                  ELSE                       Sweeping
<1>1. << >> \in Seq(M)
  BY EmptySeq
<1>2. th' = [th EXCEPT ![t] = job]
  BY DEF Resume
<1>3. job \in Job(M)
  BY <1>1 DEF Job, Pcs, Vias, InLoop, Sweeping
<1>4. /\ job.pc \in {"wait", "claim", "process"}
      /\ job.pc # "wait" => job.todo # << >>
      /\ job.via = via \/ (t[2] = "main" /\ job.via = "process")
                       \/ (t[2] # "main" /\ job.via = "claim")
  BY DEF InLoop, Sweeping, Vias
<1> HIDE DEF job
<1>5. th'[t] = job /\ \A u \in Threads : u # t => th'[u] = th[u]
  BY <1>2
<1>6. th' \in [Threads -> Job(M)]
  BY <1>2, <1>3
<1> QED
  BY <1>4, <1>5, <1>6

(* Going on to the next message.                                           *)
LEMMA NextJob ==
    ASSUME NEW M, th \in [Threads -> Job(M)], NEW t \in Threads, th[t].todo # << >>,
           NextMessage(t)
    PROVE  /\ th' \in [Threads -> Job(M)]
           /\ \A u \in Threads : u # t => th'[u] = th[u]
           /\ th'[t].pc \in {"wait", "claim", "process"}
           /\ th'[t].pc # "wait" => th'[t].todo # << >>
           /\ th'[t].via = th[t].via \/ (t[2] = "main" /\ th'[t].via = "process")
                                     \/ (t[2] # "main" /\ th'[t].via = "claim")
<1>1. th[t] \in Job(M)
  OBVIOUS
<1>2. th[t].via \in Vias /\ th[t].todo \in Seq(M)
  BY <1>1 DEF Job
<1>3. Tail(th[t].todo) \in Seq(M)
  BY <1>2
<1>4. Resume(t, th[t].via, Tail(th[t].todo))
  BY DEF NextMessage
<1> QED
  BY <1>2, <1>3, <1>4, ResumeJob

-----------------------------------------------------------------------------
(* A message of the group is pending, or it is done with.                  *)
Delivered == \A m \in Msgs : InFlight(m) \/ Settled(m)

CentralInv == TypeOK /\ Workmanship /\ Published /\ Delivered /\ EffectsHappenOnce

LEMMA TypeFacts ==
    ASSUME TypeOK
    PROVE  /\ stream \in Seq(Events \cup {Malformed}) /\ Len(stream) \in Nat
           /\ Len(stream) <= MaxMsgs
           /\ cursor # NoGroup => cursor \in Nat /\ cursor <= Len(stream)
           /\ DOMAIN pel \subseteq Msgs /\ Msgs \subseteq Nat
           /\ th \in [Threads -> Job(Msgs)]
           /\ \A m \in Msgs : stream[m] \in Events \cup {Malformed}
BY DEF TypeOK, Job, Pcs, Vias, Msgs

(* A goroutine's step does not spoil the work of the others.               *)
LEMMA OthersWork ==
    ASSUME Workmanship, NEW t \in Threads, stream' = stream,
           rows \subseteq rows', deadLetters \subseteq deadLetters',
           cursor # NoGroup => cursor' # NoGroup,
           \A u \in Threads : u # t => th'[u] = th[u],
           Working(t)'
    PROVE  Workmanship'
<1> SUFFICES ASSUME NEW u \in Threads, u # t
             PROVE  Working(u)'
  BY DEF Workmanship, Threads
<1>1. Working(u) /\ th'[u] = th[u]
  BY DEF Workmanship
<1>2. ASSUME NEW m, Settled(m)
      PROVE  Settled(m)'
  BY <1>2 DEF Settled
<1> QED
  BY <1>1, <1>2 DEF Working, Cur

(* A goroutine between two messages.                                       *)
LEMMA ResumedWorks ==
    ASSUME NEW t \in Threads, th'[t].pc \in {"wait", "claim", "process"},
           th'[t].pc # "wait" => th'[t].todo # << >>,
           t[2] = "main" => cursor' # NoGroup,
           t[2] = "recovery" => th'[t].via = "claim"
    PROVE  Working(t)'
BY DEF Working

(* What an unfinished command leaves alone.                                *)
LEMMA DeliveredStays ==
    ASSUME Delivered, stream' = stream, cursor' = cursor,
           rows \subseteq rows', deadLetters \subseteq deadLetters',
           \A m \in Msgs : m \in DOMAIN pel => m \in DOMAIN pel' \/ Settled(m)
    PROVE  Delivered'
BY DEF Delivered, InFlight, Settled, Msgs

LEMMA XAddStep ==
    ASSUME CentralInv, NEW e \in Events \cup {Malformed}, XAdd(e),
           accepted' \subseteq accepted \cup ({e} \cap Events), accepted' \subseteq Events,
           UNCHANGED <<cursor, pel, deadLetters, tables, th, crashes>>
    PROVE  CentralInv'
<1> DEFINE n == Len(stream)
<1>1. /\ stream \in Seq(Events \cup {Malformed}) /\ n \in Nat
      /\ cursor # NoGroup => cursor \in Nat /\ cursor <= n
      /\ DOMAIN pel \subseteq Msgs /\ th \in [Threads -> Job(Msgs)]
      /\ MaxMsgs \in Nat
  BY TypeFacts, CentralAssumption DEF CentralInv
<1>2. /\ stream' \in Seq(Events \cup {Malformed}) /\ Len(stream') = n + 1
      /\ stream'[n + 1] = e /\ Len(stream') <= MaxMsgs
      /\ \A m \in 1..n : stream'[m] = stream[m]
  BY <1>1 DEF XAdd
<1>3. Msgs = 1..n /\ Msgs' = 1..(n + 1) /\ Msgs \subseteq Msgs'
  BY <1>1, <1>2 DEF Msgs
<1>4. \A m \in Msgs' : m \in Msgs \/ m = n + 1
  BY <1>1, <1>3
<1>5. \A m \in Msgs : stream'[m] = stream[m]
  BY <1>2, <1>3
<1> HIDE DEF n
<1>6. TypeOK'
  <2>1. cursor' \in (0..Len(stream')) \cup {NoGroup}
    BY <1>1, <1>2 DEF CentralInv, TypeOK
  <2>2. th' \in [Threads -> Job(Msgs')]
    <3>1. \A s \in Seq(Msgs) : s \in Seq(Msgs')
      BY <1>3, SeqMonotonic
    <3>2. Job(Msgs) \subseteq Job(Msgs')
      BY <3>1 DEF Job
    <3> QED
      BY <1>1, <3>2
  <2>3. th' \in [Threads -> [pc : {"boot", "wait", "claim", "process", "ack"},
                             via : {"claim", "process"}, todo : Seq(Msgs')]]
    BY <2>2 DEF Job, Pcs, Vias
  <2>4. /\ deadLetters' \subseteq Msgs' /\ DOMAIN pel' \subseteq Msgs'
        /\ pel' \in [DOMAIN pel' -> BOOLEAN]
        /\ rows' \subseteq Events /\ alerts' \subseteq Events /\ crashes' \in 0..MaxCrashes
    BY <1>3 DEF CentralInv, TypeOK, tables
  <2> QED
    BY <1>2, <2>1, <2>3, <2>4 DEF TypeOK
<1>7. Workmanship'
  <2> SUFFICES ASSUME NEW t \in Threads
               PROVE  Working(t)'
    BY DEF Workmanship, Threads
  <2>1. Working(t) /\ th[t] \in Job(Msgs)
    BY <1>1 DEF CentralInv, Workmanship
  <2>2. th[t].pc = "ack" => Cur(t) \in Msgs
    <3>1. th[t].todo \in Seq(Msgs)
      BY <2>1 DEF Job
    <3> QED
      BY <2>1, <3>1 DEF Working, Cur
  <2>3. th[t].pc = "ack" => Settled(Cur(t))'
    BY <1>5, <2>1, <2>2 DEF Working, Settled, Cur, tables
  <2> QED
    BY <2>1, <2>3 DEF Working, Cur
<1>8. Published'
  <2> SUFFICES ASSUME NEW a \in accepted'
               PROVE  \E m \in Msgs' : stream'[m] = a
    BY DEF Published
  <2>1. CASE a \in accepted
    BY <1>3, <1>5, <2>1 DEF CentralInv, Published
  <2>2. CASE a = e
    BY <1>1, <1>2, <1>3, <2>2
  <2> QED
    BY <2>1, <2>2
<1>9. Delivered'
  <2> SUFFICES ASSUME NEW m \in Msgs'
               PROVE  InFlight(m)' \/ Settled(m)'
    BY DEF Delivered
  <2>1. CASE m \in Msgs
    BY <1>5, <2>1 DEF CentralInv, Delivered, InFlight, Settled, tables
  <2>2. CASE m = n + 1
    BY <1>1, <2>2 DEF InFlight
  <2> QED
    BY <1>4, <2>1, <2>2
<1>10. EffectsHappenOnce'
  <2>1. deadLetters \subseteq Msgs
    BY DEF CentralInv, TypeOK
  <2> QED
    BY <1>5, <2>1 DEF CentralInv, EffectsHappenOnce, tables
<1> QED
  BY <1>6, <1>7, <1>8, <1>9, <1>10 DEF CentralInv

(* The obligations that are left for a step of goroutine t.                *)
LEMMA ThreadStep ==
    ASSUME CentralInv, NEW t \in Threads, UNCHANGED <<stream, accepted, crashes>>,
           th' \in [Threads -> Job(Msgs)], \A u \in Threads : u # t => th'[u] = th[u],
           Working(t)', cursor # NoGroup => cursor' # NoGroup,
           cursor' \in (0..Len(stream)) \cup {NoGroup},
           DOMAIN pel' \subseteq Msgs, pel' \in [DOMAIN pel' -> BOOLEAN],
           rows \subseteq rows', rows' \subseteq Events, alerts' \subseteq Events,
           deadLetters \subseteq deadLetters', deadLetters' \subseteq Msgs,
           Delivered', EffectsHappenOnce'
    PROVE  CentralInv'
<1>1. Workmanship'
  BY OthersWork DEF CentralInv
<1>2. TypeOK'
  <2>1. Msgs' = Msgs
    BY DEF Msgs
  <2>2. th' \in [Threads -> [pc : {"boot", "wait", "claim", "process", "ack"},
                             via : {"claim", "process"}, todo : Seq(Msgs')]]
    BY <2>1 DEF Job, Pcs, Vias
  <2>3. /\ stream' \in Seq(Events \cup {Malformed}) /\ Len(stream') <= MaxMsgs
        /\ accepted' \subseteq Events /\ crashes' \in 0..MaxCrashes
    BY DEF CentralInv, TypeOK
  <2> QED
    BY <2>1, <2>2, <2>3 DEF TypeOK
<1>3. Published'
  BY DEF CentralInv, Published, Msgs
<1> QED
  BY <1>1, <1>2, <1>3 DEF CentralInv

(* recoverPending lists messages that exist.                               *)
LEMMA ListPendingSeq ==
    ASSUME TypeOK
    PROVE  ListPending \in Seq(Msgs)
<1> DEFINE S == {m \in Oldest(DOMAIN pel, RecoveryBatchSize) : pel[m]}
<1>1. S \in SUBSET Msgs
  BY TypeFacts DEF Oldest
<1>2. IsFiniteSet(Msgs) /\ Msgs \subseteq Nat
  BY TypeFacts, FS_Interval DEF Msgs
<1>3. IsFiniteSet(S) /\ S \in SUBSET Nat
  BY <1>1, <1>2, FS_Subset
<1>4. ListPending = InOrder(S)
  BY DEF ListPending
<1> HIDE DEF S
<1>5. InOrder(S) \in Seq(S)
  BY <1>3, InOrderSeq
<1> QED
  BY <1>1, <1>4, <1>5, SeqMonotonic

LEMMA BootStep ==
    ASSUME CentralInv, NEW t \in Threads, Boot(t)
    PROVE  CentralInv'
<1>1. th \in [Threads -> Job(Msgs)] /\ Len(stream) \in Nat
  BY TypeFacts DEF CentralInv
<1>2. PICK todo \in {ListPending, << >>} : Resume(t, "claim", todo)
  BY DEF Boot
<1>3. todo \in Seq(Msgs)
  BY <1>2, ListPendingSeq, EmptySeq DEF CentralInv
<1>4. "claim" \in Vias
  BY DEF Vias
<1>5. /\ th' \in [Threads -> Job(Msgs)]
      /\ \A u \in Threads : u # t => th'[u] = th[u]
      /\ th'[t].pc \in {"wait", "claim", "process"}
      /\ th'[t].pc # "wait" => th'[t].todo # << >>
      /\ t[2] # "main" => th'[t].via = "claim"
  BY <1>1, <1>2, <1>3, <1>4, ResumeJob
<1>6. cursor' # NoGroup /\ cursor' \in (0..Len(stream)) \cup {NoGroup}
  BY <1>1, CentralAssumption DEF Boot, CentralInv, TypeOK
<1>7. Working(t)'
  BY <1>5, <1>6, ResumedWorks
<1>8. Delivered'
  <2> SUFFICES ASSUME NEW m \in Msgs
               PROVE  InFlight(m)' \/ Settled(m)'
    BY DEF Delivered, Boot, Msgs
  <2>1. InFlight(m) \/ Settled(m)
    BY DEF CentralInv, Delivered
  <2>2. Settled(m) => Settled(m)'
    BY DEF Settled, Boot, tables
  <2>3. InFlight(m) => InFlight(m)'
    <3>1. m \in Nat /\ m > 0
      BY <1>1 DEF Msgs
    <3> QED
      BY <3>1 DEF InFlight, Boot
  <2> QED
    BY <2>1, <2>2, <2>3
<1>9. EffectsHappenOnce'
  BY DEF CentralInv, EffectsHappenOnce, Boot, tables
<1>10. /\ DOMAIN pel' \subseteq Msgs /\ pel' \in [DOMAIN pel' -> BOOLEAN]
       /\ rows' = rows /\ alerts' = alerts /\ deadLetters' = deadLetters
       /\ rows' \subseteq Events /\ alerts' \subseteq Events /\ deadLetters' \subseteq Msgs
       /\ UNCHANGED <<stream, accepted, crashes>>
  BY DEF CentralInv, TypeOK, Boot, tables
<1> QED
  BY <1>5, <1>6, <1>7, <1>8, <1>9, <1>10, ThreadStep

LEMMA SweepStep ==
    ASSUME CentralInv, NEW t \in Threads, Sweep(t)
    PROVE  CentralInv'
<1>1. th \in [Threads -> Job(Msgs)]
  BY TypeFacts DEF CentralInv
<1>2. Resume(t, "claim", ListPending) /\ ListPending \in Seq(Msgs) /\ "claim" \in Vias
  BY ListPendingSeq DEF Sweep, CentralInv, Vias
<1>3. /\ th' \in [Threads -> Job(Msgs)]
      /\ \A u \in Threads : u # t => th'[u] = th[u]
      /\ th'[t].pc \in {"wait", "claim", "process"}
      /\ th'[t].pc # "wait" => th'[t].todo # << >>
      /\ t[2] # "main" => th'[t].via = "claim"
  BY <1>1, <1>2, ResumeJob
<1>4. /\ UNCHANGED <<stream, cursor, pel, deadLetters, rows, alerts, accepted, crashes>>
      /\ th[t] = Sweeping
  BY DEF Sweep, queue, tables
<1>5. Working(t)'
  <2>1. t[2] = "main" => cursor # NoGroup
    BY <1>4 DEF CentralInv, Workmanship, Working, Sweeping
  <2> QED
    BY <1>3, <1>4, <2>1, ResumedWorks
<1>6. Delivered' /\ EffectsHappenOnce'
  BY <1>4 DEF CentralInv, Delivered, InFlight, Settled, Msgs, EffectsHappenOnce
<1>7. /\ DOMAIN pel' \subseteq Msgs /\ pel' \in [DOMAIN pel' -> BOOLEAN]
      /\ cursor' \in (0..Len(stream)) \cup {NoGroup}
      /\ rows' \subseteq Events /\ alerts' \subseteq Events /\ deadLetters' \subseteq Msgs
  BY <1>4 DEF CentralInv, TypeOK
<1> QED
  BY <1>3, <1>4, <1>5, <1>6, <1>7, ThreadStep

(* A goroutine that works has a message, and the message exists.           *)
LEMMA CurrentMessage ==
    ASSUME CentralInv, NEW t \in Threads, th[t].pc \in {"claim", "process", "ack"}
    PROVE  /\ th[t] \in Job(Msgs) /\ th[t].todo \in Seq(Msgs) /\ th[t].todo # << >>
           /\ Cur(t) \in Msgs
           /\ t[2] = "main" => cursor # NoGroup
           /\ t[2] = "recovery" => th[t].via = "claim"
<1>1. th \in [Threads -> Job(Msgs)]
  BY TypeFacts DEF CentralInv
<1>2. th[t] \in Job(Msgs)
  BY <1>1
<1>3. th[t].todo \in Seq(Msgs)
  BY <1>2 DEF Job
<1>4. Working(t)
  BY DEF CentralInv, Workmanship
<1>5. th[t].todo # << >>
  BY <1>4 DEF Working
<1>6. Cur(t) \in Msgs
  BY <1>3, <1>5 DEF Cur
<1> QED
  BY <1>2, <1>3, <1>4, <1>5, <1>6 DEF Working

(* Leaving a message, with or without an error.                            *)
LEMMA LeavingMessage ==
    ASSUME CentralInv, NEW t \in Threads, th[t].pc \in {"claim", "process", "ack"},
           NextMessage(t), cursor' = cursor
    PROVE  /\ th' \in [Threads -> Job(Msgs)]
           /\ \A u \in Threads : u # t => th'[u] = th[u]
           /\ Working(t)'
<1>1. th \in [Threads -> Job(Msgs)]
  BY TypeFacts DEF CentralInv
<1>2. /\ th[t].todo # << >>
      /\ t[2] = "main" => cursor # NoGroup
      /\ t[2] = "recovery" => th[t].via = "claim"
  BY CurrentMessage
<1>3. /\ th' \in [Threads -> Job(Msgs)]
      /\ \A u \in Threads : u # t => th'[u] = th[u]
      /\ th'[t].pc \in {"wait", "claim", "process"}
      /\ th'[t].pc # "wait" => th'[t].todo # << >>
      /\ th'[t].via = th[t].via \/ (t[2] = "main" /\ th'[t].via = "process")
                                \/ (t[2] # "main" /\ th'[t].via = "claim")
  BY <1>1, <1>2, NextJob
<1>4. t[2] = "recovery" => th'[t].via = "claim"
  BY <1>2, <1>3
<1> QED
  BY <1>2, <1>3, <1>4, ResumedWorks

(* Going on with a message.                                                *)
LEMMA KeepingMessage ==
    ASSUME CentralInv, NEW t \in Threads, th[t].pc \in {"claim", "process"},
           NEW pc \in {"process", "ack"}, th' = [th EXCEPT ![t].pc = pc], cursor' = cursor,
           pc = "ack" => Settled(Cur(t))'
    PROVE  /\ th' \in [Threads -> Job(Msgs)]
           /\ \A u \in Threads : u # t => th'[u] = th[u]
           /\ Working(t)'
<1>1. th \in [Threads -> Job(Msgs)]
  BY TypeFacts DEF CentralInv
<1>2. /\ th[t] \in Job(Msgs) /\ th[t].todo # << >>
      /\ t[2] = "main" => cursor # NoGroup
      /\ t[2] = "recovery" => th[t].via = "claim"
  BY CurrentMessage
<1> DEFINE job == [th[t] EXCEPT !.pc = pc]
<1>3. /\ job \in Job(Msgs) /\ job.pc = pc /\ job.via = th[t].via /\ job.todo = th[t].todo
  BY <1>2 DEF Job, Pcs
<1>4. th' = [th EXCEPT ![t] = job]
  BY <1>1
<1> HIDE DEF job
<1>5. th'[t] = job /\ th' \in [Threads -> Job(Msgs)] /\ \A u \in Threads : u # t => th'[u] = th[u]
  BY <1>1, <1>3, <1>4
<1>6. Working(t)'
  BY <1>2, <1>3, <1>5 DEF Working, Cur
<1> QED
  BY <1>5, <1>6

LEMMA ClaimStep ==
    ASSUME CentralInv, NEW t \in Threads, Claim(t)
    PROVE  CentralInv'
<1>1. /\ UNCHANGED <<stream, cursor, deadLetters, rows, alerts, accepted, crashes>>
      /\ th[t].pc = "claim"
  BY DEF Claim, tables
<1>2. pel \in [DOMAIN pel -> BOOLEAN] /\ DOMAIN pel \subseteq Msgs
  BY DEF CentralInv, TypeOK
<1>3. TakenOver(Cur(t)) \in [DOMAIN pel -> BOOLEAN]
  BY <1>2 DEF TakenOver
<1>4. pel' \in [DOMAIN pel -> BOOLEAN]
  BY <1>2, <1>3 DEF Claim
<1>5. DOMAIN pel' = DOMAIN pel
  BY <1>4
<1>6. /\ th' \in [Threads -> Job(Msgs)]
      /\ \A u \in Threads : u # t => th'[u] = th[u]
      /\ Working(t)'
  <2>1. CASE NextMessage(t)
    BY <1>1, <2>1, LeavingMessage
  <2>2. CASE th' = [th EXCEPT ![t].pc = "process"]
    BY <1>1, <2>2, KeepingMessage
  <2> QED
    BY <2>1, <2>2 DEF Claim
<1>7. Delivered' /\ EffectsHappenOnce'
  BY <1>1, <1>5, DeliveredStays DEF CentralInv, EffectsHappenOnce
<1>8. /\ cursor' \in (0..Len(stream)) \cup {NoGroup}
      /\ rows' \subseteq Events /\ alerts' \subseteq Events /\ deadLetters' \subseteq Msgs
  BY <1>1 DEF CentralInv, TypeOK
<1> QED
  BY <1>1, <1>2, <1>4, <1>5, <1>6, <1>7, <1>8, ThreadStep

(* XREADGROUP: what the cursor passes becomes pending.                     *)
LEMMA ReadStep ==
    ASSUME CentralInv, NEW t \in Threads, Read(t)
    PROVE  CentralInv'
<1> DEFINE n   == Len(stream)
           new == Oldest(cursor + 1 .. Len(stream), ReadCount)
           end == IF n - cursor < ReadCount THEN n ELSE cursor + ReadCount
<1>1. /\ UNCHANGED <<stream, deadLetters, rows, alerts, accepted, crashes>>
      /\ th[t] = InLoop /\ cursor < n
      /\ cursor' = cursor + Cardinality(new)
      /\ pel' = [m \in DOMAIN pel \cup new |-> m \notin new /\ pel[m]]
      /\ \E todo \in {InOrder(new), << >>} : Resume(t, "process", todo)
  BY DEF Read, tables
<1>2. th \in [Threads -> Job(Msgs)] /\ n \in Nat
  BY TypeFacts DEF CentralInv
<1>3. t[2] = "main" /\ cursor # NoGroup
  <2>1. Working(t)
    BY DEF CentralInv, Workmanship
  <2> QED
    BY <1>1, <2>1, ThreadKinds DEF Working, InLoop
<1>4. cursor \in Nat
  BY <1>3, TypeFacts DEF CentralInv
<1>5. ReadCount \in Nat \ {0}
  BY CentralAssumption
<1>6. new = cursor + 1 .. end /\ Cardinality(new) = end - cursor
  BY <1>1, <1>2, <1>4, <1>5, OldestInterval
<1>7. end \in Nat /\ cursor < end /\ end <= n /\ cursor' = end
  BY <1>1, <1>2, <1>4, <1>5, <1>6
<1> HIDE DEF end
<1>8. new \in SUBSET Msgs /\ \A m \in Msgs : m > cursor /\ m <= end => m \in new
  BY <1>2, <1>4, <1>6, <1>7 DEF Msgs
<1>9. IsFiniteSet(new) /\ new \in SUBSET Nat
  <2>1. cursor + 1 \in Int /\ end \in Int
    BY <1>4, <1>7
  <2>2. IsFiniteSet(cursor + 1 .. end)
    BY <2>1, FS_Interval
  <2>3. (cursor + 1 .. end) \in SUBSET Nat
    BY <1>4, <1>7
  <2> QED
    BY <1>6, <2>2, <2>3
<1> HIDE DEF new, n
<1>10. InOrder(new) \in Seq(Msgs)
  BY <1>8, <1>9, InOrderSeq, SeqMonotonic
<1>11. PICK todo \in {InOrder(new), << >>} : Resume(t, "process", todo)
  BY <1>1
<1>12. todo \in Seq(Msgs) /\ "process" \in Vias
  BY <1>10, EmptySeq DEF Vias
<1>13. /\ th' \in [Threads -> Job(Msgs)]
       /\ \A u \in Threads : u # t => th'[u] = th[u]
       /\ th'[t].pc \in {"wait", "claim", "process"}
       /\ th'[t].pc # "wait" => th'[t].todo # << >>
  BY <1>2, <1>11, <1>12, ResumeJob
<1>14. cursor' # NoGroup /\ cursor' \in (0..Len(stream)) \cup {NoGroup}
  BY <1>2, <1>7, CentralAssumption DEF n
<1>15. Working(t)'
  BY <1>3, <1>13, <1>14, ResumedWorks
<1>16. /\ DOMAIN pel' = DOMAIN pel \cup new /\ DOMAIN pel' \subseteq Msgs
       /\ pel' \in [DOMAIN pel' -> BOOLEAN]
  <2>1. pel \in [DOMAIN pel -> BOOLEAN] /\ DOMAIN pel \subseteq Msgs
    BY DEF CentralInv, TypeOK
  <2>2. DOMAIN pel' = DOMAIN pel \cup new
    BY <1>1
  <2>3. ASSUME NEW m \in DOMAIN pel \cup new
        PROVE  (m \notin new /\ pel[m]) \in BOOLEAN
    OBVIOUS
  <2>4. pel' \in [DOMAIN pel \cup new -> BOOLEAN]
    BY <1>1, <2>3
  <2> QED
    BY <1>8, <2>1, <2>2, <2>4
<1>17. Delivered'
  <2> SUFFICES ASSUME NEW m \in Msgs
               PROVE  InFlight(m)' \/ Settled(m)'
    BY <1>1 DEF Delivered, Msgs
  <2>1. InFlight(m) \/ Settled(m)
    BY DEF CentralInv, Delivered
  <2>2. Settled(m) => Settled(m)'
    BY <1>1 DEF Settled
  <2>3. CASE m \in DOMAIN pel
    BY <1>16, <2>3 DEF InFlight
  <2>4. CASE m > cursor
    <3>1. m \in Nat
      BY <1>2 DEF Msgs, n
    <3>2. m \in new \/ m > cursor'
      BY <1>7, <1>8, <2>4, <3>1
    <3> QED
      BY <1>16, <3>2 DEF InFlight
  <2> QED
    BY <1>3, <2>1, <2>2, <2>3, <2>4 DEF InFlight
<1>18. EffectsHappenOnce'
  BY <1>1 DEF CentralInv, EffectsHappenOnce
<1>19. /\ rows' \subseteq Events /\ alerts' \subseteq Events /\ deadLetters' \subseteq Msgs
  BY <1>1 DEF CentralInv, TypeOK
<1> QED
  BY <1>1, <1>13, <1>14, <1>15, <1>16, <1>17, <1>18, <1>19, ThreadStep

(* processMessage up to XACK.                                              *)
LEMMA ProcessStep ==
    ASSUME CentralInv, NEW t \in Threads, Process(t)
    PROVE  CentralInv'
<1> PICK m : m = Cur(t)
  OBVIOUS
<1> DEFINE p == stream[m]
<1>1. /\ UNCHANGED <<stream, cursor, pel, accepted, crashes>>
      /\ th[t].pc = "process"
  BY DEF Process
<1>2. m \in Msgs /\ p \in Events \cup {Malformed}
  BY <1>1, CurrentMessage, TypeFacts DEF CentralInv
<1>3. \/ /\ p = Malformed /\ deadLetters' = deadLetters \cup {m} /\ UNCHANGED tables
         /\ th' = [th EXCEPT ![t].pc = "ack"] \/ NextMessage(t)
      \/ /\ p # Malformed /\ PersistEvent(p) /\ UNCHANGED deadLetters
         /\ th' = [th EXCEPT ![t].pc = "ack"] \/ NextMessage(t)
      \/ NextMessage(t) /\ UNCHANGED <<deadLetters, tables>>
  BY DEF Process
<1> HIDE DEF p
<1>4. /\ rows \subseteq rows' /\ rows' \subseteq Events /\ alerts' \subseteq Events
      /\ deadLetters \subseteq deadLetters' /\ deadLetters' \subseteq Msgs
  <2>1. rows \subseteq Events /\ alerts \subseteq Events /\ deadLetters \subseteq Msgs
    BY DEF CentralInv, TypeOK
  <2> QED
    BY <1>2, <1>3, <2>1 DEF PersistEvent, tables
<1>5. EffectsHappenOnce'
  <2>1. alerts = rows \cap Alerting /\ \A k \in deadLetters : stream[k] = Malformed
    BY DEF CentralInv, EffectsHappenOnce
  <2>2. alerts' = rows' \cap Alerting
    <3>1. CASE UNCHANGED tables
      BY <2>1, <3>1 DEF tables
    <3>2. CASE PersistEvent(p)
      BY <2>1, <3>2 DEF PersistEvent
    <3> QED
      BY <1>3, <3>1, <3>2
  <2>3. \A k \in deadLetters' : stream'[k] = Malformed
    BY <1>1, <1>3, <2>1 DEF p
  <2> QED
    BY <2>2, <2>3 DEF EffectsHappenOnce
<1>6. Delivered'
  BY <1>1, <1>4, DeliveredStays DEF CentralInv
<1>7. th' = [th EXCEPT ![t].pc = "ack"] /\ ~NextMessage(t) => Settled(m)'
  BY <1>1, <1>3 DEF Settled, PersistEvent, p
<1>8. /\ th' \in [Threads -> Job(Msgs)]
      /\ \A u \in Threads : u # t => th'[u] = th[u]
      /\ Working(t)'
  <2>1. CASE NextMessage(t)
    BY <1>1, <2>1, LeavingMessage
  <2>2. CASE th' = [th EXCEPT ![t].pc = "ack"] /\ ~NextMessage(t)
    <3>1. th'[t].todo = th[t].todo
      <4>1. th \in [Threads -> Job(Msgs)]
        BY TypeFacts DEF CentralInv
      <4>2. th[t] \in Job(Msgs)
        BY <4>1
      <4>3. th'[t] = [th[t] EXCEPT !.pc = "ack"]
        BY <2>2, <4>1
      <4> QED
        BY <4>2, <4>3 DEF Job
    <3>2. Settled(Cur(t))'
      BY <1>7, <2>2, <3>1 DEF Cur, Settled
    <3> QED
      BY <1>1, <2>2, <3>2, KeepingMessage
  <2> QED
    BY <1>3, <2>1, <2>2
<1>9. /\ cursor' \in (0..Len(stream)) \cup {NoGroup}
      /\ DOMAIN pel' \subseteq Msgs /\ pel' \in [DOMAIN pel' -> BOOLEAN]
  BY <1>1 DEF CentralInv, TypeOK
<1> QED
  BY <1>1, <1>4, <1>5, <1>6, <1>8, <1>9, ThreadStep

LEMMA AckStep ==
    ASSUME CentralInv, NEW t \in Threads, Ack(t)
    PROVE  CentralInv'
<1> DEFINE m == Cur(t)
           rest == [k \in DOMAIN pel \ {m} |-> pel[k]]
<1>1. /\ UNCHANGED <<stream, cursor, deadLetters, rows, alerts, accepted, crashes>>
      /\ th[t].pc = "ack" /\ NextMessage(t) /\ pel' \in {pel, rest}
  BY DEF Ack, tables
<1>2. Settled(m)
  BY <1>1 DEF CentralInv, Workmanship, Working
<1>3. pel \in [DOMAIN pel -> BOOLEAN] /\ DOMAIN pel \subseteq Msgs
  BY DEF CentralInv, TypeOK
<1>4. DOMAIN rest = DOMAIN pel \ {m} /\ rest \in [DOMAIN rest -> BOOLEAN]
  BY <1>3
<1> HIDE DEF rest, m
<1>5. DOMAIN pel' \subseteq Msgs /\ pel' \in [DOMAIN pel' -> BOOLEAN]
  BY <1>1, <1>3, <1>4
<1>6. \A k \in Msgs : k \in DOMAIN pel => k \in DOMAIN pel' \/ Settled(k)
  BY <1>1, <1>2, <1>4
<1>7. Delivered' /\ EffectsHappenOnce'
  BY <1>1, <1>6, DeliveredStays DEF CentralInv, EffectsHappenOnce
<1>8. /\ th' \in [Threads -> Job(Msgs)]
      /\ \A u \in Threads : u # t => th'[u] = th[u]
      /\ Working(t)'
  BY <1>1, LeavingMessage
<1>9. /\ cursor' \in (0..Len(stream)) \cup {NoGroup}
      /\ rows' \subseteq Events /\ alerts' \subseteq Events /\ deadLetters' \subseteq Msgs
  BY <1>1 DEF CentralInv, TypeOK
<1> QED
  BY <1>1, <1>5, <1>7, <1>8, <1>9, ThreadStep

LEMMA BecomeIdleStep ==
    ASSUME CentralInv, NEW m, BecomeIdle(m)
    PROVE  CentralInv'
<1>1. /\ UNCHANGED <<stream, cursor, deadLetters, rows, alerts, th, accepted, crashes>>
      /\ pel' = [pel EXCEPT ![m] = TRUE]
  BY DEF BecomeIdle, tables
<1>2. pel \in [DOMAIN pel -> BOOLEAN]
  BY DEF CentralInv, TypeOK
<1>3. pel' \in [DOMAIN pel -> BOOLEAN] /\ DOMAIN pel' = DOMAIN pel
  BY <1>1, <1>2
<1>4. TypeOK'
  BY <1>1, <1>3 DEF CentralInv, TypeOK, Msgs
<1>5. Workmanship'
  BY <1>1 DEF CentralInv, Workmanship, Working, Settled, Cur
<1>6. Published' /\ EffectsHappenOnce'
  BY <1>1 DEF CentralInv, Published, EffectsHappenOnce, Msgs
<1>7. Delivered'
  BY <1>1, <1>3 DEF CentralInv, Delivered, InFlight, Settled, Msgs
<1> QED
  BY <1>4, <1>5, <1>6, <1>7 DEF CentralInv

(* What a goroutine starts with.                                           *)
LEMMA FreshJob ==
    ASSUME NEW M, NEW t \in Threads
    PROVE  /\ Fresh(t) \in Job(M) /\ Fresh(t).pc \in {"boot", "wait"}
           /\ t[2] = "main" => Fresh(t).pc = "boot"
           /\ t[2] = "recovery" => Fresh(t).via = "claim"
<1>1. << >> \in Seq(M)
  BY EmptySeq
<1>2. /\ Booting \in Job(M) /\ Booting.pc = "boot" /\ Booting.via = "claim"
      /\ Sweeping \in Job(M) /\ Sweeping.pc = "wait" /\ Sweeping.via = "claim"
  BY <1>1 DEF Booting, Sweeping, Job, Pcs, Vias
<1> QED
  BY <1>2 DEF Fresh

LEMMA CrashStep ==
    ASSUME CentralInv, NEW w \in Workers, CrashWorker(w)
    PROVE  CentralInv'
<1>1. /\ UNCHANGED <<stream, cursor, pel, deadLetters, rows, alerts, accepted>>
      /\ crashes < MaxCrashes /\ crashes' = crashes + 1
      /\ th' = [t \in Threads |-> IF t[1] = w THEN Fresh(t) ELSE th[t]]
  BY DEF CrashWorker, queue, tables
<1>2. th \in [Threads -> Job(Msgs)]
  BY TypeFacts DEF CentralInv
<1>3. \A t \in Threads : th'[t] = Fresh(t) \/ th'[t] = th[t]
  BY <1>1
<1>4. th' \in [Threads -> Job(Msgs)]
  BY <1>1, <1>2, FreshJob
<1>5. TypeOK'
  <2>1. th' \in [Threads -> [pc : {"boot", "wait", "claim", "process", "ack"},
                             via : {"claim", "process"}, todo : Seq(Msgs')]]
    BY <1>1, <1>4 DEF Job, Pcs, Vias, Msgs
  <2>2. crashes' \in 0..MaxCrashes
    BY <1>1, CentralAssumption DEF CentralInv, TypeOK
  <2> QED
    BY <1>1, <2>1, <2>2 DEF CentralInv, TypeOK, Msgs
<1>6. Workmanship'
  <2> SUFFICES ASSUME NEW t \in Threads
               PROVE  Working(t)'
    BY DEF Workmanship, Threads
  <2>1. CASE th'[t] = Fresh(t)
    BY <2>1, FreshJob DEF Working
  <2>2. CASE th'[t] = th[t]
    BY <1>1, <2>2 DEF CentralInv, Workmanship, Working, Settled, Cur
  <2> QED
    BY <1>3, <2>1, <2>2
<1>7. Published' /\ EffectsHappenOnce'
  BY <1>1 DEF CentralInv, Published, EffectsHappenOnce, Msgs
<1>8. Delivered'
  BY <1>1 DEF CentralInv, Delivered, InFlight, Settled, Msgs
<1> QED
  BY <1>5, <1>6, <1>7, <1>8 DEF CentralInv

-----------------------------------------------------------------------------
LEMMA CentralInit == Init => CentralInv
<1> SUFFICES ASSUME Init PROVE CentralInv
  OBVIOUS
<1>1. stream = << >> /\ Len(stream) = 0 /\ Msgs = {}
  BY DEF Init, Msgs
<1>2. TypeOK
  <2>1. stream \in Seq(Events \cup {Malformed}) /\ Len(stream) <= MaxMsgs
    BY <1>1, EmptySeq, CentralAssumption
  <2>2. th \in [Threads -> Job(Msgs)]
    BY FreshJob DEF Init
  <2>3. th \in [Threads -> [pc : {"boot", "wait", "claim", "process", "ack"},
                            via : {"claim", "process"}, todo : Seq(Msgs)]]
    BY <2>2 DEF Job, Pcs, Vias
  <2>4. DOMAIN pel = {}
    BY DEF Init
  <2>5. pel \in [DOMAIN pel -> BOOLEAN]
    BY <2>4 DEF Init
  <2>6. crashes \in 0..MaxCrashes
    BY CentralAssumption DEF Init
  <2> QED
    BY <2>1, <2>3, <2>4, <2>5, <2>6 DEF Init, TypeOK
<1>3. Workmanship
  BY FreshJob DEF Init, Workmanship, Working
<1>4. Published /\ Delivered /\ EffectsHappenOnce
  BY <1>1 DEF Init, Published, Delivered, EffectsHappenOnce
<1> QED
  BY <1>2, <1>3, <1>4 DEF CentralInv

LEMMA CentralNext ==
    ASSUME CentralInv, [Next]_vars
    PROVE  CentralInv'
<1>1. ASSUME NEW e \in Events, Ingest(e)
      PROVE  CentralInv'
  <2>1. accepted \subseteq Events
    BY DEF CentralInv, TypeOK
  <2>2. accepted' \subseteq accepted \cup ({e} \cap Events) /\ accepted' \subseteq Events
    BY <1>1, <2>1 DEF Ingest
  <2> QED
    BY <1>1, <2>2, XAddStep DEF Ingest
<1>2. CASE StrayMessage
  <2>1. accepted' \subseteq accepted \cup ({Malformed} \cap Events) /\ accepted' \subseteq Events
    BY <1>2 DEF StrayMessage, CentralInv, TypeOK
  <2> QED
    BY <1>2, <2>1, XAddStep DEF StrayMessage
<1>3. ASSUME NEW t \in Threads, Step(t)
      PROVE  CentralInv'
  BY <1>3, BootStep, SweepStep, ClaimStep, ReadStep, ProcessStep, AckStep DEF Step
<1>4. CASE UNCHANGED vars
  <2>1. /\ UNCHANGED <<stream, cursor, pel, deadLetters, rows, alerts, th, accepted, crashes>>
    BY <1>4 DEF vars, queue, tables
  <2>2. TypeOK'
    BY <2>1 DEF CentralInv, TypeOK, Msgs
  <2>3. Workmanship'
    BY <2>1 DEF CentralInv, Workmanship, Working, Settled, Cur
  <2>4. Published' /\ Delivered' /\ EffectsHappenOnce'
    BY <2>1 DEF CentralInv, Published, Delivered, EffectsHappenOnce, InFlight, Settled, Msgs
  <2> QED
    BY <2>2, <2>3, <2>4 DEF CentralInv
<1> QED
  BY <1>1, <1>2, <1>3, <1>4, BecomeIdleStep, CrashStep DEF Next

LEMMA CentralInvariant == Spec => []CentralInv
BY CentralInit, CentralNext, PTL DEF Spec

(* An accepted event is in the stream, and no handler publishes what is    *)
(* dead-lettered: it is persisted or in flight.                            *)
LEMMA SettledOrInFlight ==
    ASSUME CentralInv
    PROVE  NothingAckedUnsettled
<1>1. \A m \in Msgs : InFlight(m) \/ stream[m] \in rows \/ m \in deadLetters
  BY DEF CentralInv, Delivered, Settled
<1>2. ASSUME NEW e \in accepted
      PROVE  e \in rows \/ \E m \in Msgs : stream[m] = e /\ InFlight(m)
  <2>1. PICK m \in Msgs : stream[m] = e
    BY DEF CentralInv, Published
  <2>2. e # Malformed
    BY CentralAssumption DEF CentralInv, TypeOK
  <2>3. m \notin deadLetters
    BY <2>1, <2>2 DEF CentralInv, EffectsHappenOnce
  <2> QED
    BY <1>1, <2>1, <2>3
<1> QED
  BY <1>1, <1>2 DEF NothingAckedUnsettled

(* The group stays within the stream, work lists name existing messages    *)
(* and the tables hold validated events only.                              *)
THEOREM CentralTyped == Spec => []TypeOK
<1>1. CentralInv => TypeOK
  BY DEF CentralInv
<1> QED
  BY <1>1, CentralInvariant, PTL

(* At-least-once: no message leaves the consumer group unsettled, and an   *)
(* event answered with 202 is persisted or in flight.                      *)
THEOREM AtLeastOnce == Spec => []NothingAckedUnsettled
<1>1. CentralInv => NothingAckedUnsettled
  BY SettledOrInFlight
<1> QED
  BY <1>1, CentralInvariant, PTL

(* Redelivery and concurrent processing add no alert and lose none, and    *)
(* only foreign messages are dead-lettered.                                *)
THEOREM EffectivelyOnce == Spec => []EffectsHappenOnce
<1>1. CentralInv => EffectsHappenOnce
  BY DEF CentralInv
<1> QED
  BY <1>1, CentralInvariant, PTL
=============================================================================
