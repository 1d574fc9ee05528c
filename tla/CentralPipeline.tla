-------------------------- MODULE CentralPipeline ---------------------------
(***************************************************************************)
(* The central server: the ingest handler (server/internal/api/ingest.go)  *)
(* publishes events on a Valkey stream; workers (server/internal/queue/    *)
(* consumer.go), members of one consumer group, persist them in PostgreSQL *)
(* (server/internal/db/repository.go) and acknowledge them.  A worker is   *)
(* two goroutines: the main loop reads new messages, the recovery loop     *)
(* takes over messages that have been pending for too long.                *)
(*                                                                         *)
(* Valkey and PostgreSQL are external: they are their state (the stream,   *)
(* the group's cursor and pending entries list; the two tables) and the    *)
(* commands the code sends, each of which may be applied, fail, or be      *)
(* applied and seem to fail.                                               *)
(***************************************************************************)
EXTENDS Naturals, Sequences, FiniteSets

CONSTANTS
    Events,         \* ids of the events clients post that pass Validate()
    Alerting,       \* the CRITICAL and FATAL ones
    Unpersistable,  \* ids that Validate() accepts and PostgreSQL always rejects
    NoGroup,        \* the consumer group does not exist yet
    Malformed,      \* a payload that does not decode or does not validate
    Workers,
    ReadCount,      \* XREADGROUP COUNT (10 in the code)
    RecoveryBatchSize,  \* 100 in the code
    MaxMsgs,        \* bound: length of the stream
    MaxCrashes      \* bound: worker crashes and stops

ASSUME CentralAssumption ==
    /\ Alerting \subseteq Events /\ Unpersistable \subseteq Events
    /\ Malformed \notin Events /\ NoGroup \notin Nat
    /\ ReadCount \in Nat \ {0} /\ RecoveryBatchSize \in Nat \ {0}
    /\ MaxMsgs \in Nat /\ MaxCrashes \in Nat

VARIABLES
    stream,         \* ot_events_stream: payloads in arrival order; never trimmed
    cursor,         \* last-delivered id of worker_group, NoGroup before it exists
    pel,            \* pending entries: message -> has it been idle for MinIdleTime
    deadLetters,    \* messages copied to ot_events_dlq
    rows,           \* table events
    alerts,         \* table alerts
    th,             \* the goroutines <<worker, "main" or "recovery">>
    crashes,        \* crashes so far
    accepted        \* ghost: events answered with 202

tables == <<rows, alerts>>
queue  == <<stream, cursor, pel, deadLetters>>
vars   == <<queue, tables, th, crashes, accepted>>

(***************************************************************************)
(* A goroutine works through `todo'.  It handles a message directly when   *)
(* it came with XREADGROUP (via = "process"), or claims it first when it   *)
(* came with XPENDING (via = "claim").                                     *)
(***************************************************************************)
Threads  == Workers \X {"main", "recovery"}
Msgs     == 1..Len(stream)
Booting  == [pc |-> "boot", via |-> "claim", todo |-> << >>]
InLoop   == [pc |-> "wait", via |-> "process", todo |-> << >>]
Sweeping == [pc |-> "wait", via |-> "claim", todo |-> << >>]
Fresh(t) == IF t[2] = "main" THEN Booting ELSE Sweeping

Init ==
    /\ stream = << >> /\ cursor = NoGroup /\ pel = << >> /\ deadLetters = {}
    /\ rows = {} /\ alerts = {}
    /\ th = [t \in Threads |-> Fresh(t)]
    /\ crashes = 0 /\ accepted = {}

-----------------------------------------------------------------------------
(***************************************************************************)
(* ServeHTTP: a request that does not decode or validate is answered 4xx   *)
(* and changes nothing; otherwise XADD decides.  202 follows a successful  *)
(* XADD only; after an error (500) the message may be in the stream.       *)
(***************************************************************************)
XAdd(payload) == Len(stream) < MaxMsgs /\ stream' = Append(stream, payload)

Ingest(e) ==
    /\ XAdd(e)
    /\ accepted' \in {accepted, accepted \cup {e}}
    /\ UNCHANGED <<cursor, pel, deadLetters, tables, th, crashes>>

(* External: something else writes to the stream.                          *)
StrayMessage ==
    /\ XAdd(Malformed)
    /\ UNCHANGED <<cursor, pel, deadLetters, tables, th, crashes, accepted>>

-----------------------------------------------------------------------------
Oldest(S, n) == {m \in S : Cardinality({x \in S : x < m}) < n}

(* The messages of a set in stream order.                                  *)
InOrder(S) == [i \in 1..Cardinality(S) |->
                 CHOOSE m \in S : Cardinality({x \in S : x < m}) = i - 1]

Cur(t) == Head(th[t].todo)

(* The next message of the list, or back to the goroutine's select.  The   *)
(* main goroutine enters its loop once the initial recovery is over.       *)
Resume(t, via, todo) ==
    th' = [th EXCEPT ![t] =
             IF todo # << >>       THEN [pc |-> via, via |-> via, todo |-> todo]
             ELSE IF t[2] = "main" THEN InLoop
             ELSE                       Sweeping]

NextMessage(t) == Resume(t, th[t].via, Tail(th[t].todo))

(* Definitions named M_... are slips the code could contain; each shows     *)
(* that some property would notice it.  No specification uses them.         *)

(* M: one entry less than the batch.                                       *)
M_ShortBatch == InOrder({m \in Oldest(DOMAIN pel, RecoveryBatchSize - 1) : pel[m]})

(***************************************************************************)
(* recoverPending: of the oldest RecoveryBatchSize pending entries, those  *)
(* that are idle long enough when the list is taken.  Start creates the    *)
(* group at id 0 and does this before its first read; the listing may fail *)
(* (an error from the group's creation ends the worker: CrashWorker).      *)
(***************************************************************************)
ListPending == InOrder({m \in Oldest(DOMAIN pel, RecoveryBatchSize) : pel[m]})

Boot(t) ==
    /\ th[t].pc = "boot"
    /\ cursor' = IF cursor = NoGroup THEN 0 ELSE cursor
    /\ \E todo \in {ListPending, << >>} : Resume(t, "claim", todo)
    /\ UNCHANGED <<stream, pel, deadLetters, tables, crashes, accepted>>

Sweep(t) ==
    /\ th[t] = Sweeping
    /\ th[<<t[1], "main">>].via = "process"
    /\ ListPending # << >>
    /\ Resume(t, "claim", ListPending)
    /\ UNCHANGED <<queue, tables, crashes, accepted>>

(***************************************************************************)
(* XCLAIM takes the entry over if it is still pending and still idle, and  *)
(* XRANGE fetches its payload.  The code looks at the errors only, so it   *)
(* processes the message even when another worker has claimed or           *)
(* acknowledged it in the meantime; after an error, applied or not, it     *)
(* goes on to the next entry.                                              *)
(***************************************************************************)
TakenOver(m) == [x \in DOMAIN pel |-> pel[x] /\ x # m]

Claim(t) ==
    /\ th[t].pc = "claim"
    /\ \/ /\ NextMessage(t)
          /\ pel' \in {pel, TakenOver(Cur(t))}
       \/ /\ th' = [th EXCEPT ![t].pc = "process"]
          /\ pel' = TakenOver(Cur(t))
    /\ UNCHANGED <<stream, cursor, deadLetters, tables, crashes, accepted>>

(* XREADGROUP: new messages become pending entries; the answer may be lost.*)
Read(t) ==
    /\ th[t] = InLoop
    /\ cursor < Len(stream)
    /\ LET new == Oldest(cursor + 1 .. Len(stream), ReadCount)
       IN  /\ cursor' = cursor + Cardinality(new)
           /\ pel' = [m \in DOMAIN pel \cup new |-> m \notin new /\ pel[m]]
           /\ \E todo \in {InOrder(new), << >>} : Resume(t, "process", todo)
    /\ UNCHANGED <<stream, deadLetters, tables, crashes, accepted>>

(* M: the error of the INSERT is swallowed; the alert has its own commit.  *)
M_SwallowError(e) == UNCHANGED tables
M_AlertApart(e) ==
    /\ rows' \in {rows, rows \cup {e}}
    /\ alerts' = IF e \in Alerting THEN alerts \cup {e} ELSE alerts

(***************************************************************************)
(* PersistEvent, one transaction: a new event brings its alert with it, an *)
(* event that is there already changes nothing.                            *)
(***************************************************************************)
PersistEvent(e) ==
    /\ e \notin Unpersistable
    /\ rows' = rows \cup {e}
    /\ alerts' = IF e \notin rows /\ e \in Alerting THEN alerts \cup {e} ELSE alerts

(* M: the payload is stored as it was read, decoded and validated or not.  *)
M_ProcessUnvalidated(t) ==
    /\ th[t].pc = "process"
    /\ \/ PersistEvent(stream[Cur(t)]) /\ (th' = [th EXCEPT ![t].pc = "ack"] \/ NextMessage(t))
       \/ NextMessage(t) /\ UNCHANGED tables
    /\ UNCHANGED <<queue, crashes, accepted>>

(***************************************************************************)
(* processMessage up to XACK.  A payload that cannot be decoded or does    *)
(* not validate goes to the dead letter stream.  Any error leaves the      *)
(* message pending, whether or not the command took effect.                *)
(***************************************************************************)
Process(t) ==
    LET payload == stream[Cur(t)]
    IN  /\ th[t].pc = "process"
        /\ \/ /\ payload = Malformed
              /\ deadLetters' = deadLetters \cup {Cur(t)}
              /\ UNCHANGED tables
              /\ \/ th' = [th EXCEPT ![t].pc = "ack"]
                 \/ NextMessage(t)
           \/ /\ payload # Malformed
              /\ PersistEvent(payload)
              /\ UNCHANGED deadLetters
              /\ \/ th' = [th EXCEPT ![t].pc = "ack"]
                 \/ NextMessage(t)
           \/ /\ NextMessage(t)
              /\ UNCHANGED <<deadLetters, tables>>
        /\ UNCHANGED <<stream, cursor, pel, crashes, accepted>>

Ack(t) ==
    /\ th[t].pc = "ack"
    /\ NextMessage(t)
    /\ pel' \in {pel, [m \in DOMAIN pel \ {Cur(t)} |-> pel[m]]}
    /\ UNCHANGED <<stream, cursor, deadLetters, tables, crashes, accepted>>

(* External: an entry has been pending for MinIdleTime.                    *)
BecomeIdle(m) ==
    /\ m \in DOMAIN pel /\ ~pel[m]
    /\ pel' = [pel EXCEPT ![m] = TRUE]
    /\ UNCHANGED <<stream, cursor, deadLetters, tables, th, crashes, accepted>>

(* A worker stops or dies, and is started again.                           *)
CrashWorker(w) ==
    /\ crashes < MaxCrashes
    /\ crashes' = crashes + 1
    /\ th' = [t \in Threads |-> IF t[1] = w THEN Fresh(t) ELSE th[t]]
    /\ UNCHANGED <<queue, tables, accepted>>

Step(t) == Boot(t) \/ Sweep(t) \/ Claim(t) \/ Read(t) \/ Process(t) \/ Ack(t)

Next ==
    \/ \E e \in Events : Ingest(e)
    \/ StrayMessage
    \/ \E t \in Threads : Step(t)
    \/ \E m \in Msgs : BecomeIdle(m)
    \/ \E w \in Workers : CrashWorker(w)

Spec == Init /\ [][Next]_vars

(***************************************************************************)
(* Fairness: goroutines run, time passes, and Valkey and PostgreSQL do not *)
(* fail forever: a message claimed again and again is claimed successfully *)
(* in the end, and persisted if PostgreSQL can take it at all.             *)
(***************************************************************************)
ProcessSucceeds(m) ==
    \E t \in Threads : /\ th[t].todo # << >> /\ Cur(t) = m
                       /\ Process(t) /\ th'[t].pc = "ack"

ClaimSucceeds(m) ==
    \E t \in Threads : /\ th[t].todo # << >> /\ Cur(t) = m
                       /\ Claim(t) /\ th'[t].pc = "process"

Fairness ==
    /\ \A t \in Threads : WF_vars(Step(t))
    /\ \A m \in 1..MaxMsgs : /\ WF_vars(m \in Msgs /\ BecomeIdle(m))
                             /\ SF_vars(m \in Msgs /\ ClaimSucceeds(m))
                             /\ SF_vars(m \in Msgs /\ ProcessSucceeds(m))

FairSpec == Spec /\ Fairness

-----------------------------------------------------------------------------
(* The group never runs ahead of the stream, pending entries, dead letters  *)
(* and work lists name messages that exist, and the tables hold validated   *)
(* events only.                                                             *)
TypeOK ==
    /\ stream \in Seq(Events \cup {Malformed}) /\ Len(stream) <= MaxMsgs
    /\ cursor \in (0..Len(stream)) \cup {NoGroup}
    /\ DOMAIN pel \subseteq Msgs /\ pel \in [DOMAIN pel -> BOOLEAN]
    /\ deadLetters \subseteq Msgs
    /\ rows \subseteq Events /\ alerts \subseteq Events
    /\ th \in [Threads -> [pc : {"boot", "wait", "claim", "process", "ack"},
                           via : {"claim", "process"}, todo : Seq(Msgs)]]
    /\ crashes \in 0..MaxCrashes
    /\ accepted \subseteq Events

(* The group has not been given this message, or somebody still owes an    *)
(* acknowledgement for it.                                                 *)
InFlight(m) == cursor = NoGroup \/ m > cursor \/ m \in DOMAIN pel

(***************************************************************************)
(* At-least-once: a message leaves the group only after its event is       *)
(* persisted or a copy is in the dead letter stream, so an event answered  *)
(* with 202 is in PostgreSQL or still in flight.  Lost answers, failed     *)
(* acknowledgements, two workers on one message and crashes between any    *)
(* two commands included.                                                  *)
(***************************************************************************)
NothingAckedUnsettled ==
    /\ \A m \in Msgs : InFlight(m) \/ stream[m] \in rows \/ m \in deadLetters
    /\ \A e \in accepted : e \in rows \/ \E m \in Msgs : stream[m] = e /\ InFlight(m)

(***************************************************************************)
(* However often an event is published, redelivered or processed twice at  *)
(* once, it has an alert exactly when it is persisted and CRITICAL or      *)
(* FATAL; only messages that no handler published are dead-lettered.       *)
(***************************************************************************)
EffectsHappenOnce ==
    /\ alerts = rows \cap Alerting
    /\ \A m \in deadLetters : stream[m] = Malformed

(***************************************************************************)
(* A message that can be persisted is persisted: failed attempts stay      *)
(* pending and recovery picks them up.                                     *)
(***************************************************************************)
PendingIsRetried ==
    \A e \in Events \ Unpersistable : e \in accepted ~> e \in rows
=============================================================================
