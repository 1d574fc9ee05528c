-------------------------- MODULE ProcessLifecycle --------------------------
(***************************************************************************)
(* The process collector (agent/internal/collectors/process): one          *)
(* goroutine lists the processes of the host, asks for the start time of   *)
(* each listed PID, and hands the snapshot to the LifecycleEngine, which   *)
(* compares it with the instances it knows and sends PROCESS_EXIT and      *)
(* PROCESS_START events on the agent's channel.                            *)
(*                                                                         *)
(* Processes come and go between the listing and the single questions, and *)
(* PIDs are used again.  A process instance is a PID and a start time;     *)
(* start times are drawn from one clock that never stands still.  The      *)
(* channel is represented by how full it is.                               *)
(***************************************************************************)
EXTENDS Naturals, FiniteSets, Sequences

CONSTANTS
    Pids,           \* process ids
    MaxInstances,   \* bound: processes ever started on the host
    ChanCap         \* capacity of the channel (200 in the code)

ASSUME HostAssumption ==
    /\ Pids \subseteq Nat /\ IsFiniteSet(Pids)
    /\ MaxInstances \in Nat \ {0} /\ ChanCap \in Nat \ {0}

VARIABLES
    os, running, clock,             \* the host: its kind, its processes, its clock
    started, stopped, returned,     \* ProcessCollector; Stop has returned
    cancelled,                      \* runCtx is done
    pc, todo, seen, blind, queue,   \* the goroutine: listed and not yet asked,
                                    \* observed, unobservable; events to emit
    known, initialized,             \* LifecycleEngine: state, initialized
    fill,                           \* the channel
    baseline, sent                  \* ghosts: the first state; all that was sent

host      == <<os, running, clock>>
collector == <<started, stopped, returned>>
snapshot  == <<todo, seen, blind>>
engine    == <<known, initialized, baseline>>
channel   == <<fill, sent>>
vars == <<host, collector, cancelled, pc, snapshot, queue, engine, channel>>

(* Identity of a process, and the events about it.                         *)
Instance == [pid : Pids, start : 1..MaxInstances]
Event    == [action : {"START", "EXIT"}, inst : Instance]

Init ==
    /\ os \in {"linux", "windows"}
    /\ \E P \in SUBSET Pids :       \* one instance each, started at boot
          running = {[pid |-> p, start |-> 1] : p \in P}
    /\ clock = 1
    /\ started = FALSE /\ stopped = FALSE /\ returned = FALSE /\ cancelled = FALSE
    /\ pc = "off" /\ todo = {} /\ seen = {} /\ blind = {} /\ queue = <<>>
    /\ known = {} /\ initialized = FALSE /\ baseline = {}
    /\ fill = 0 /\ sent = <<>>

-----------------------------------------------------------------------------
(* The host: external.                                                     *)
Spawn ==
    /\ clock < MaxInstances
    /\ \E p \in Pids \ {i.pid : i \in running} :
          running' = running \cup {[pid |-> p, start |-> clock + 1]}
    /\ clock' = clock + 1
    /\ UNCHANGED <<os, collector, cancelled, pc, snapshot, queue, engine, channel>>

Exit ==
    /\ \E i \in running : running' = running \ {i}
    /\ UNCHANGED <<os, clock, collector, cancelled, pc, snapshot, queue, engine, channel>>

(* The ingestion engine takes an event from the channel.                   *)
Receive ==
    /\ fill > 0
    /\ fill' = fill - 1
    /\ UNCHANGED <<host, collector, cancelled, pc, snapshot, queue, engine, sent>>

-----------------------------------------------------------------------------
(* Start and Stop, called by main.  The goroutine's context ends with the  *)
(* agent's (Signal) or with Stop, if Start has made it.                    *)
Start ==
    /\ ~stopped /\ ~started
    /\ started' = TRUE
    /\ pc' = "adapter"
    /\ UNCHANGED <<host, stopped, returned, cancelled, snapshot, queue, engine, channel>>

Signal ==
    /\ ~cancelled
    /\ cancelled' = TRUE
    /\ UNCHANGED <<host, collector, pc, snapshot, queue, engine, channel>>

Stop ==
    /\ ~stopped
    /\ stopped' = TRUE
    /\ cancelled' = (cancelled \/ started)
    /\ UNCHANGED <<host, started, returned, pc, snapshot, queue, engine, channel>>

(* c.wg.Wait: Stop returns when the goroutine has ended.                   *)
StopReturns ==
    /\ stopped /\ ~returned
    /\ pc \in {"off", "ended"}
    /\ returned' = TRUE
    /\ UNCHANGED <<host, started, stopped, cancelled, pc, snapshot, queue, engine, channel>>

-----------------------------------------------------------------------------
(* getBootTime and getClkTick may find their line of /proc missing.        *)
ClockMayBeMissing == os = "linux"

(* startOSAdapter: without the clock the goroutine only waits for the end  *)
(* of its context.                                                         *)
NewAdapter ==
    /\ pc = "adapter"
    /\ \/ pc' = "scan"
       \/ ClockMayBeMissing /\ pc' = "wedged"
    /\ UNCHANGED <<host, collector, cancelled, snapshot, queue, engine, channel>>

(* select { ctx.Done, ticker.C }                                           *)
Tick ==
    /\ pc = "wait"
    /\ pc' = "scan"
    /\ UNCHANGED <<host, collector, cancelled, snapshot, queue, engine, channel>>

Quit ==
    /\ pc \in {"wait", "wedged"} /\ cancelled
    /\ pc' = "ended"
    /\ UNCHANGED <<host, collector, cancelled, snapshot, queue, engine, channel>>

(* captureSnapshot.  The listing, by os.ReadDir or by Toolhelp, fails as a *)
(* whole or returns the PIDs that are in use.                              *)
ListingFails ==
    /\ pc = "scan"
    /\ pc' = "wait"
    /\ UNCHANGED <<host, collector, cancelled, snapshot, queue, engine, channel>>

Listing ==
    /\ pc = "scan"
    /\ pc' = "read"
    /\ todo' = running
    /\ UNCHANGED <<host, collector, cancelled, seen, blind, queue, engine, channel>>

Holder(p) == {j \in running : j.pid = p}

(* Whom a question about the PID of the listed process i is answered for:  *)
(* on Linux the process that has the PID now, if there is one; on Windows  *)
(* also i itself after its exit, while somebody keeps a handle on it.  (A  *)
(* later holder that has exited may be answered for likewise; the question *)
(* asked just before that exit has the same answer and the same effect.)   *)
ParseProcess(i) == Holder(i.pid)

GetProcessStartTime(i) == IF Holder(i.pid) = {} THEN {i} ELSE Holder(i.pid)

Observed(i) == IF os = "linux" THEN ParseProcess(i) ELSE GetProcessStartTime(i)

(* One PID of the listing.  Every question may fail; the PID then goes     *)
(* into the snapshot without a start time.                                 *)
M_OmitUnreadable(i) ==
    /\ seen' \in {seen, seen \cup Observed(i)}
    /\ UNCHANGED blind

Record(i) ==
    \/ /\ Observed(i) # {}
       /\ seen' = seen \cup Observed(i)
       /\ UNCHANGED blind
    \/ /\ blind' = blind \cup {i.pid}
       /\ UNCHANGED seen

Read ==
    /\ pc = "read"
    /\ \E i \in todo : Record(i) /\ todo' = todo \ {i}
    /\ UNCHANGED <<host, collector, cancelled, pc, queue, engine, channel>>

-----------------------------------------------------------------------------
(* LifecycleEngine.Reconcile: the part under the lock computes what is     *)
(* gone and new; the events are emitted after it, exits first, each group  *)
(* ordered by PID and start time.                                          *)
Before(i, j) == i.pid < j.pid \/ (i.pid = j.pid /\ i.start < j.start)

Ordered(S) ==
    CHOOSE q \in [1..Cardinality(S) -> S] :
        \A m, n \in 1..Cardinality(S) : m < n => Before(q[m], q[n])

Events(action, S) ==
    [n \in 1..Cardinality(S) |-> [action |-> action, inst |-> Ordered(S)[n]]]

M_GoneIfAllReadable == IF blind = {} THEN known \ seen ELSE {}

Gone == {i \in known : i \notin seen /\ i.pid \notin blind}
New  == seen \ known

M_StartsFirst == Events("START", New) \o Events("EXIT", Gone)

Emissions == Events("EXIT", Gone) \o Events("START", New)

Proceed(q) ==
    /\ queue' = q
    /\ pc' = IF q = <<>> THEN "wait" ELSE "emit"

Reconcile ==
    /\ pc = "read" /\ todo = {}
    /\ IF initialized
       THEN /\ known' = (known \cup seen) \ Gone
            /\ Proceed(Emissions)
            /\ UNCHANGED baseline
       ELSE /\ known' = known \cup seen
            /\ Proceed(<<>>)
            /\ baseline' = known'
    /\ initialized' = TRUE
    /\ seen' = {} /\ blind' = {}       \* the snapshot is not used again
    /\ UNCHANGED <<host, collector, cancelled, todo, channel>>

(* emit: select { ctx.Done, le.out <- event }                              *)
Send ==
    /\ fill < ChanCap
    /\ fill' = fill + 1
    /\ sent' = Append(sent, Head(queue))

M_DropWhenFull ==
    /\ pc = "emit"
    /\ IF fill < ChanCap THEN Send ELSE UNCHANGED channel
    /\ Proceed(Tail(queue))
    /\ UNCHANGED <<host, collector, cancelled, snapshot, engine>>

M_BlockingSend ==
    /\ pc = "emit"
    /\ Send
    /\ Proceed(Tail(queue))
    /\ UNCHANGED <<host, collector, cancelled, snapshot, engine>>

Emit ==
    /\ pc = "emit"
    /\ \/ Send
       \/ cancelled /\ UNCHANGED channel
    /\ Proceed(Tail(queue))
    /\ UNCHANGED <<host, collector, cancelled, snapshot, engine>>

-----------------------------------------------------------------------------
Loop == NewAdapter \/ Tick \/ Quit \/ ListingFails \/ Listing \/ Read \/ Reconcile \/ Emit

Next ==
    \/ Spawn \/ Exit \/ Receive
    \/ Start \/ Signal \/ Stop \/ StopReturns
    \/ Loop

Spec == Init /\ [][Next]_vars

(* The Go runtime schedules the goroutine, its ticker ticks and a listing  *)
(* that is tried again and again succeeds; select takes a branch that is   *)
(* ready again and again.  Host, callers and reader owe nothing.           *)
Fairness ==
    /\ WF_vars(Loop) /\ SF_vars(Listing) /\ SF_vars(Quit)
    /\ WF_vars(StopReturns)

FairSpec == Spec /\ Fairness

-----------------------------------------------------------------------------
TypeOK ==
    /\ os \in {"linux", "windows"} /\ clock \in 1..MaxInstances
    /\ {running, todo, seen, known, baseline} \subseteq SUBSET Instance
    /\ blind \subseteq Pids
    /\ {started, stopped, returned, cancelled, initialized} \subseteq BOOLEAN
    /\ pc \in {"off", "adapter", "wedged", "scan", "read", "emit", "wait", "ended"}
    /\ queue \in Seq(Event) /\ sent \in Seq(Event)
    /\ pc = "emit" <=> queue # <<>>
    /\ fill \in 0..ChanCap

(* What the engine has decided to say, sent or still to be sent.           *)
Decided == sent \o queue

About(action, q) == {q[n].inst : n \in {m \in DOMAIN q : q[m].action = action}}

(* No false PROCESS_EXIT: a process of which the engine reports the exit   *)
(* is not running, whatever could not be read and whoever has its PID now  *)
(* (Reconcile and captureSnapshot; OS_CONTRACT_AUDIT.md, section 2).       *)
NoFalseExit == About("EXIT", Decided) \cap running = {}

(* Until the context ends, nothing is lost or said twice: a reader that    *)
(* applies the events to the baseline knows exactly the processes the      *)
(* engine knows, however full the channel was (Reconcile and emit).        *)
StreamMatchesState ==
    ~cancelled =>
        /\ known = (baseline \cup About("START", Decided)) \ About("EXIT", Decided)
        /\ baseline \cap About("START", Decided) = {}
        /\ \A m, n \in DOMAIN Decided : Decided[m] = Decided[n] => m = n

(* Until the context ends, a PID that is used again is handed over in the  *)
(* order of the events: when PROCESS_START of its new process is sent, the *)
(* exit of each earlier process the reader knew by that PID has been sent. *)
PidHandover ==
    ~cancelled =>
        \A n \in DOMAIN sent : sent[n].action = "START" =>
            LET prefix == SubSeq(sent, 1, n - 1)
                b == sent[n].inst
            IN  \A a \in baseline \cup About("START", prefix) :
                    a.pid = b.pid => a \in About("EXIT", prefix)

(* Stop returns, even if the channel is full and nobody empties it, if the *)
(* adapter cannot be made, or in the middle of a scan (Stop and emit).     *)
StopCompletes == stopped ~> returned

(* While the channel is emptied, the exit of a known process is sent in    *)
(* the end, unless the collector is stopped or another process gets the    *)
(* PID, which may be unobservable for ever (captureSnapshot, Reconcile).   *)
ExitReported ==
    []<>(fill < ChanCap) =>
        \A i \in Instance :
            (i \in known \ running) ~> (\/ i \in About("EXIT", sent) \/ cancelled
                                        \/ Holder(i.pid) # {})
=============================================================================
