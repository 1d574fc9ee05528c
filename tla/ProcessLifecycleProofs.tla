----------------------- MODULE ProcessLifecycleProofs -----------------------
(***************************************************************************)
(* The process collector reports no exit that did not happen, its events   *)
(* and its state agree, and PIDs are handed over in order: for any set of  *)
(* PIDs, any number of processes and any capacity of the channel.          *)
(*                                                                         *)
(* Reconcile compares two observations that are both out of date when it   *)
(* runs.  What makes the comparison right holds all through a scan: a known*)
(* process that still runs is still to be read, was seen, or its PID could *)
(* not be read (Covered); a PID is in one of these places only and has one *)
(* process there (Single); nothing in the scan has been reported gone      *)
(* (NoneGone), for start times never come again (Past).                    *)
(***************************************************************************)
EXTENDS ProcessLifecycle, FiniteSetTheorems, SequenceTheorems, TLAPS

(* The goroutine exists once Start has made it, holds a snapshot only while*)
(* it reads one, and says nothing before it has a baseline.                *)
Phases ==
    /\ ~started => pc = "off"
    /\ pc # "read" => todo = {} /\ seen = {} /\ blind = {}
    /\ ~initialized => known = {} /\ baseline = {} /\ Decided = <<>>

(* Start times are drawn from the clock.                                   *)
Past ==
    \A i \in running \cup todo \cup seen \cup known \cup baseline
             \cup About("START", Decided) \cup About("EXIT", Decided) : i.start <= clock

Distinct(S) == \A i, j \in S : i.pid = j.pid => i = j

Single ==
    /\ Distinct(running) /\ Distinct(todo) /\ Distinct(seen)
    /\ \A i \in todo, j \in seen : i.pid # j.pid
    /\ \A i \in todo \cup seen : i.pid \notin blind

Covered ==
    pc = "read" => \A i \in known \cap running : i \in todo \cup seen \/ i.pid \in blind

NoneGone == (todo \cup seen) \cap About("EXIT", Decided) = {}

(* PidHandover, said of positions and of what is still to be sent.         *)
ExitsBefore(q, a, n) == \E k \in 1..(n - 1) : q[k].action = "EXIT" /\ q[k].inst = a

HandedOver(q, base) ==
    \A n \in DOMAIN q : q[n].action = "START" =>
        /\ \A a \in base : a.pid = q[n].inst.pid => ExitsBefore(q, a, n)
        /\ \A m \in 1..(n - 1) :
              q[m].action = "START" /\ q[m].inst.pid = q[n].inst.pid =>
                  ExitsBefore(q, q[m].inst, n)

Handover == ~cancelled => HandedOver(Decided, baseline)

ProcessInv ==
    /\ TypeOK /\ Phases /\ Past /\ Single /\ Covered
    /\ NoFalseExit /\ NoneGone /\ StreamMatchesState /\ Handover

-----------------------------------------------------------------------------
(* A finite set of processes can be put in the order of Reconcile's sort,  *)
(* so Ordered is well defined.  The place of a process is the number of    *)
(* processes before it.                                                    *)
LEMMA InstanceFields ==
    ASSUME NEW i \in Instance
    PROVE  i.pid \in Nat /\ i.start \in Nat /\ i.pid \in Pids /\ i.start \in 1..MaxInstances
<1>1. i.pid \in Pids /\ i.start \in 1..MaxInstances
  BY DEF Instance
<1>2. Pids \subseteq Nat /\ MaxInstances \in Nat
  BY HostAssumption
<1>3. \A n \in 1..MaxInstances : n \in Nat
  BY <1>2
<1> QED BY <1>1, <1>2, <1>3

LEMMA SameInstance ==
    ASSUME NEW i \in Instance, NEW j \in Instance, i.pid = j.pid, i.start = j.start
    PROVE  i = j
BY DEF Instance

LEMMA BeforeIsOrder ==
    ASSUME NEW i \in Instance, NEW j \in Instance, NEW k \in Instance
    PROVE  /\ ~Before(i, i)
           /\ Before(i, j) /\ Before(j, k) => Before(i, k)
           /\ i # j => Before(i, j) \/ Before(j, i)
<1>1. /\ i.pid \in Nat /\ i.start \in Nat /\ j.pid \in Nat /\ j.start \in Nat
      /\ k.pid \in Nat /\ k.start \in Nat
  BY InstanceFields
<1>2. i.pid = j.pid /\ i.start = j.start => i = j
  BY SameInstance
<1> QED BY <1>1, <1>2 DEF Before

LEMMA InstanceFinite == IsFiniteSet(Instance)
<1> DEFINE P == Pids \X (1..MaxInstances)
           f == [x \in P |-> [pid |-> x[1], start |-> x[2]]]
<1>1. IsFiniteSet(1..MaxInstances)
  BY HostAssumption, FS_Interval
<1>2. IsFiniteSet(P)
  BY <1>1, HostAssumption, FS_Product
<1>3. f \in [P -> Instance]
  BY DEF Instance
<1>4. ASSUME NEW i \in Instance PROVE \E x \in P : f[x] = i
  <2>1. <<i.pid, i.start>> \in P
    BY DEF Instance
  <2>2. f[<<i.pid, i.start>>] = i
    BY <2>1 DEF Instance
  <2> QED BY <2>1, <2>2
<1>5. f \in Surjection(P, Instance)
  BY <1>3, <1>4 DEF Surjection
<1> QED BY <1>2, <1>5, FS_Surjection

Lower(S, i) == {j \in S : Before(j, i)}

LEMMA LowerFinite ==
    ASSUME NEW S \in SUBSET Instance, NEW i
    PROVE  IsFiniteSet(Lower(S, i)) /\ Cardinality(Lower(S, i)) \in Nat
<1>1. Lower(S, i) \in SUBSET Instance
  BY DEF Lower
<1>2. IsFiniteSet(Lower(S, i))
  BY <1>1, InstanceFinite, FS_Subset
<1> QED BY <1>2, FS_CardinalityType

LEMMA PlacesGrow ==
    ASSUME NEW S \in SUBSET Instance, NEW i \in S, NEW j \in S, Before(i, j)
    PROVE  Cardinality(Lower(S, i)) < Cardinality(Lower(S, j))
<1> DEFINE I == Lower(S, i)
           J == Lower(S, j)
<1>1. /\ IsFiniteSet(I) /\ Cardinality(I) \in Nat
      /\ IsFiniteSet(J) /\ Cardinality(J) \in Nat
  BY LowerFinite
<1>2. i \notin I /\ i \in J
  BY BeforeIsOrder DEF Lower
<1>3. I \subseteq J
  BY BeforeIsOrder DEF Lower
<1>4. I \cup {i} \in SUBSET J
  BY <1>2, <1>3
<1> HIDE DEF I, J
<1>5. IsFiniteSet(I \cup {i}) /\ Cardinality(I \cup {i}) = Cardinality(I) + 1
  BY <1>1, <1>2, FS_AddElement
<1>6. Cardinality(I \cup {i}) <= Cardinality(J)
  BY <1>1, <1>4, FS_Subset
<1>7. Cardinality(I) < Cardinality(J)
  BY <1>1, <1>5, <1>6
<1> QED BY <1>7 DEF I, J

LEMMA PlaceTaken ==
    ASSUME NEW S \in SUBSET Instance, NEW n \in 1..Cardinality(S)
    PROVE  \E i \in S : Cardinality(Lower(S, i)) = n - 1
<1> DEFINE size  == Cardinality(S)
           T     == 0..(size - 1)
           place == [i \in S |-> Cardinality(Lower(S, i))]
<1>0. IsFiniteSet(S)
  BY InstanceFinite, FS_Subset
<1>1. size \in Nat
  BY <1>0, FS_CardinalityType
<1>2. ASSUME NEW i \in S
      PROVE  Cardinality(Lower(S, i)) \in T
  <2>1. Cardinality(Lower(S, i)) \in Nat
    BY LowerFinite
  <2>2. Lower(S, i) \in SUBSET S /\ i \notin Lower(S, i)
    BY BeforeIsOrder DEF Lower
  <2>3. Cardinality(Lower(S, i)) <= size /\ Cardinality(Lower(S, i)) # size
    BY <1>0, <2>2, FS_Subset
  <2> QED BY <1>1, <2>1, <2>3
<1>3. place \in [S -> T]
  BY <1>2
<1>4. \A i, j \in S : i # j => place[i] # place[j]
  <2> SUFFICES ASSUME NEW i \in S, NEW j \in S, i # j
               PROVE  Cardinality(Lower(S, i)) # Cardinality(Lower(S, j))
    OBVIOUS
  <2>1. Before(i, j) \/ Before(j, i)
    BY BeforeIsOrder
  <2>2. Cardinality(Lower(S, i)) \in Nat /\ Cardinality(Lower(S, j)) \in Nat
    BY LowerFinite
  <2> QED BY <2>1, <2>2, PlacesGrow
<1> HIDE DEF place
<1>5. place \in Injection(S, T)
  BY <1>3, <1>4 DEF Injection, IsInjective
<1>6. IsFiniteSet(T) /\ Cardinality(T) = size
  <2>1. 0 \in Int /\ size - 1 \in Int
    BY <1>1
  <2>2. /\ IsFiniteSet(0..(size - 1))
        /\ Cardinality(0..(size - 1)) = IF 0 > size - 1 THEN 0 ELSE (size - 1) - 0 + 1
    BY <2>1, FS_Interval
  <2>3. (IF 0 > size - 1 THEN 0 ELSE (size - 1) - 0 + 1) = size
    BY <1>1
  <2> QED BY <2>2, <2>3
<1>7. place \in Surjection(S, T)
  BY <1>5, <1>6, FS_Injection
<1>8. n - 1 \in T
  BY <1>1
<1>9. \E i \in S : place[i] = n - 1
  BY <1>7, <1>8 DEF Surjection
<1> QED BY <1>9 DEF place

(* Each process of the set has one place in the order.                     *)
LEMMA OrderedIsOrder ==
    ASSUME NEW S \in SUBSET Instance
    PROVE  /\ Cardinality(S) \in Nat
           /\ Ordered(S) \in [1..Cardinality(S) -> S]
           /\ \A m, n \in 1..Cardinality(S) : Ordered(S)[m] = Ordered(S)[n] => m = n
           /\ \A i \in S : \E n \in 1..Cardinality(S) : Ordered(S)[n] = i
<1> DEFINE size == Cardinality(S)
           D    == 1..size
<1>0. IsFiniteSet(S)
  BY InstanceFinite, FS_Subset
<1>1. size \in Nat
  BY <1>0, FS_CardinalityType
<1> DEFINE at(n) == CHOOSE i \in S : Cardinality(Lower(S, i)) = n - 1
           w     == [n \in D |-> at(n)]
<1>2. ASSUME NEW n \in D
      PROVE  at(n) \in S /\ Cardinality(Lower(S, at(n))) = n - 1
  BY PlaceTaken
<1> HIDE DEF at
<1>3. w \in [D -> S]
  BY <1>2
<1>4. \A m, n \in D : m < n => Before(w[m], w[n])
  <2> SUFFICES ASSUME NEW m \in D, NEW n \in D, m < n
               PROVE  Before(at(m), at(n))
    OBVIOUS
  <2>1. at(m) \in S /\ at(n) \in S /\ at(m) # at(n)
    BY <1>2
  <2>2. ~Before(at(n), at(m))
    <3> SUFFICES ASSUME Before(at(n), at(m)) PROVE FALSE
      OBVIOUS
    <3>1. Cardinality(Lower(S, at(n))) < Cardinality(Lower(S, at(m)))
      BY <2>1, PlacesGrow
    <3> QED BY <1>2, <3>1
  <2> QED BY <2>1, <2>2, BeforeIsOrder
<1> HIDE DEF w
<1>5. \E q \in [D -> S] : \A m, n \in D : m < n => Before(q[m], q[n])
  BY <1>3, <1>4
<1> DEFINE q == Ordered(S)
<1>6. q \in [D -> S] /\ \A m, n \in D : m < n => Before(q[m], q[n])
  BY <1>5 DEF Ordered
<1> HIDE DEF q
<1>7. \A m, n \in D : q[m] = q[n] => m = n
  <2> SUFFICES ASSUME NEW m \in D, NEW n \in D, m # n PROVE q[m] # q[n]
    OBVIOUS
  <2>1. m < n \/ n < m
    BY <1>1
  <2>2. q[m] \in Instance /\ q[n] \in Instance
    BY <1>6
  <2> QED BY <1>6, <2>1, <2>2, BeforeIsOrder
<1>8. q \in Injection(D, S)
  BY <1>6, <1>7 DEF Injection, IsInjective
<1>9. Cardinality(D) = size
  <2>1. Cardinality(1..size) = IF 1 > size THEN 0 ELSE size - 1 + 1
    BY <1>1, FS_Interval
  <2> QED BY <1>1, <2>1
<1>10. q \in Surjection(D, S)
  BY <1>0, <1>8, <1>9, FS_Injection
<1>11. \A i \in S : \E n \in D : q[n] = i
  BY <1>10 DEF Surjection
<1> QED BY <1>1, <1>6, <1>7, <1>11 DEF q

-----------------------------------------------------------------------------
(* The events about a set of processes.                                    *)
Actions == {"START", "EXIT"}

LEMMA EventsOf ==
    ASSUME NEW action \in Actions, NEW S \in SUBSET Instance
    PROVE  LET q == Events(action, S)
           IN  /\ q \in Seq(Event) /\ Len(q) = Cardinality(S) /\ Cardinality(S) \in Nat
               /\ \A n \in 1..Len(q) : q[n].action = action /\ q[n].inst \in S
               /\ \A m, n \in 1..Len(q) : q[m] = q[n] => m = n
               /\ \A i \in S : \E n \in 1..Len(q) : q[n].inst = i
<1> DEFINE size == Cardinality(S)
           q    == Events(action, S)
           ord  == Ordered(S)
<1>1. /\ size \in Nat /\ ord \in [1..size -> S]
      /\ \A m, n \in 1..size : ord[m] = ord[n] => m = n
      /\ \A i \in S : \E n \in 1..size : ord[n] = i
  BY OrderedIsOrder
<1>2. q = [n \in 1..size |-> [action |-> action, inst |-> ord[n]]]
  BY DEF Events
<1> HIDE DEF ord, q, size
<1>3. q \in [1..size -> Event]
  BY <1>1, <1>2 DEF Event, Actions
<1>4. q \in Seq(Event)
  BY <1>1, <1>3, SeqDef
<1>5. Len(q) = size
  BY <1>1, <1>3, <1>4, LenProperties
<1>6. \A n \in 1..size : q[n].action = action /\ q[n].inst = ord[n]
  BY <1>2
<1> QED BY <1>1, <1>4, <1>5, <1>6 DEF q, size

LEMMA AboutEvents ==
    ASSUME NEW a \in Actions, NEW b \in Actions, NEW S \in SUBSET Instance
    PROVE  About(a, Events(b, S)) = IF a = b THEN S ELSE {}
<1> DEFINE q == Events(b, S)
<1>1. /\ q \in Seq(Event)
      /\ \A n \in 1..Len(q) : q[n].action = b /\ q[n].inst \in S
      /\ \A i \in S : \E n \in 1..Len(q) : q[n].inst = i
  BY EventsOf
<1>2. DOMAIN q = 1..Len(q)
  BY <1>1
<1> HIDE DEF q
<1>3. About(a, q) = IF a = b THEN S ELSE {}
  BY <1>1, <1>2 DEF About
<1> QED BY <1>3 DEF q

LEMMA AboutConcat ==
    ASSUME NEW a \in Actions, NEW p \in Seq(Event), NEW q \in Seq(Event)
    PROVE  About(a, p \o q) = About(a, p) \cup About(a, q)
<1>1. /\ p \o q \in Seq(Event) /\ Len(p \o q) = Len(p) + Len(q)
      /\ \A n \in 1..Len(p) + Len(q) : (p \o q)[n] = IF n <= Len(p) THEN p[n] ELSE q[n - Len(p)]
  BY ConcatProperties
<1>2. Len(p) \in Nat /\ Len(q) \in Nat /\ DOMAIN p = 1..Len(p) /\ DOMAIN q = 1..Len(q)
      /\ DOMAIN (p \o q) = 1..Len(p) + Len(q)
  BY <1>1, LenProperties
<1> DEFINE r == p \o q
<1> HIDE DEF r
<1>3. ASSUME NEW x \in About(a, r) PROVE x \in About(a, p) \cup About(a, q)
  <2>1. PICK n \in DOMAIN r : r[n].action = a /\ x = r[n].inst
    BY <1>3 DEF About
  <2>2. n \in 1..Len(p) + Len(q)
    BY <1>2, <2>1 DEF r
  <2>3. CASE n <= Len(p)
    <3>1. n \in DOMAIN p /\ r[n] = p[n]
      BY <1>1, <1>2, <2>2, <2>3 DEF r
    <3> QED BY <2>1, <3>1 DEF About
  <2>4. CASE ~(n <= Len(p))
    <3>1. n - Len(p) \in DOMAIN q /\ r[n] = q[n - Len(p)]
      BY <1>1, <1>2, <2>2, <2>4 DEF r
    <3> QED BY <2>1, <3>1 DEF About
  <2> QED BY <2>3, <2>4
<1>4. ASSUME NEW x \in About(a, p) PROVE x \in About(a, r)
  <2>1. PICK n \in DOMAIN p : p[n].action = a /\ x = p[n].inst
    BY <1>4 DEF About
  <2>2. n \in DOMAIN r /\ r[n] = p[n]
    BY <1>1, <1>2, <2>1 DEF r
  <2> QED BY <2>1, <2>2 DEF About
<1>5. ASSUME NEW x \in About(a, q) PROVE x \in About(a, r)
  <2>1. PICK n \in DOMAIN q : q[n].action = a /\ x = q[n].inst
    BY <1>5 DEF About
  <2>2. n + Len(p) \in 1..Len(p) + Len(q) /\ ~(n + Len(p) <= Len(p)) /\ (n + Len(p)) - Len(p) = n
    BY <1>2, <2>1
  <2>3. n + Len(p) \in DOMAIN r /\ r[n + Len(p)] = q[n]
    BY <1>1, <1>2, <2>2 DEF r
  <2> QED BY <2>1, <2>3 DEF About
<1>6. About(a, r) = About(a, p) \cup About(a, q)
  BY <1>3, <1>4, <1>5
<1> QED BY <1>6 DEF r

LEMMA AboutType ==
    ASSUME NEW a \in Actions, NEW q \in Seq(Event)
    PROVE  About(a, q) \subseteq Instance
<1>1. \A n \in DOMAIN q : q[n] \in Event
  BY ElementOfSeq
<1> QED BY <1>1 DEF About, Event

-----------------------------------------------------------------------------
LEMMA TypeFacts ==
    ASSUME TypeOK
    PROVE  /\ running \in SUBSET Instance /\ todo \in SUBSET Instance
           /\ seen \in SUBSET Instance /\ known \in SUBSET Instance
           /\ baseline \in SUBSET Instance /\ clock \in Nat
           /\ sent \in Seq(Event) /\ queue \in Seq(Event) /\ Decided \in Seq(Event)
           /\ About("START", Decided) \subseteq Instance
           /\ About("EXIT", Decided) \subseteq Instance
<1>1. sent \in Seq(Event) /\ queue \in Seq(Event)
  BY DEF TypeOK
<1>2. Decided \in Seq(Event)
  BY <1>1, ConcatProperties DEF Decided
<1>3. About("START", Decided) \subseteq Instance /\ About("EXIT", Decided) \subseteq Instance
  BY <1>2, AboutType DEF Actions
<1>4. clock \in Nat
  BY HostAssumption DEF TypeOK
<1> QED BY <1>1, <1>2, <1>3, <1>4 DEF TypeOK

(* Steps that leave alone what the invariant is about: of the callers, of  *)
(* the reader, and of the goroutine between its scans.                     *)
Aside ==
    \/ Receive \/ Start \/ Signal \/ Stop \/ StopReturns
    \/ NewAdapter \/ Tick \/ Quit \/ ListingFails

LEMMA AsideStep ==
    ASSUME TypeOK, Phases, Aside
    PROVE  /\ TypeOK'
           /\ UNCHANGED <<running, clock, todo, seen, blind, queue, sent, known, initialized, baseline>>
           /\ cancelled => cancelled'
           /\ pc' = "read" <=> pc = "read"
           /\ ~started' => pc' = "off"
<1> USE DEF host, collector, snapshot, engine, channel
<1>1. CASE Receive
  <2>1. fill' \in 0..ChanCap
    BY <1>1, HostAssumption DEF TypeOK, Receive
  <2> QED BY <1>1, <2>1 DEF TypeOK, Phases, Receive
<1>2. CASE Start
  BY <1>2 DEF TypeOK, Phases, Start
<1>3. CASE Signal
  BY <1>3 DEF TypeOK, Phases, Signal
<1>4. CASE Stop
  BY <1>4 DEF TypeOK, Phases, Stop
<1>5. CASE StopReturns
  BY <1>5 DEF TypeOK, Phases, StopReturns
<1>6. CASE NewAdapter
  BY <1>6 DEF TypeOK, Phases, NewAdapter
<1>7. CASE Tick
  BY <1>7 DEF TypeOK, Phases, Tick
<1>8. CASE Quit
  BY <1>8 DEF TypeOK, Phases, Quit
<1>9. CASE ListingFails
  BY <1>9 DEF TypeOK, Phases, ListingFails
<1> QED BY <1>1, <1>2, <1>3, <1>4, <1>5, <1>6, <1>7, <1>8, <1>9 DEF Aside

LEMMA SameInv ==
    ASSUME ProcessInv, TypeOK',
           UNCHANGED <<running, clock, todo, seen, blind, queue, sent, known, initialized, baseline>>,
           cancelled => cancelled', pc' = "read" <=> pc = "read", ~started' => pc' = "off"
    PROVE  ProcessInv'
<1>1. Decided' = Decided
  BY DEF Decided
<1>2. Phases'
  BY <1>1 DEF ProcessInv, Phases
<1>3. Past'
  BY <1>1 DEF ProcessInv, Past
<1>4. Single' /\ Covered'
  BY DEF ProcessInv, Single, Covered, Distinct
<1>5. NoFalseExit' /\ NoneGone'
  BY <1>1 DEF ProcessInv, NoFalseExit, NoneGone
<1>6. StreamMatchesState'
  BY <1>1 DEF ProcessInv, StreamMatchesState
<1>7. Handover'
  BY <1>1 DEF ProcessInv, Handover
<1> QED BY <1>2, <1>3, <1>4, <1>5, <1>6, <1>7 DEF ProcessInv

-----------------------------------------------------------------------------
(* The host.  A new process has a start time nothing has had.              *)
LEMMA SpawnStep == ASSUME ProcessInv, Spawn PROVE ProcessInv'
<1> USE DEF collector, snapshot, engine, channel
<1>1. PICK p \in Pids \ {i.pid : i \in running} :
          running' = running \cup {[pid |-> p, start |-> clock + 1]}
  BY DEF Spawn
<1> DEFINE new == [pid |-> p, start |-> clock + 1]
<1>2. /\ TypeOK /\ clock \in Nat /\ running \in SUBSET Instance
  BY TypeFacts DEF ProcessInv
<1>3. new \in Instance /\ new.pid = p /\ new.start = clock + 1
  <2>1. clock + 1 \in 1..MaxInstances
    BY <1>2, HostAssumption DEF Spawn
  <2> QED BY <2>1 DEF Instance
<1>4. /\ running' = running \cup {new} /\ clock' = clock + 1
      /\ UNCHANGED <<os, started, stopped, returned, cancelled, pc, todo, seen, blind, queue,
                     known, initialized, baseline, fill, sent>>
  BY <1>1 DEF Spawn
<1> HIDE DEF new
<1>5. Decided' = Decided
  BY <1>4 DEF Decided
<1>6. TypeOK'
  <2>1. clock' \in 1..MaxInstances
    BY <1>2, <1>4, HostAssumption DEF Spawn
  <2> QED BY <1>2, <1>3, <1>4, <2>1 DEF TypeOK
<1> DEFINE Olds == running \cup todo \cup seen \cup known \cup baseline
                   \cup About("START", Decided) \cup About("EXIT", Decided)
<1>7. \A i \in Olds : i.start <= clock /\ i.start \in Nat
  <2>1. Olds \subseteq Instance
    BY <1>2, TypeFacts
  <2> QED BY <2>1, InstanceFields DEF ProcessInv, Past
<1>8. new \notin Olds
  <2> HIDE DEF Olds
  <2> QED BY <1>2, <1>3, <1>7
<1>9. Past'
  <2>1. \A i \in Olds : i.start <= clock + 1
    <3> HIDE DEF Olds
    <3> QED BY <1>2, <1>7
  <2>2. new.start <= clock + 1
    BY <1>2, <1>3
  <2> QED BY <1>4, <1>5, <2>1, <2>2 DEF Past
<1>10. Phases'
  BY <1>4, <1>5 DEF ProcessInv, Phases
<1>11. Single'
  <2>1. Distinct(running')
    BY <1>1, <1>3, <1>4 DEF ProcessInv, Single, Distinct
  <2> QED BY <1>4, <2>1 DEF ProcessInv, Single, Distinct
<1>12. Covered'
  BY <1>4, <1>8 DEF ProcessInv, Covered
<1>13. NoFalseExit' /\ NoneGone'
  BY <1>4, <1>5, <1>8 DEF ProcessInv, NoFalseExit, NoneGone
<1>14. StreamMatchesState'
  BY <1>4, <1>5 DEF ProcessInv, StreamMatchesState
<1>15. Handover'
  BY <1>4, <1>5 DEF ProcessInv, Handover
<1> QED BY <1>6, <1>9, <1>10, <1>11, <1>12, <1>13, <1>14, <1>15 DEF ProcessInv

LEMMA ExitStep == ASSUME ProcessInv, Exit PROVE ProcessInv'
<1> USE DEF collector, snapshot, engine, channel
<1>1. /\ running' \subseteq running
      /\ UNCHANGED <<os, clock, started, stopped, returned, cancelled, pc, todo, seen, blind, queue,
                     known, initialized, baseline, fill, sent>>
  BY DEF Exit
<1>2. Decided' = Decided
  BY <1>1 DEF Decided
<1>3. TypeOK'
  BY <1>1 DEF ProcessInv, TypeOK
<1>4. Phases' /\ Past'
  BY <1>1, <1>2 DEF ProcessInv, Phases, Past
<1>5. Single' /\ Covered'
  BY <1>1 DEF ProcessInv, Single, Distinct, Covered
<1>6. NoFalseExit' /\ NoneGone'
  BY <1>1, <1>2 DEF ProcessInv, NoFalseExit, NoneGone
<1>7. StreamMatchesState' /\ Handover'
  BY <1>1, <1>2 DEF ProcessInv, StreamMatchesState, Handover
<1> QED BY <1>3, <1>4, <1>5, <1>6, <1>7 DEF ProcessInv

-----------------------------------------------------------------------------
(* The scan.                                                               *)
LEMMA ListingStep == ASSUME ProcessInv, Listing PROVE ProcessInv'
<1> USE DEF host, collector, engine, channel
<1>1. /\ todo' = running /\ pc = "scan" /\ pc' = "read"
      /\ UNCHANGED <<os, running, clock, started, stopped, returned, cancelled, seen, blind, queue,
                     known, initialized, baseline, fill, sent>>
  BY DEF Listing
<1>2. Decided' = Decided
  BY <1>1 DEF Decided
<1>3. seen = {} /\ blind = {}
  BY <1>1 DEF ProcessInv, Phases
<1>4. TypeOK'
  BY <1>1 DEF ProcessInv, TypeOK
<1>5. Phases' /\ Past'
  BY <1>1, <1>2 DEF ProcessInv, Phases, Past
<1>6. Single' /\ Covered'
  BY <1>1, <1>3 DEF ProcessInv, Single, Distinct, Covered
<1>7. NoFalseExit' /\ NoneGone'
  BY <1>1, <1>2, <1>3 DEF ProcessInv, NoFalseExit, NoneGone
<1>8. StreamMatchesState' /\ Handover'
  BY <1>1, <1>2 DEF ProcessInv, StreamMatchesState, Handover
<1> QED BY <1>4, <1>5, <1>6, <1>7, <1>8 DEF ProcessInv

(* The answer about a PID is for one process, which runs or was listed.    *)
LEMMA Answer ==
    ASSUME Distinct(running), running \in SUBSET Instance, NEW i \in Instance
    PROVE  /\ Observed(i) \subseteq running \cup {i}
           /\ \A j \in Observed(i) : j.pid = i.pid
           /\ Distinct(Observed(i))
           /\ i \in running => i \in Observed(i)
<1>1. Holder(i.pid) \subseteq running /\ \A j \in Holder(i.pid) : j.pid = i.pid
  BY DEF Holder
<1>2. Distinct(Holder(i.pid))
  BY <1>1 DEF Distinct
<1>3. i \in running => i \in Holder(i.pid)
  BY DEF Holder
<1>4. Observed(i) \in {Holder(i.pid), {i}}
  BY DEF Observed, ParseProcess, GetProcessStartTime
<1>5. Observed(i) # Holder(i.pid) => Observed(i) = {i}
  BY <1>4
<1>6. Distinct({i})
  BY DEF Distinct
<1> QED BY <1>1, <1>2, <1>3, <1>4, <1>6

LEMMA ReadStep == ASSUME ProcessInv, Read PROVE ProcessInv'
<1> USE DEF host, collector, engine, channel
<1>1. PICK i \in todo : Record(i) /\ todo' = todo \ {i}
  BY DEF Read
<1>2. /\ pc = "read" /\ pc' = "read"
      /\ UNCHANGED <<os, running, clock, started, stopped, returned, cancelled, queue,
                     known, initialized, baseline, fill, sent>>
  BY DEF Read
<1>3. Decided' = Decided
  BY <1>2 DEF Decided
<1>4. /\ running \in SUBSET Instance /\ todo \in SUBSET Instance /\ seen \in SUBSET Instance
      /\ blind \subseteq Pids
  BY TypeFacts DEF ProcessInv, TypeOK
<1>5. /\ Observed(i) \subseteq running \cup {i}
      /\ \A j \in Observed(i) : j.pid = i.pid
      /\ Distinct(Observed(i))
      /\ i \in running => i \in Observed(i)
  BY <1>1, <1>4, Answer DEF ProcessInv, Single
<1>6. \/ seen' = seen \cup Observed(i) /\ blind' = blind
      \/ seen' = seen /\ blind' = blind \cup {i.pid}
  BY <1>1 DEF Record
<1>7. seen \subseteq seen' /\ seen' \subseteq seen \cup Observed(i)
  BY <1>6
<1>8. TypeOK'
  <2>1. seen' \in SUBSET Instance /\ todo' \in SUBSET Instance
    BY <1>1, <1>4, <1>5, <1>7
  <2>2. blind' \subseteq Pids
    BY <1>1, <1>4, <1>6, InstanceFields
  <2> QED BY <1>2, <2>1, <2>2 DEF ProcessInv, TypeOK
<1>9. Phases'
  BY <1>2, <1>3 DEF ProcessInv, Phases
<1>10. Past'
  BY <1>1, <1>2, <1>3, <1>5, <1>7 DEF ProcessInv, Past
<1>11. Single'
  <2>1. /\ Distinct(running) /\ Distinct(todo) /\ Distinct(seen)
        /\ \A k \in todo, j \in seen : k.pid # j.pid
        /\ \A k \in todo \cup seen : k.pid \notin blind
    BY DEF ProcessInv, Single
  <2>2. /\ \A k \in todo' : k \in todo /\ k.pid # i.pid
        /\ \A j \in seen : j.pid # i.pid
    BY <1>1, <2>1 DEF Distinct
  <2>3. CASE seen' = seen \cup Observed(i) /\ blind' = blind
    <3>1. Distinct(seen')
      BY <1>5, <2>1, <2>2, <2>3 DEF Distinct
    <3>2. i.pid \notin blind
      BY <1>1, <2>1
    <3> QED BY <1>1, <1>2, <1>5, <2>1, <2>2, <2>3, <3>1, <3>2 DEF Single, Distinct
  <2>4. CASE seen' = seen /\ blind' = blind \cup {i.pid}
    BY <1>1, <1>2, <2>1, <2>2, <2>4 DEF Single, Distinct
  <2> QED BY <1>6, <2>3, <2>4
<1>12. Covered'
  BY <1>1, <1>2, <1>5, <1>6 DEF ProcessInv, Covered
<1>13. NoFalseExit' /\ NoneGone'
  BY <1>1, <1>2, <1>3, <1>5, <1>7 DEF ProcessInv, NoFalseExit, NoneGone
<1>14. StreamMatchesState' /\ Handover'
  BY <1>2, <1>3 DEF ProcessInv, StreamMatchesState, Handover
<1> QED BY <1>8, <1>9, <1>10, <1>11, <1>12, <1>13, <1>14 DEF ProcessInv

-----------------------------------------------------------------------------
(* What is emitted was decided before; after the end of the context events *)
(* may be dropped.                                                         *)
LEMMA EmitDecided ==
    ASSUME TypeOK, Emit
    PROVE  /\ queue # <<>> /\ sent' \in Seq(Event) /\ queue' \in Seq(Event)
           /\ Decided' = Decided \/ cancelled
           /\ About("START", Decided') \subseteq About("START", Decided)
           /\ About("EXIT", Decided') \subseteq About("EXIT", Decided)
           /\ fill' \in 0..ChanCap
<1> USE DEF channel
<1>1. queue # <<>> /\ queue \in Seq(Event) /\ sent \in Seq(Event)
  BY DEF TypeOK, Emit
<1>2. queue' = Tail(queue) /\ Tail(queue) \in Seq(Event) /\ Head(queue) \in Event
  BY <1>1, HeadTailProperties DEF Emit, Proceed
<1>3. <<Head(queue)>> \in Seq(Event) /\ queue = <<Head(queue)>> \o Tail(queue)
  BY <1>1, <1>2
<1>4. CASE Send
  <2>1. sent' = sent \o <<Head(queue)>>
    BY <1>1, <1>2, <1>4, AppendIsConcat DEF Send
  <2>2. sent' \o queue' = sent \o queue
    BY <1>1, <1>2, <1>3, <2>1, ConcatAssociative
  <2>3. sent' \in Seq(Event)
    BY <1>1, <1>3, <2>1
  <2>4. fill' \in 0..ChanCap
    BY <1>4, HostAssumption DEF Send, TypeOK
  <2> QED BY <1>1, <1>2, <2>2, <2>3, <2>4 DEF Decided
<1>5. CASE cancelled /\ UNCHANGED channel
  <2>1. ASSUME NEW a \in Actions
        PROVE  About(a, sent \o Tail(queue)) \subseteq About(a, sent \o queue)
    <3>1. About(a, queue) = About(a, <<Head(queue)>>) \cup About(a, Tail(queue))
      <4>1. About(a, <<Head(queue)>> \o Tail(queue)) =
                About(a, <<Head(queue)>>) \cup About(a, Tail(queue))
        BY <1>2, <1>3, AboutConcat
      <4> QED BY <1>3, <4>1
    <3>2. About(a, sent \o queue) = About(a, sent) \cup About(a, queue)
      BY <1>1, AboutConcat
    <3>3. About(a, sent \o Tail(queue)) = About(a, sent) \cup About(a, Tail(queue))
      BY <1>1, <1>2, AboutConcat
    <3> QED BY <3>1, <3>2, <3>3
  <2> QED BY <1>1, <1>2, <1>5, <2>1 DEF Decided, Actions, TypeOK
<1> QED BY <1>4, <1>5 DEF Emit

LEMMA EmitStep == ASSUME ProcessInv, Emit PROVE ProcessInv'
<1> USE DEF host, collector, snapshot, engine
<1>1. /\ TypeOK /\ pc = "emit"
      /\ queue # <<>> /\ sent' \in Seq(Event) /\ queue' \in Seq(Event)
      /\ Decided' = Decided \/ cancelled
      /\ About("START", Decided') \subseteq About("START", Decided)
      /\ About("EXIT", Decided') \subseteq About("EXIT", Decided)
      /\ fill' \in 0..ChanCap
  BY EmitDecided DEF ProcessInv, Emit
<1>2. /\ pc' = IF queue' = <<>> THEN "wait" ELSE "emit"
      /\ UNCHANGED <<os, running, clock, started, stopped, returned, cancelled, todo, seen, blind,
                     known, initialized, baseline>>
  BY DEF Emit, Proceed
<1>3. TypeOK'
  BY <1>1, <1>2 DEF TypeOK
<1>4. initialized /\ started
  <2>1. sent \in Seq(Event) /\ queue \in Seq(Event)
    BY <1>1 DEF TypeOK
  <2>2. Decided # <<>>
    BY <1>1, <2>1 DEF Decided
  <2> QED BY <1>1, <2>2 DEF ProcessInv, Phases, TypeOK
<1>5. Phases'
  BY <1>1, <1>2, <1>4 DEF ProcessInv, Phases
<1>6. Past'
  BY <1>1, <1>2 DEF ProcessInv, Past
<1>7. Single' /\ Covered'
  BY <1>1, <1>2 DEF ProcessInv, Single, Distinct, Covered
<1>8. NoFalseExit' /\ NoneGone'
  BY <1>1, <1>2 DEF ProcessInv, NoFalseExit, NoneGone
<1>9. StreamMatchesState' /\ Handover'
  BY <1>1, <1>2 DEF ProcessInv, StreamMatchesState, Handover
<1> QED BY <1>3, <1>5, <1>6, <1>7, <1>8, <1>9 DEF ProcessInv

-----------------------------------------------------------------------------
(* What Reconcile appends: exits, then starts.                             *)
Extended(p, gone, new) == p \o (Events("EXIT", gone) \o Events("START", new))

(* The three parts of the sequence.                                        *)
InOld(p, gone, new, n) ==
    n \in 1..Len(p) /\ Extended(p, gone, new)[n] = p[n]

InExits(p, gone, new, n) ==
    LET k == n - Len(p)
    IN  /\ n > Len(p) /\ k \in 1..Len(Events("EXIT", gone))
        /\ Extended(p, gone, new)[n] = Events("EXIT", gone)[k]

InStarts(p, gone, new, n) ==
    LET k == n - Len(p) - Len(Events("EXIT", gone))
    IN  /\ n > Len(p) + Len(Events("EXIT", gone)) /\ k \in 1..Len(Events("START", new))
        /\ Extended(p, gone, new)[n] = Events("START", new)[k]

LEMMA Parts ==
    ASSUME NEW p \in Seq(Event), NEW gone \in SUBSET Instance, NEW new \in SUBSET Instance
    PROVE  /\ Extended(p, gone, new) \in Seq(Event)
           /\ Len(p) \in Nat /\ Len(Events("EXIT", gone)) \in Nat
           /\ Len(Extended(p, gone, new)) \in Nat
           /\ DOMAIN Extended(p, gone, new) = 1..Len(Extended(p, gone, new))
           /\ \A n \in 1..Len(Extended(p, gone, new)) :
                 \/ InOld(p, gone, new, n) \/ InExits(p, gone, new, n) \/ InStarts(p, gone, new, n)
           /\ \A n \in 1..Len(p) : n \in 1..Len(Extended(p, gone, new)) /\ InOld(p, gone, new, n)
           /\ \A k \in 1..Len(Events("EXIT", gone)) :
                 /\ Len(p) + k \in 1..Len(Extended(p, gone, new))
                 /\ Extended(p, gone, new)[Len(p) + k] = Events("EXIT", gone)[k]
<1> DEFINE x == Events("EXIT", gone)
           y == Events("START", new)
           z == x \o y
           q == p \o z
<1>1. x \in Seq(Event) /\ y \in Seq(Event)
  BY EventsOf DEF Actions
<1>2. Len(p) \in Nat /\ Len(x) \in Nat /\ Len(y) \in Nat
  BY <1>1
<1> HIDE DEF x, y
<1>3. /\ z \in Seq(Event) /\ Len(z) = Len(x) + Len(y)
      /\ \A n \in 1..Len(x) + Len(y) : z[n] = IF n <= Len(x) THEN x[n] ELSE y[n - Len(x)]
  BY <1>1, ConcatProperties
<1> HIDE DEF z
<1>10. z \in Seq(Event)
  BY <1>3
<1>4. /\ q \in Seq(Event) /\ Len(q) = Len(p) + Len(z)
      /\ \A n \in 1..Len(p) + Len(z) : q[n] = IF n <= Len(p) THEN p[n] ELSE z[n - Len(p)]
  BY <1>10, ConcatProperties
<1>5. q = Extended(p, gone, new)
  BY DEF Extended, x, y, z
<1> HIDE DEF q
<1>6. Len(q) = Len(p) + (Len(x) + Len(y)) /\ Len(q) \in Nat /\ DOMAIN q = 1..Len(q)
  BY <1>2, <1>3, <1>4
<1>7. \A n \in 1..Len(p) : n \in 1..Len(q) /\ q[n] = p[n]
  BY <1>2, <1>3, <1>4, <1>6
<1>8. \A k \in 1..Len(x) : Len(p) + k \in 1..Len(q) /\ q[Len(p) + k] = x[k]
  <2> SUFFICES ASSUME NEW k \in 1..Len(x)
               PROVE  Len(p) + k \in 1..Len(q) /\ q[Len(p) + k] = x[k]
    OBVIOUS
  <2>1. /\ Len(p) + k \in 1..Len(p) + Len(z) /\ ~(Len(p) + k <= Len(p))
        /\ (Len(p) + k) - Len(p) = k /\ k \in 1..Len(x) + Len(y) /\ k <= Len(x)
    BY <1>2, <1>3
  <2> QED BY <1>3, <1>4, <2>1
<1>9. ASSUME NEW n \in 1..Len(q)
      PROVE  \/ n \in 1..Len(p) /\ q[n] = p[n]
             \/ n > Len(p) /\ n - Len(p) \in 1..Len(x) /\ q[n] = x[n - Len(p)]
             \/ /\ n > Len(p) + Len(x) /\ n - Len(p) - Len(x) \in 1..Len(y)
                /\ q[n] = y[n - Len(p) - Len(x)]
  <2>1. CASE n <= Len(p)
    BY <1>2, <1>7, <2>1
  <2>2. CASE n > Len(p)
    <3>1. n - Len(p) \in 1..Len(x) + Len(y) /\ q[n] = z[n - Len(p)]
      BY <1>2, <1>3, <1>4, <1>6, <2>2
    <3>2. CASE n - Len(p) <= Len(x)
      <4>1. n - Len(p) \in 1..Len(x)
        BY <1>2, <3>1, <3>2
      <4> QED BY <1>3, <2>2, <3>1, <3>2, <4>1
    <3>3. CASE ~(n - Len(p) <= Len(x))
      <4>1. n > Len(p) + Len(x) /\ n - Len(p) - Len(x) \in 1..Len(y)
        BY <1>2, <3>1, <3>3
      <4>2. z[n - Len(p)] = y[(n - Len(p)) - Len(x)]
        BY <1>3, <3>1, <3>3
      <4> QED BY <3>1, <4>1, <4>2
    <3> QED BY <3>2, <3>3
  <2> QED BY <1>2, <2>1, <2>2
<1> QED BY <1>2, <1>4, <1>5, <1>6, <1>7, <1>8, <1>9 DEF InOld, InExits, InStarts, x, y

(* Whoever has a place in a part belongs to it.                            *)
LEMMA PartOf ==
    ASSUME NEW p \in Seq(Event), NEW gone \in SUBSET Instance, NEW new \in SUBSET Instance,
           NEW n \in 1..Len(Extended(p, gone, new))
    PROVE  LET e == Extended(p, gone, new)[n]
           IN  /\ InOld(p, gone, new, n) => e.action \in Actions /\ e.inst \in About(e.action, p)
               /\ InExits(p, gone, new, n) => e.action = "EXIT" /\ e.inst \in gone
               /\ InStarts(p, gone, new, n) => e.action = "START" /\ e.inst \in new
<1>1. /\ \A k \in 1..Len(Events("EXIT", gone)) :
            Events("EXIT", gone)[k].action = "EXIT" /\ Events("EXIT", gone)[k].inst \in gone
      /\ \A k \in 1..Len(Events("START", new)) :
            Events("START", new)[k].action = "START" /\ Events("START", new)[k].inst \in new
  BY EventsOf DEF Actions
<1>2. \A k \in 1..Len(p) : p[k].action \in Actions /\ p[k].inst \in About(p[k].action, p)
  <2>1. \A k \in 1..Len(p) : p[k] \in Event /\ k \in DOMAIN p
    BY ElementOfSeq
  <2> QED BY <2>1 DEF Event, Actions, About
<1> QED BY <1>1, <1>2 DEF InOld, InExits, InStarts

OnlyOnce(q) == \A m, n \in DOMAIN q : q[m] = q[n] => m = n

LEMMA ExtendedOnlyOnce ==
    ASSUME NEW p \in Seq(Event), NEW gone \in SUBSET Instance, NEW new \in SUBSET Instance,
           OnlyOnce(p), gone \cap About("EXIT", p) = {}, new \cap About("START", p) = {}
    PROVE  OnlyOnce(Extended(p, gone, new))
<1> DEFINE q == Extended(p, gone, new)
           x == Events("EXIT", gone)
           y == Events("START", new)
<1>1. /\ DOMAIN q = 1..Len(q) /\ Len(p) \in Nat /\ Len(x) \in Nat /\ Len(q) \in Nat
      /\ \A n \in 1..Len(q) :
            InOld(p, gone, new, n) \/ InExits(p, gone, new, n) \/ InStarts(p, gone, new, n)
  BY Parts
<1>2. /\ \A m, n \in 1..Len(x) : x[m] = x[n] => m = n
      /\ \A m, n \in 1..Len(y) : y[m] = y[n] => m = n
  BY EventsOf DEF Actions
<1> SUFFICES ASSUME NEW m \in 1..Len(q), NEW n \in 1..Len(q), q[m] = q[n]
             PROVE  m = n
  BY <1>1 DEF OnlyOnce
<1>3. CASE InOld(p, gone, new, m)
  <2>1. ~InExits(p, gone, new, n) /\ ~InStarts(p, gone, new, n)
    BY <1>3, PartOf
  <2>2. InOld(p, gone, new, n)
    BY <1>1, <2>1
  <2>3. m \in 1..Len(p) /\ n \in 1..Len(p) /\ p[m] = p[n]
    BY <1>3, <2>2 DEF InOld
  <2> QED BY <2>3 DEF OnlyOnce
<1>4. CASE InExits(p, gone, new, m)
  <2>1. ~InOld(p, gone, new, n) /\ ~InStarts(p, gone, new, n)
    BY <1>4, PartOf
  <2>2. InExits(p, gone, new, n)
    BY <1>1, <2>1
  <2>3. /\ m - Len(p) \in 1..Len(x) /\ n - Len(p) \in 1..Len(x)
        /\ x[m - Len(p)] = x[n - Len(p)]
    BY <1>4, <2>2 DEF InExits
  <2>4. m - Len(p) = n - Len(p)
    BY <1>2, <2>3
  <2> QED BY <1>1, <2>4
<1>5. CASE InStarts(p, gone, new, m)
  <2>1. ~InOld(p, gone, new, n) /\ ~InExits(p, gone, new, n)
    BY <1>5, PartOf
  <2>2. InStarts(p, gone, new, n)
    BY <1>1, <2>1
  <2>3. /\ m - Len(p) - Len(x) \in 1..Len(y) /\ n - Len(p) - Len(x) \in 1..Len(y)
        /\ y[m - Len(p) - Len(x)] = y[n - Len(p) - Len(x)]
    BY <1>5, <2>2 DEF InStarts
  <2>4. m - Len(p) - Len(x) = n - Len(p) - Len(x)
    BY <1>2, <2>3
  <2> QED BY <1>1, <2>4
<1> QED BY <1>1, <1>3, <1>4, <1>5

(* Exits come before starts, so a new process finds its PID free.          *)
LEMMA ExtendedHandedOver ==
    ASSUME NEW p \in Seq(Event), NEW gone \in SUBSET Instance, NEW new \in SUBSET Instance,
           NEW base, HandedOver(p, base), Distinct(new), OnlyOnce(Extended(p, gone, new)),
           \A a \in base \cup About("START", p), b \in new :
               a.pid = b.pid => a \in About("EXIT", p) \cup gone
    PROVE  HandedOver(Extended(p, gone, new), base)
<1> DEFINE q == Extended(p, gone, new)
           x == Events("EXIT", gone)
<1>1. /\ q \in Seq(Event)
      /\ DOMAIN q = 1..Len(q) /\ Len(p) \in Nat /\ Len(x) \in Nat /\ Len(q) \in Nat
      /\ \A n \in 1..Len(q) :
            InOld(p, gone, new, n) \/ InExits(p, gone, new, n) \/ InStarts(p, gone, new, n)
      /\ \A n \in 1..Len(p) : n \in 1..Len(q) /\ InOld(p, gone, new, n)
      /\ \A k \in 1..Len(x) : Len(p) + k \in 1..Len(q) /\ q[Len(p) + k] = x[k]
  BY Parts
<1>2. \A n \in 1..Len(p) : n \in 1..Len(q) /\ q[n] = p[n]
  BY <1>1 DEF InOld
<1>3. ASSUME NEW n \in 1..Len(q), InStarts(p, gone, new, n), NEW a \in About("EXIT", p) \cup gone
      PROVE  ExitsBefore(q, a, n)
  <2>1. n > Len(p) + Len(x)
    BY <1>3 DEF InStarts
  <2>2. CASE a \in About("EXIT", p)
    <3>1. PICK k \in DOMAIN p : p[k].action = "EXIT" /\ p[k].inst = a
      BY <2>2 DEF About
    <3>2. k \in 1..Len(p) /\ k \in 1..(n - 1)
      BY <1>1, <2>1, <3>1
    <3> QED BY <1>2, <3>1, <3>2 DEF ExitsBefore
  <2>3. CASE a \in gone
    <3>1. PICK k \in 1..Len(x) : x[k].inst = a /\ x[k].action = "EXIT"
      BY <2>3, EventsOf DEF Actions
    <3>2. Len(p) + k \in 1..(n - 1) /\ q[Len(p) + k] = x[k]
      BY <1>1, <2>1
    <3> QED BY <3>1, <3>2 DEF ExitsBefore
  <2> QED BY <2>2, <2>3
<1> SUFFICES ASSUME NEW n \in 1..Len(q), q[n].action = "START"
             PROVE  /\ \A a \in base : a.pid = q[n].inst.pid => ExitsBefore(q, a, n)
                    /\ \A m \in 1..(n - 1) :
                          q[m].action = "START" /\ q[m].inst.pid = q[n].inst.pid =>
                              ExitsBefore(q, q[m].inst, n)
  BY <1>1 DEF HandedOver
<1> HIDE DEF q, x
<1>4. CASE InOld(p, gone, new, n)
  <2>1. n \in 1..Len(p) /\ q[n] = p[n] /\ n \in DOMAIN p
    BY <1>4, <1>2 DEF InOld
  <2>2. \A k \in 1..(n - 1) : k \in 1..Len(p)
    BY <1>1, <2>1
  <2>3. \A k \in 1..(n - 1) : q[k] = p[k]
    BY <1>2, <2>2
  <2>4. \A a : ExitsBefore(p, a, n) => ExitsBefore(q, a, n)
    BY <2>3 DEF ExitsBefore
  <2>5. /\ \A a \in base : a.pid = p[n].inst.pid => ExitsBefore(p, a, n)
        /\ \A m \in 1..(n - 1) :
              p[m].action = "START" /\ p[m].inst.pid = p[n].inst.pid => ExitsBefore(p, p[m].inst, n)
    BY <2>1 DEF HandedOver
  <2> QED BY <2>1, <2>3, <2>4, <2>5
<1>5. CASE InStarts(p, gone, new, n)
  <2>1. q[n].inst \in new
    BY <1>5, PartOf DEF q
  <2>2. ASSUME NEW a \in base, a.pid = q[n].inst.pid PROVE ExitsBefore(q, a, n)
    BY <1>3, <1>5, <2>1, <2>2
  <2>3. ASSUME NEW m \in 1..(n - 1), q[m].action = "START", q[m].inst.pid = q[n].inst.pid
        PROVE  ExitsBefore(q, q[m].inst, n)
    <3>1. m \in 1..Len(q) /\ m # n
      BY <1>1
    <3>2. ~InExits(p, gone, new, m)
      BY <2>3, <3>1, PartOf DEF q
    <3>3. CASE InOld(p, gone, new, m)
      <4>1. q[m].inst \in About("START", p)
        BY <2>3, <3>1, <3>3, PartOf DEF q
      <4> QED BY <1>3, <1>5, <2>1, <2>3, <4>1
    <3>4. CASE InStarts(p, gone, new, m)
      <4>1. q[m].inst \in new
        BY <3>1, <3>4, PartOf DEF q
      <4>2. q[m].inst = q[n].inst
        BY <2>1, <2>3, <4>1 DEF Distinct
      <4>3. q[m] \in Event /\ q[n] \in Event
        BY <1>1, <3>1, ElementOfSeq
      <4>4. q[m] = q[n]
        BY <2>3, <4>2, <4>3 DEF Event
      <4> QED BY <1>1, <3>1, <4>4 DEF OnlyOnce, q
    <3> QED BY <1>1, <3>1, <3>2, <3>3, <3>4 DEF q
  <2> QED BY <2>2, <2>3
<1>6. ~InExits(p, gone, new, n)
  BY PartOf DEF q
<1> QED BY <1>1, <1>4, <1>5, <1>6

(* The first scan is the baseline and says nothing.                        *)
LEMMA FirstReconcile == ASSUME ProcessInv, Reconcile, ~initialized PROVE ProcessInv'
<1> USE DEF host, collector, channel
<1>1. /\ pc = "read" /\ todo = {} /\ known = {} /\ baseline = {} /\ Decided = <<>>
      /\ queue = <<>>
  BY DEF ProcessInv, Phases, Reconcile, TypeOK
<1>2. /\ known' = seen /\ baseline' = seen /\ queue' = <<>> /\ pc' = "wait" /\ initialized' = TRUE
      /\ seen' = {} /\ blind' = {}
      /\ UNCHANGED <<os, running, clock, started, stopped, returned, cancelled, todo, fill, sent>>
  BY <1>1 DEF Reconcile, Proceed
<1>3. Decided' = Decided
  BY <1>1, <1>2 DEF Decided
<1>4. About("START", Decided) = {} /\ About("EXIT", Decided) = {} /\ DOMAIN Decided = {}
  <2>1. DOMAIN Decided = {}
    BY <1>1
  <2> QED BY <2>1 DEF About
<1>5. TypeOK'
  BY <1>1, <1>2 DEF ProcessInv, TypeOK
<1>6. started
  BY <1>1 DEF ProcessInv, Phases, TypeOK
<1>7. Phases'
  BY <1>1, <1>2, <1>6 DEF ProcessInv, Phases
<1>8. Past'
  BY <1>1, <1>2, <1>3 DEF ProcessInv, Past
<1>9. Single' /\ Covered'
  BY <1>1, <1>2 DEF ProcessInv, Single, Distinct, Covered
<1>10. NoFalseExit' /\ NoneGone'
  BY <1>1, <1>2, <1>3, <1>4 DEF NoFalseExit, NoneGone
<1>11. StreamMatchesState'
  BY <1>2, <1>3, <1>4 DEF StreamMatchesState
<1>12. Handover'
  BY <1>3, <1>4 DEF Handover, HandedOver
<1> QED BY <1>5, <1>7, <1>8, <1>9, <1>10, <1>11, <1>12 DEF ProcessInv

(* Later scans: the differences are decided, gone before new.              *)
LEMMA LaterReconcile == ASSUME ProcessInv, Reconcile, initialized PROVE ProcessInv'
<1> USE DEF host, collector, channel
<1>1. /\ TypeOK /\ pc = "read" /\ todo = {} /\ queue = <<>>
      /\ sent \in Seq(Event) /\ started
  BY DEF ProcessInv, Reconcile, TypeOK, Phases
<1>2. Decided = sent
  BY <1>1 DEF Decided
<1>3. /\ known' = (known \cup seen) \ Gone /\ queue' = Emissions
      /\ pc' = IF Emissions = <<>> THEN "wait" ELSE "emit"
      /\ initialized' = TRUE /\ seen' = {} /\ blind' = {}
      /\ UNCHANGED <<os, running, clock, started, stopped, returned, cancelled, todo, fill, sent,
                     baseline>>
  BY DEF Reconcile, Proceed
<1>4. PICK gone \in SUBSET Instance, new \in SUBSET Instance : gone = Gone /\ new = New
  BY <1>1, TypeFacts DEF Gone, New
<1>5. /\ \A i \in gone : i \in known /\ i \notin seen /\ i.pid \notin blind
      /\ \A i \in known : i \notin seen /\ i.pid \notin blind => i \in gone
      /\ new = seen \ known
  BY <1>4 DEF Gone, New
<1>6. queue' = Events("EXIT", gone) \o Events("START", new) /\ queue' \in Seq(Event)
  <2>1. Events("EXIT", gone) \in Seq(Event) /\ Events("START", new) \in Seq(Event)
    BY EventsOf DEF Actions
  <2>2. queue' = Events("EXIT", gone) \o Events("START", new)
    BY <1>3, <1>4 DEF Emissions
  <2> QED BY <2>1, <2>2, ConcatProperties
<1>7. Decided' = Extended(sent, gone, new)
  BY <1>3, <1>6 DEF Decided, Extended
<1> DEFINE Exits  == About("EXIT", sent)
           Starts == About("START", sent)
<1>8. About("EXIT", Decided') = Exits \cup gone /\ About("START", Decided') = Starts \cup new
  <2>1. ASSUME NEW a \in Actions
        PROVE  About(a, Decided') = About(a, sent) \cup About(a, Events("EXIT", gone))
                                    \cup About(a, Events("START", new))
    <3>1. Events("EXIT", gone) \in Seq(Event) /\ Events("START", new) \in Seq(Event)
      BY EventsOf DEF Actions
    <3>2. About(a, queue') = About(a, Events("EXIT", gone)) \cup About(a, Events("START", new))
      BY <1>6, <3>1, AboutConcat
    <3>3. About(a, sent \o queue') = About(a, sent) \cup About(a, queue')
      BY <1>1, <1>6, AboutConcat
    <3> QED BY <1>3, <3>2, <3>3 DEF Decided
  <2>2. /\ About("EXIT", Events("EXIT", gone)) = gone /\ About("EXIT", Events("START", new)) = {}
        /\ About("START", Events("EXIT", gone)) = {} /\ About("START", Events("START", new)) = new
    BY AboutEvents DEF Actions
  <2> QED BY <2>1, <2>2 DEF Actions
<1>9. /\ gone \cap running = {} /\ Exits \cap running = {} /\ seen \cap Exits = {}
  BY <1>1, <1>2, <1>5 DEF ProcessInv, Covered, NoFalseExit, NoneGone
<1>10. TypeOK'
  <2>1. known' \in SUBSET Instance
    BY <1>1, <1>3, TypeFacts
  <2>2. pc' = "emit" <=> queue' # <<>>
    BY <1>3
  <2>3. pc' \in {"wait", "emit"}
    BY <1>3
  <2> QED BY <1>1, <1>3, <1>6, <2>1, <2>2, <2>3 DEF TypeOK
<1>11. Phases'
  <2>1. pc' # "read"
    BY <1>3
  <2> QED BY <1>1, <1>3, <2>1 DEF Phases
<1>12. Past'
  BY <1>2, <1>3, <1>5, <1>8 DEF ProcessInv, Past
<1>13. Single' /\ Covered'
  BY <1>1, <1>3 DEF ProcessInv, Single, Distinct, Covered
<1>14. NoFalseExit' /\ NoneGone'
  BY <1>1, <1>3, <1>8, <1>9 DEF NoFalseExit, NoneGone
<1>15. ASSUME ~cancelled
       PROVE  /\ known = (baseline \cup Starts) \ Exits /\ baseline \cap Starts = {}
              /\ OnlyOnce(sent) /\ HandedOver(sent, baseline)
              /\ gone \cap Exits = {} /\ new \cap Starts = {} /\ new \cap baseline = {}
              /\ OnlyOnce(Decided')
  <2>1. known = (baseline \cup Starts) \ Exits /\ baseline \cap Starts = {} /\ OnlyOnce(sent)
    BY <1>2, <1>15 DEF ProcessInv, StreamMatchesState, OnlyOnce
  <2>2. HandedOver(sent, baseline)
    BY <1>2, <1>15 DEF ProcessInv, Handover
  <2>3. gone \cap Exits = {} /\ new \cap Starts = {} /\ new \cap baseline = {}
    BY <1>5, <1>9, <2>1
  <2>4. OnlyOnce(Extended(sent, gone, new))
    BY <1>1, <2>1, <2>3, ExtendedOnlyOnce
  <2> QED BY <1>7, <2>1, <2>2, <2>3, <2>4
<1>16. StreamMatchesState'
  <2> SUFFICES ASSUME ~cancelled
               PROVE  /\ known' = (baseline \cup Starts \cup new) \ (Exits \cup gone)
                      /\ baseline \cap (Starts \cup new) = {}
                      /\ OnlyOnce(Decided')
    BY <1>3, <1>8 DEF StreamMatchesState, OnlyOnce
  <2>1. known' = (known \cup new) \ gone
    BY <1>3, <1>4, <1>5
  <2>2. new \cap Exits = {} /\ new \cap gone = {}
    BY <1>5, <1>9
  <2> HIDE DEF Exits, Starts
  <2>3. (known \cup new) \ gone = (baseline \cup Starts \cup new) \ (Exits \cup gone)
    BY <1>15, <2>2
  <2> QED BY <1>15, <2>1, <2>3
<1>17. Handover'
  <2> SUFFICES ASSUME ~cancelled PROVE HandedOver(Decided', baseline)
    BY <1>3 DEF Handover
  <2>1. Distinct(new)
    BY <1>5 DEF ProcessInv, Single, Distinct
  <2>2. ASSUME NEW a \in baseline \cup Starts, NEW b \in new, a.pid = b.pid
        PROVE  a \in Exits \cup gone
    <3> SUFFICES ASSUME a \notin Exits PROVE a \in gone
      OBVIOUS
    <3>1. a \in known /\ b \in seen /\ b \notin known
      BY <1>5, <1>15
    <3>2. a \notin seen
      BY <2>2, <3>1 DEF ProcessInv, Single, Distinct
    <3>3. a.pid \notin blind
      BY <2>2, <3>1 DEF ProcessInv, Single
    <3> QED BY <1>5, <3>1, <3>2, <3>3
  <2>3. HandedOver(Extended(sent, gone, new), baseline)
    BY <1>1, <1>7, <1>15, <2>1, <2>2, ExtendedHandedOver
  <2> QED BY <1>7, <2>3
<1> QED BY <1>10, <1>11, <1>12, <1>13, <1>14, <1>16, <1>17 DEF ProcessInv

-----------------------------------------------------------------------------
LEMMA ProcessInit == Init => ProcessInv
<1> SUFFICES ASSUME Init PROVE ProcessInv
  OBVIOUS
<1>1. PICK P \in SUBSET Pids : running = {[pid |-> p, start |-> 1] : p \in P}
  BY DEF Init
<1>2. \A i \in running : i \in Instance /\ i.start = 1
  BY <1>1, HostAssumption DEF Instance
<1>3. Distinct(running)
  BY <1>1 DEF Distinct
<1>4. Decided = <<>> /\ DOMAIN Decided = {}
  BY DEF Init, Decided
<1>5. About("START", Decided) = {} /\ About("EXIT", Decided) = {}
  BY <1>4 DEF About
<1>6. TypeOK
  <2>1. clock \in 1..MaxInstances /\ fill \in 0..ChanCap
    BY HostAssumption DEF Init
  <2>2. queue \in Seq(Event) /\ sent \in Seq(Event)
    BY DEF Init
  <2> QED BY <1>2, <2>1, <2>2 DEF Init, TypeOK
<1>7. Phases
  BY <1>4 DEF Init, Phases
<1>8. Past
  BY <1>2, <1>5 DEF Init, Past
<1>9. Single /\ Covered
  BY <1>3 DEF Init, Single, Distinct, Covered
<1>10. NoFalseExit /\ NoneGone
  BY <1>5 DEF NoFalseExit, NoneGone
<1>11. StreamMatchesState
  BY <1>4, <1>5 DEF Init, StreamMatchesState
<1>12. Handover
  BY <1>4 DEF Handover, HandedOver
<1> QED BY <1>6, <1>7, <1>8, <1>9, <1>10, <1>11, <1>12 DEF ProcessInv

(* ProcessInv holds through every interleaving of the host, the callers,   *)
(* the reader and the goroutine.                                           *)
LEMMA ProcessInvariant == Spec => []ProcessInv
<1>1. ProcessInv /\ [Next]_vars => ProcessInv'
  <2> SUFFICES ASSUME ProcessInv, [Next]_vars PROVE ProcessInv'
    OBVIOUS
  <2>1. CASE UNCHANGED vars
    <3>1. TypeOK'
      BY <2>1 DEF ProcessInv, TypeOK, vars, host, collector, snapshot, engine, channel
    <3> QED BY <2>1, <3>1, SameInv
            DEF ProcessInv, Phases, vars, host, collector, snapshot, engine, channel
  <2>2. CASE Aside
    BY <2>2, AsideStep, SameInv DEF ProcessInv
  <2>3. CASE Reconcile
    BY <2>3, FirstReconcile, LaterReconcile
  <2> QED BY <2>1, <2>2, <2>3, SpawnStep, ExitStep, ListingStep, ReadStep, EmitStep
          DEF Next, Loop, Aside
<1> QED BY <1>1, ProcessInit, PTL DEF Spec

(* The collector's state has its types, and the goroutine emits exactly    *)
(* while there is something to emit (adapter and LifecycleEngine).         *)
THEOREM ProcessTyped == Spec => []TypeOK
BY ProcessInvariant, PTL DEF ProcessInv

(* No PROCESS_EXIT for a process that runs, however listing, reading, exits*)
(* and the reuse of PIDs interleave (Reconcile).                           *)
THEOREM NeverFalseExit == Spec => []NoFalseExit
BY ProcessInvariant, PTL DEF ProcessInv

(* Until the context ends, the baseline with the events applied is the     *)
(* engine's state, and no event is said twice (Reconcile, emit).           *)
THEOREM StreamIsTheState == Spec => []StreamMatchesState
BY ProcessInvariant, PTL DEF ProcessInv

(* Until the context ends, the exit of every earlier holder of a PID is    *)
(* sent before the start of the next (the sorted emission of Reconcile).   *)
THEOREM PidsHandedOver == Spec => []PidHandover
<1>1. ProcessInv => PidHandover
  <2> SUFFICES ASSUME ProcessInv, ~cancelled, NEW n \in DOMAIN sent, sent[n].action = "START",
                      NEW a \in baseline \cup About("START", SubSeq(sent, 1, n - 1)),
                      a.pid = sent[n].inst.pid
               PROVE  a \in About("EXIT", SubSeq(sent, 1, n - 1))
    BY DEF PidHandover
  <2>1. /\ sent \in Seq(Event) /\ queue \in Seq(Event) /\ Len(sent) \in Nat
        /\ n \in 1..Len(sent)
    BY TypeFacts DEF ProcessInv
  <2>2. \A k \in 1..Len(sent) : Decided[k] = sent[k] /\ k \in DOMAIN Decided
    BY <2>1 DEF Decided
  <2> DEFINE prefix == SubSeq(sent, 1, n - 1)
  <2>3. DOMAIN prefix = 1..(n - 1) /\ \A k \in 1..(n - 1) : prefix[k] = sent[k]
    BY <2>1
  <2>4. \A k \in 1..(n - 1) : k \in 1..Len(sent)
    BY <2>1
  <2> HIDE DEF prefix
  <2>5. ExitsBefore(Decided, a, n)
    <3>1. HandedOver(Decided, baseline) /\ n \in DOMAIN Decided /\ Decided[n] = sent[n]
      BY <2>1, <2>2 DEF ProcessInv, Handover
    <3>2. CASE a \in baseline
      BY <3>1, <3>2 DEF HandedOver
    <3>3. CASE a \in About("START", prefix)
      <4>1. PICK m \in 1..(n - 1) : prefix[m].action = "START" /\ prefix[m].inst = a
        BY <2>3, <3>3 DEF About
      <4>2. Decided[m].action = "START" /\ Decided[m].inst = a
        BY <2>2, <2>3, <2>4, <4>1
      <4> QED BY <3>1, <4>2 DEF HandedOver
    <3> QED BY <3>2, <3>3 DEF prefix
  <2>6. PICK k \in 1..(n - 1) : Decided[k].action = "EXIT" /\ Decided[k].inst = a
    BY <2>5 DEF ExitsBefore
  <2>7. k \in DOMAIN prefix /\ prefix[k].action = "EXIT" /\ prefix[k].inst = a
    BY <2>2, <2>3, <2>4, <2>6
  <2>8. a \in About("EXIT", prefix)
    BY <2>7 DEF About
  <2> QED BY <2>8 DEF prefix
<1> QED BY <1>1, ProcessInvariant, PTL
=============================================================================
