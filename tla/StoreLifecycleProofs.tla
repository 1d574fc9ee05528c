------------------------ MODULE StoreLifecycleProofs ------------------------
(***************************************************************************)
(* The database of StoreLifecycle keeps its identity, its rows and its     *)
(* retry times across every start, for any rows, any legacy tables, any    *)
(* number of identities and any width of the attempt counter.              *)
(*                                                                         *)
(* The properties speak of a running agent and of files, and so are not    *)
(* inductive: what makes them so is what holds of the installation at every*)
(* step of a start.  As long as no start has overlooked a quarantined      *)
(* database there is one, in place or in quarantine, and a log that matters*)
(* is the log of that one (OneDatabase); the identity is the one it holds, *)
(* or else the one that the legacy file would give it (Identity); retry    *)
(* times are in it, also those not migrated yet (TimesKept).  Rows are in  *)
(* some database also when a start has overlooked one (RowsKept).          *)
(***************************************************************************)
EXTENDS StoreLifecycle, WellFoundedInduction, TLAPS

(* The database the installation has, wherever it is.                      *)
Kept == IF quarantine = {} THEN db ELSE CHOOSE q \in quarantine : TRUE

FromFile == IF idFile = "valid" THEN Legacy ELSE NoId

(* There is one database at a time, in quarantine only while nothing runs, *)
(* and one in place where Init or a caller works on it.  A log in place    *)
(* belongs to it.                                                          *)
OneDatabase ==
    /\ ~overlooked /\ quarantine # {} =>
          /\ pc \in {"down", "rename log"} /\ db = NoDb
          /\ \E q : quarantine = {q}
    /\ ~overlooked /\ quarantine = {} /\ db = NoDb => ~wal
    /\ lostLog => overlooked
    /\ pc \in {"check", "identity", "commit", "unlink", "migrate", "up", "joining"} => db # NoDb

(* The identity is in the database, or in the legacy file until the commit *)
(* that puts it in the database; the file is removed only after that.      *)
IdentityKept ==
    /\ Kept = NoDb => established = FromFile
    /\ Kept # NoDb => IF Kept.id = NoId THEN established = FromFile ELSE established = Kept.id
    /\ pc = "commit" /\ established # NoId => chosen = established

Identity ==
    /\ ~overlooked => IdentityKept
    /\ pc = "commit" => chosen # NoId
    /\ pc \in {"unlink", "migrate", "up", "joining"} => db.id # NoId
    /\ deviceID # NoId => /\ pc \in {"unlink", "migrate", "up", "joining"}
                          /\ db.id = deviceID

(* Every row that must be there is in some database,                       *)
RowsKept == \A r \in stored : \E d \in Databases : d.next[r] # NoRow

(* and due when it is promised, before its time is migrated and after.     *)
Due(text, at) ==
    text.form \in {"canonical", "legacy", "garbled"} =>
        at = IF text.form = "canonical" THEN text.clock ELSE Instant(text)

TimesKept == ~overlooked => \A r \in stored : Due(Kept.next[r], promise[r])

WithMigrated(next, R) == [r \in Rows |-> IF r \in R THEN Migrated(next[r]) ELSE next[r]]

StoreInv == TypeOK /\ OneDatabase /\ Identity /\ RowsKept /\ TimesKept

-----------------------------------------------------------------------------
LEMMA InstantIsInt == ASSUME NEW text \in Text PROVE Instant(text) \in Int
<1>1. text.clock \in Int /\ text.zone \in Int
  BY DEF Text
<1> HIDE DEF Text
<1> QED BY <1>1 DEF Instant, Past

LEMMA CanonicalIsText ==
    ASSUME NEW at \in Int
    PROVE  Canonical(at) \in Text /\ Canonical(at).form = "canonical" /\ Canonical(at).clock = at
BY DEF Canonical, Text

LEMMA MigratedIsInstant ==
    ASSUME NEW text \in Text
    PROVE  Migrated(text) = Canonical(Instant(text))
BY DEF Migrated, Instant

LEMMA NoRowByForm == \A text : text.form # "no row" => text # NoRow
<1>1. NoRow.form = "no row"
  BY DEF NoRow
<1> QED BY <1>1

LEMMA TypeInit == Init => TypeOK
<1> SUFFICES ASSUME Init PROVE TypeOK
  OBVIOUS
<1>1. db \in Database \cup {NoDb} /\ promise \in [Rows -> Int]
  <2>1. CASE db = NoDb /\ promise = [r \in Rows |-> Past]
    BY <2>1 DEF Past
  <2>2. CASE \E text \in OldTables :
                /\ db = [id |-> First, sound |-> TRUE, next |-> text]
                /\ promise = [r \in Rows |-> Instant(text[r])]
    <3>1. PICK text \in OldTables :
                /\ db = [id |-> First, sound |-> TRUE, next |-> text]
                /\ promise = [r \in Rows |-> Instant(text[r])]
      BY <2>2
    <3>2. \A r \in Rows : text[r] \in Text
      BY StoreAssumption
    <3>3. text \in [Rows -> Text]
      BY <3>2, StoreAssumption
    <3>4. \A r \in Rows : Instant(text[r]) \in Int
      BY <3>2, InstantIsInt
    <3>5. First \in DeviceId
      BY DEF DeviceId
    <3> QED BY <3>1, <3>3, <3>4, <3>5 DEF Database
  <2> QED BY <2>1, <2>2 DEF Init
<1>2. {established, chosen, deviceID} \subseteq DeviceId
  BY DEF Init, DeviceId
<1>3. stored \subseteq Rows
  BY DEF Init
<1>4. retry.attempt \in 0..IntMax
  BY StoreAssumption DEF Init, NoRetry
<1>5. minted \in 0..MaxIds
  BY StoreAssumption DEF Init
<1>6. {wal, overlooked, lostLog} \subseteq BOOLEAN
  BY DEF Init
<1> QED BY <1>1, <1>2, <1>3, <1>4, <1>5, <1>6 DEF Init, TypeOK

LEMMA InvInit == Init => StoreInv
<1> SUFFICES ASSUME Init PROVE StoreInv
  OBVIOUS
<1>1. TypeOK
  BY TypeInit
<1>2. CASE db = NoDb
  BY <1>1, <1>2 DEF Init, StoreInv, OneDatabase, Identity, IdentityKept, RowsKept, TimesKept,
                    Kept, FromFile
<1>3. CASE db # NoDb
  <2>1. PICK text \in OldTables :
                /\ db = [id |-> First, sound |-> TRUE, next |-> text]
                /\ promise = [r \in Rows |-> Instant(text[r])]
    BY <1>3 DEF Init
  <2>2. Kept = db /\ db.id = First /\ db.next = text
    BY <2>1 DEF Init, Kept
  <2>3. \A r \in Rows : text[r].form \in {"legacy", "garbled"}
    BY StoreAssumption
  <2>4. Identity
    BY <1>3, <2>2 DEF Init, Identity, IdentityKept, First, NoId
  <2>5. RowsKept
    <3>1. \A r \in Rows : text[r] # NoRow
      BY <2>3, NoRowByForm
    <3>2. db \in Databases
      BY <1>3 DEF Databases
    <3> QED BY <1>3, <2>2, <3>1, <3>2 DEF Init, RowsKept
  <2>6. TimesKept
    BY <1>3, <2>1, <2>2, <2>3 DEF Init, TimesKept, Due
  <2>7. OneDatabase
    BY <1>3 DEF Init, OneDatabase
  <2> QED BY <1>1, <2>4, <2>5, <2>6, <2>7 DEF StoreInv
<1> QED BY <1>2, <1>3

-----------------------------------------------------------------------------
(* What writes to a database in place leaves one there.                    *)
LEMMA CommitKeeps ==
    ASSUME TypeOK, OneDatabase, CommitId
    PROVE  /\ db \in Database /\ db' \in Database
           /\ db'.next = db.next /\ db'.id \in {db.id, chosen}
<1>1. db \in Database /\ chosen \in DeviceId
  BY DEF TypeOK, OneDatabase, CommitId
<1> QED BY <1>1 DEF CommitId, Database

LEMMA MigrateKeeps ==
    ASSUME TypeOK, OneDatabase, migrateRetryTimestamps
    PROVE  /\ db \in Database /\ db' \in Database /\ db'.id = db.id
           /\ \A r \in Rows : \/ db'.next[r] = db.next[r]
                              \/ /\ db.next[r].form \in {"legacy", "garbled"}
                                 /\ db'.next[r] = Migrated(db.next[r])
<1>1. db \in Database
  BY DEF TypeOK, OneDatabase, migrateRetryTimestamps
<1>2. \A r \in Rows : db.next[r] \in Text
  BY <1>1 DEF Database
<1>3. \A r \in Rows : Migrated(db.next[r]) \in Text
  BY <1>2, MigratedIsInstant, InstantIsInt, CanonicalIsText
<1> DEFINE legacy == {r \in Rows : db.next[r].form \in {"legacy", "garbled"}}
<1>4. \A k : \A R \in kSubset(k, legacy) : R \subseteq legacy
  BY DEF kSubset
<1>5. UNCHANGED db \/ \E R \in SUBSET legacy : db' = [db EXCEPT !.next = WithMigrated(db.next, R)]
  BY <1>4 DEF migrateRetryTimestamps, WithMigrated
<1>6. CASE UNCHANGED db
  BY <1>1, <1>6
<1>7. CASE \E R \in SUBSET legacy : db' = [db EXCEPT !.next = WithMigrated(db.next, R)]
  <2>1. PICK R \in SUBSET legacy : db' = [db EXCEPT !.next = WithMigrated(db.next, R)]
    BY <1>7
  <2>2. WithMigrated(db.next, R) \in [Rows -> Text]
    BY <1>2, <1>3 DEF WithMigrated
  <2>3. db' \in Database /\ db'.id = db.id /\ db'.next = WithMigrated(db.next, R)
    BY <1>1, <2>1, <2>2 DEF Database
  <2>4. \A r \in Rows : db'.next[r] = IF r \in R THEN Migrated(db.next[r]) ELSE db.next[r]
    BY <2>3 DEF WithMigrated
  <2> QED BY <1>1, <2>3, <2>4
<1> QED BY <1>5, <1>6, <1>7

LEMMA StoreKeeps ==
    ASSUME TypeOK, OneDatabase, NEW r \in Rows, Store(r)
    PROVE  /\ db \in Database /\ db' \in Database /\ db'.id = db.id
           /\ db'.next = [db.next EXCEPT ![r] = Null]
<1>1. db \in Database
  BY DEF TypeOK, OneDatabase, Store
<1>2. Null \in Text
  BY DEF Null, Text
<1> QED BY <1>1, <1>2 DEF Store, Database

LEMMA MarkFailedKeeps ==
    ASSUME TypeOK, OneDatabase, NEW r \in Rows, MarkFailed(r)
    PROVE  /\ db \in Database /\ db' \in Database /\ db'.id = db.id
           /\ db'.next = [db.next EXCEPT ![r] = Canonical(1)]
<1>1. db \in Database
  BY DEF TypeOK, OneDatabase, MarkFailed
<1>2. Canonical(1) \in Text
  BY CanonicalIsText
<1>3. db' = [db EXCEPT !.next[r] = Canonical(1)]
  BY DEF MarkFailed
<1> QED BY <1>1, <1>2, <1>3 DEF Database

LEMMA CorruptKeeps ==
    ASSUME TypeOK, Corrupt
    PROVE  /\ db \in Database /\ db' \in Database
           /\ db'.id = db.id /\ db'.next = db.next
BY DEF TypeOK, Corrupt, Database

LEMMA RepairKeeps ==
    ASSUME TypeOK, Repair
    PROVE  \E q \in quarantine :
              /\ q \in Database /\ db' \in Database /\ quarantine' = quarantine \ {q}
              /\ db'.id = q.id /\ db'.next = q.next
<1>1. PICK q \in quarantine : db' = [q EXCEPT !.sound = TRUE] /\ quarantine' = quarantine \ {q}
  BY DEF Repair
<1>2. q \in Database
  BY DEF TypeOK
<1> QED BY <1>1, <1>2 DEF Database

LEMMA FreshIsDatabase == Fresh \in Database
<1>1. NoRow \in Text
  BY DEF NoRow, Text
<1>2. NoId \in DeviceId
  BY DEF DeviceId
<1> QED BY <1>1, <1>2 DEF Fresh, Database

-----------------------------------------------------------------------------
(* While no start has overlooked a database there is but one.              *)
LEMMA OnlyKept ==
    ASSUME TypeOK, OneDatabase, ~overlooked
    PROVE  Databases = {Kept} \ {NoDb}
<1>1. NoDb \notin quarantine
  BY StoreAssumption DEF TypeOK
<1>2. CASE quarantine = {}
  BY <1>2 DEF Databases, Kept
<1>3. CASE quarantine # {}
  <2>1. PICK q : quarantine = {q} /\ db = NoDb
    BY <1>3 DEF OneDatabase
  <2>2. (CHOOSE x \in {q} : TRUE) = q
    OBVIOUS
  <2> QED BY <1>1, <1>3, <2>1, <2>2 DEF Databases, Kept
<1> QED BY <1>2, <1>3

(* Once a start has overlooked a database, that remains so.                *)
LEMMA OverlookedStays == ASSUME TypeOK, [Next]_vars PROVE ~overlooked' => ~overlooked
<1> USE DEF logs
<1>1. CASE UNCHANGED vars
  BY <1>1 DEF vars
<1>2. CASE Starting
  BY <1>2 DEF Starting, Start, Open, IntegrityCheck, degradeStorage, RenameLog, ChooseId, CommitId,
              RemoveIdFile, migrateRetryTimestamps, Logged
<1>3. CASE Maintenance \/ Operator \/ CallerLocks \/ CallerUnlocks
  BY <1>3 DEF Maintenance, Tick, CheckpointStarts, CheckpointEnds, MaintenanceEnds, Operator,
              Repair, GiveUp, RemoveBadFile, CallerLocks, CallerUnlocks
<1>4. CASE Close \/ CloseDb \/ Crash \/ Corrupt
  BY <1>4 DEF Close, CloseDb, Crash, Corrupt, Off
<1>5. CASE \E r \in Rows : Store(r) \/ MarkFailed(r)
  BY <1>5 DEF Store, MarkFailed, Logged
<1> QED BY <1>1, <1>2, <1>3, <1>4, <1>5 DEF Next, Plain, Other

(* The other actions, by what they do to files and identities.  Those that *)
(* leave the databases alone: a step of Init, the mutex, the end of a      *)
(* process; a log may be written back.                                     *)
Quiet ==
    \/ IntegrityCheck \/ RenameLog
    \/ Maintenance \/ CallerLocks \/ CallerUnlocks \/ Close \/ CloseDb \/ Crash

LEMMA QuietStep ==
    ASSUME TypeOK, OneDatabase, Quiet
    PROVE  /\ UNCHANGED <<db, quarantine, idFile, minted, established, stored, promise>>
           /\ UNCHANGED <<overlooked, lostLog>> /\ wal' \in {wal, FALSE}
           /\ \/ UNCHANGED <<pc, chosen, deviceID>>
              \/ /\ pc = "check" /\ pc' \in {"identity", "down", "degrade"}
                 /\ UNCHANGED <<chosen, deviceID>>
              \/ pc = "rename log" /\ pc' = "down" /\ UNCHANGED <<chosen, deviceID>>
              \/ pc = "up" /\ pc' = "joining" /\ UNCHANGED <<chosen, deviceID>>
              \/ pc' = "down" /\ chosen' = NoId /\ deviceID' = NoId
           /\ retry'.attempt \in 0..IntMax => TypeOK'
<1> USE DEF disk, logs, ids, locks, ghosts
<1>1. CASE RenameLog
  BY <1>1 DEF TypeOK, RenameLog
<1>2. CASE IntegrityCheck
  BY <1>2 DEF TypeOK, IntegrityCheck
<1>3. CASE Tick
  BY <1>3 DEF TypeOK, Tick
<1>4. CASE CheckpointStarts
  BY <1>4 DEF TypeOK, CheckpointStarts
<1>5. CASE CheckpointEnds
  BY <1>5 DEF TypeOK, CheckpointEnds
<1>6. CASE MaintenanceEnds
  BY <1>6 DEF TypeOK, MaintenanceEnds
<1>7. CASE CallerLocks
  BY <1>7 DEF TypeOK, CallerLocks
<1>8. CASE CallerUnlocks
  BY <1>8 DEF TypeOK, CallerUnlocks
<1>9. CASE Close
  BY <1>9 DEF TypeOK, Close
<1>10. CASE Off /\ wal' \in {wal, FALSE}
  BY <1>10 DEF TypeOK, Off, DeviceId
<1> QED BY <1>1, <1>2, <1>3, <1>4, <1>5, <1>6, <1>7, <1>8, <1>9, <1>10
        DEF Quiet, Maintenance, CloseDb, Crash

LEMMA ChooseStep ==
    ASSUME TypeOK, OneDatabase, ChooseId, retry'.attempt \in 0..IntMax
    PROVE  TypeOK'
<1>1. db.id \in DeviceId
  BY DEF TypeOK, OneDatabase, ChooseId, Database
<1>2. minted < MaxIds => minted + 1 \in DeviceId /\ minted + 1 \in 0..MaxIds
  <2>1. minted \in 0..MaxIds
    BY DEF TypeOK
  <2> QED BY <2>1, StoreAssumption DEF DeviceId
<1>3. chosen' \in {chosen, db.id, Legacy} \/ (minted < MaxIds /\ chosen' = minted + 1)
  BY DEF ChooseId
<1>4. chosen' \in DeviceId
  BY <1>1, <1>2, <1>3 DEF TypeOK, DeviceId
<1>5. minted' \in 0..MaxIds
  BY <1>2 DEF ChooseId, TypeOK
<1>6. pc' \in {"commit", "down"}
  BY DEF ChooseId
<1> QED BY <1>4, <1>5, <1>6 DEF TypeOK, ChooseId, disk, logs, locks, ghosts

(* A disjunct for every action: what remains are the ones above.           *)
LEMMA Actions ==
    ASSUME [Next]_vars
    PROVE  \/ UNCHANGED vars \/ Quiet
           \/ Start \/ Open \/ degradeStorage \/ ChooseId \/ CommitId \/ RemoveIdFile
           \/ migrateRetryTimestamps \/ Repair \/ GiveUp \/ RemoveBadFile \/ Corrupt
           \/ \E r \in Rows : Store(r)
           \/ \E r \in Rows : MarkFailed(r)
BY DEF Next, Plain, Other, Starting, Operator, Quiet

(* The recorded failure: only MarkFailed records one.                      *)
LEMMA RetryStep ==
    ASSUME [Next]_vars
    PROVE  \/ retry' \in {retry, NoRetry}
           \/ \E count \in Counts, after \in RetryAfters, jitter \in Jitters :
                 retry' = [attempt |-> Incremented(count), asked |-> after,
                           delay |-> Delay(Incremented(count), after, jitter)]
<1>1. CASE \E r \in Rows : MarkFailed(r)
  BY <1>1 DEF MarkFailed
<1>2. CASE UNCHANGED vars
  BY <1>2 DEF vars
<1> QED BY <1>1, <1>2 DEF Next, Plain

LEMMA CountIncremented ==
    ASSUME NEW count \in Counts
    PROVE  Incremented(count) \in 0..IntMax
BY StoreAssumption DEF Incremented

LEMMA RetryTyped == ASSUME TypeOK, [Next]_vars PROVE retry'.attempt \in 0..IntMax
<1>1. CASE retry' \in {retry, NoRetry}
  <2>1. NoRetry.attempt \in 0..IntMax
    BY StoreAssumption DEF NoRetry
  <2> QED BY <1>1, <2>1 DEF TypeOK
<1>2. ASSUME NEW count \in Counts, NEW after, NEW jitter,
             retry' = [attempt |-> Incremented(count), asked |-> after,
                       delay |-> Delay(Incremented(count), after, jitter)]
      PROVE  retry'.attempt \in 0..IntMax
  <2>1. retry'.attempt = Incremented(count)
    BY <1>2
  <2> QED BY <2>1, CountIncremented
<1> QED BY <1>1, <1>2, RetryStep

LEMMA TypeStep == TypeOK /\ OneDatabase /\ [Next]_vars => TypeOK'
<1> SUFFICES ASSUME TypeOK, OneDatabase, [Next]_vars PROVE TypeOK'
  OBVIOUS
<1> USE DEF disk, logs, ids, locks, ghosts
<1>0. retry'.attempt \in 0..IntMax
  BY RetryTyped
<1>1. CASE UNCHANGED vars
  BY <1>1 DEF vars, TypeOK
<1>2. CASE Open
  <2>1. db' \in Database \cup {NoDb}
    BY <1>2, FreshIsDatabase DEF Open, TypeOK
  <2> QED BY <1>0, <1>2, <2>1 DEF TypeOK, Open
<1>3. CASE degradeStorage
  BY <1>0, <1>3 DEF TypeOK, degradeStorage
<1>4. CASE CommitId
  <2>1. {deviceID', established', chosen'} \subseteq DeviceId
    BY <1>4 DEF TypeOK, CommitId, DeviceId
  <2>2. /\ pc' \in {"unlink", "down"} /\ UNCHANGED <<quarantine, idFile, minted, locks, stored, promise>>
        /\ {wal', overlooked', lostLog'} \subseteq BOOLEAN
    BY <1>4 DEF CommitId, Logged, TypeOK
  <2>3. db' \in Database
    BY <1>4, CommitKeeps
  <2> QED BY <1>0, <1>4, <2>1, <2>2, <2>3 DEF TypeOK, CommitId
<1>5. CASE RemoveIdFile
  BY <1>0, <1>5 DEF TypeOK, RemoveIdFile
<1>6. CASE migrateRetryTimestamps
  BY <1>0, <1>6, MigrateKeeps DEF TypeOK, migrateRetryTimestamps, Logged
<1>7. CASE Repair
  BY <1>0, <1>7, RepairKeeps DEF TypeOK, Repair
<1>8. CASE GiveUp
  <2>1. established' \in DeviceId /\ quarantine' \subseteq Database /\ stored' \subseteq Rows
    BY <1>8 DEF GiveUp, TypeOK, DeviceId
  <2> QED BY <1>0, <1>8, <2>1 DEF TypeOK, GiveUp
<1>9. CASE RemoveBadFile
  BY <1>0, <1>9 DEF TypeOK, RemoveBadFile
<1>10. CASE Corrupt
  BY <1>0, <1>10, CorruptKeeps DEF TypeOK, Corrupt
<1>11. ASSUME NEW r \in Rows, Store(r) PROVE TypeOK'
  <2>1. db' \in Database
    BY <1>11, StoreKeeps
  <2>2. promise' \in [Rows -> Int]
    BY <1>11 DEF Store, TypeOK, Past
  <2> QED BY <1>0, <1>11, <2>1, <2>2 DEF TypeOK, Store, Logged
<1>12. ASSUME NEW r \in Rows, MarkFailed(r) PROVE TypeOK'
  <2>1. db' \in Database
    BY <1>12, MarkFailedKeeps
  <2>2. promise' \in [Rows -> Int]
    BY <1>12 DEF MarkFailed, TypeOK
  <2> QED BY <1>0, <1>12, <2>1, <2>2 DEF TypeOK, MarkFailed, Logged
<1>13. CASE Start
  BY <1>0, <1>13 DEF TypeOK, Start
<1> QED BY <1>0, <1>1, <1>2, <1>3, <1>4, <1>5, <1>6, <1>7, <1>8, <1>9, <1>10, <1>11, <1>12,
           <1>13, Actions, QuietStep, ChooseStep

-----------------------------------------------------------------------------
(* Where the database is.                                                  *)
LEMMA OneDatabaseStep == TypeOK /\ OneDatabase /\ [Next]_vars => OneDatabase'
<1> SUFFICES ASSUME TypeOK, OneDatabase, [Next]_vars PROVE OneDatabase'
  OBVIOUS
<1> USE DEF disk, logs
<1>0. NoDb \notin Database /\ NoDb \notin quarantine
  BY StoreAssumption DEF TypeOK
<1>1. CASE UNCHANGED vars
  BY <1>1 DEF vars, OneDatabase
<1>2. CASE Open
  <2>1. Fresh # NoDb
    BY <1>0, FreshIsDatabase
  <2>2. ~overlooked => quarantine = {}
    BY <1>2 DEF Open, OneDatabase
  <2>3. UNCHANGED <<quarantine, overlooked>> /\ pc' \in (IF db' = NoDb THEN {"degrade"} ELSE {"check", "degrade"})
    BY <1>2 DEF Open
  <2>4. CASE UNCHANGED <<db, wal, lostLog>>
    BY <2>2, <2>3, <2>4 DEF OneDatabase
  <2>5. CASE db # NoDb /\ db' = db /\ lostLog' = (lostLog \/ (wal /\ db = NoDb))
    BY <2>2, <2>3, <2>5 DEF OneDatabase
  <2>6. CASE db = NoDb /\ db' = Fresh /\ lostLog' = (lostLog \/ (wal /\ db = NoDb))
    BY <2>1, <2>2, <2>3, <2>6 DEF OneDatabase
  <2> QED BY <1>2, <2>4, <2>5, <2>6 DEF Open
<1>3. CASE degradeStorage
  <2>1. CASE db = NoDb
    BY <1>3, <2>1 DEF OneDatabase, degradeStorage
  <2>2. CASE db # NoDb
    <3>1. ~overlooked => quarantine = {}
      BY <1>3 DEF OneDatabase, degradeStorage
    <3> QED BY <1>3, <2>2, <3>1 DEF OneDatabase, degradeStorage
  <2> QED BY <2>1, <2>2
<1>4. CASE CommitId
  <2>1. UNCHANGED <<quarantine, overlooked, lostLog>> /\ pc = "commit"
    BY <1>4 DEF CommitId, Logged
  <2> QED BY <1>0, <1>4, <2>1, CommitKeeps DEF OneDatabase
<1>5. CASE RemoveIdFile
  BY <1>5 DEF OneDatabase, RemoveIdFile
<1>6. CASE migrateRetryTimestamps
  <2>1. UNCHANGED <<quarantine, overlooked, lostLog>> /\ pc = "migrate"
    BY <1>6 DEF migrateRetryTimestamps, Logged
  <2> QED BY <1>0, <1>6, <2>1, MigrateKeeps DEF OneDatabase
<1>7. CASE Repair
  <2>1. PICK q \in quarantine : db' \in Database /\ quarantine' = quarantine \ {q}
    BY <1>7, RepairKeeps
  <2>2. UNCHANGED <<pc, overlooked, lostLog>> /\ pc = "down"
    BY <1>7 DEF Repair
  <2>3. ~overlooked => quarantine' = {}
    BY <2>1 DEF OneDatabase
  <2> QED BY <1>0, <2>1, <2>2, <2>3 DEF OneDatabase
<1>8. CASE GiveUp
  <2>1. PICK q \in quarantine : quarantine' = quarantine \ {q}
    BY <1>8 DEF GiveUp
  <2>2. UNCHANGED <<pc, db, overlooked, lostLog>> /\ pc = "down" /\ wal' = (wal /\ db # NoDb)
    BY <1>8 DEF GiveUp
  <2>3. ~overlooked => quarantine' = {}
    BY <2>1 DEF OneDatabase
  <2> QED BY <2>2, <2>3 DEF OneDatabase
<1>9. CASE RemoveBadFile
  BY <1>9 DEF OneDatabase, RemoveBadFile
<1>10. CASE Corrupt
  BY <1>0, <1>10, CorruptKeeps DEF OneDatabase, Corrupt
<1>11. ASSUME NEW r \in Rows, Store(r) PROVE OneDatabase'
  BY <1>0, <1>11, StoreKeeps DEF OneDatabase, Store, Logged
<1>12. ASSUME NEW r \in Rows, MarkFailed(r) PROVE OneDatabase'
  <2>1. UNCHANGED <<pc, quarantine, overlooked, lostLog>>
    BY <1>12 DEF MarkFailed, Logged
  <2> QED BY <1>0, <1>12, <2>1, MarkFailedKeeps DEF OneDatabase, MarkFailed
<1>13. CASE ChooseId
  BY <1>13 DEF OneDatabase, ChooseId
<1>14. CASE Quiet
  <2>1. /\ UNCHANGED <<db, quarantine, overlooked, lostLog>> /\ wal' \in {wal, FALSE}
        /\ \/ pc' = pc \/ pc' = "down"
           \/ pc = "check" /\ pc' \in {"identity", "degrade"}
           \/ pc = "up" /\ pc' = "joining"
    <3>1. Quiet
      BY <1>14
    <3>2. UNCHANGED <<db, quarantine, overlooked, lostLog>> /\ wal' \in {wal, FALSE}
      BY <3>1, QuietStep
    <3> QED BY <3>1, <3>2, QuietStep
  <2>2. ~wal => ~wal'
    BY <2>1
  <2> QED BY <2>1, <2>2 DEF OneDatabase
<1>15. CASE Start
  BY <1>15 DEF OneDatabase, Start
<1> QED BY <1>1, <1>2, <1>3, <1>4, <1>5, <1>6, <1>7, <1>8, <1>9, <1>10, <1>11, <1>12,
           <1>13, <1>14, <1>15, Actions

-----------------------------------------------------------------------------
(* What a step does to the one database there is.                          *)
LEMMA KeptInPlace ==
    ASSUME OneDatabase, ~overlooked, pc \notin {"down", "rename log"}
    PROVE  quarantine = {} /\ Kept = db
BY DEF OneDatabase, Kept

LEMMA DegradeKeeps ==
    ASSUME TypeOK, OneDatabase, degradeStorage
    PROVE  /\ Databases' = Databases
           /\ ~overlooked => Kept' = Kept
<1>1. NoDb \notin quarantine
  BY StoreAssumption DEF TypeOK
<1>2. Databases' = Databases
  BY <1>1 DEF degradeStorage, Databases
<1>3. ASSUME ~overlooked PROVE Kept' = Kept
  <2>1. quarantine = {} /\ Kept = db
    BY <1>3, KeptInPlace DEF degradeStorage
  <2>2. CASE UNCHANGED <<db, quarantine>>
    BY <2>2 DEF Kept
  <2>3. CASE quarantine' = {db} \ {NoDb} /\ db' = NoDb
    <3>1. (CHOOSE x \in {db} : TRUE) = db
      OBVIOUS
    <3>2. CASE db = NoDb
      BY <2>1, <2>3, <3>2 DEF Kept
    <3>3. CASE db # NoDb
      <4>1. quarantine' = {db}
        BY <2>3, <3>3
      <4> QED BY <2>1, <3>1, <4>1 DEF Kept
    <3> QED BY <3>2, <3>3
  <2> QED BY <2>1, <2>2, <2>3 DEF degradeStorage
<1> QED BY <1>2, <1>3

LEMMA RepairedKept ==
    ASSUME TypeOK, OneDatabase, ~overlooked, Repair
    PROVE  /\ Kept # NoDb /\ Kept' # NoDb /\ quarantine' = {}
           /\ Kept'.id = Kept.id /\ Kept'.next = Kept.next
<1>1. PICK q \in quarantine :
              /\ q \in Database /\ db' \in Database /\ quarantine' = quarantine \ {q}
              /\ db'.id = q.id /\ db'.next = q.next
  BY RepairKeeps
<1>2. quarantine = {q}
  BY <1>1 DEF OneDatabase
<1>3. (CHOOSE x \in {q} : TRUE) = q
  OBVIOUS
<1>4. Kept = q /\ quarantine' = {} /\ Kept' = db'
  BY <1>1, <1>2, <1>3 DEF Kept
<1> QED BY <1>1, <1>4, StoreAssumption

LEMMA GivenUp ==
    ASSUME TypeOK, OneDatabase, ~overlooked, GiveUp
    PROVE  Kept' = NoDb /\ established' = FromFile /\ stored' = {}
<1>1. PICK q \in quarantine :
          /\ quarantine' = quarantine \ {q}
          /\ stored' = {r \in stored : \E d \in Databases \ {q} : d.next[r] # NoRow}
          /\ established' = IF Databases \ {q} # {} THEN established
                            ELSE IF idFile = "valid" THEN Legacy ELSE NoId
  BY DEF GiveUp
<1>2. quarantine = {q} /\ db = NoDb
  BY <1>1 DEF OneDatabase
<1>3. quarantine' = {} /\ db' = NoDb /\ Databases \ {q} = {}
  BY <1>1, <1>2 DEF Databases, GiveUp
<1> QED BY <1>1, <1>3 DEF Kept, FromFile

-----------------------------------------------------------------------------
(* The identity.                                                           *)
LEMMA IdentityStep == TypeOK /\ OneDatabase /\ Identity /\ [Next]_vars => Identity'
<1> SUFFICES ASSUME TypeOK, OneDatabase, Identity, [Next]_vars PROVE Identity'
  OBVIOUS
<1> USE DEF disk, logs, FromFile
<1>0. NoDb \notin Database
  BY StoreAssumption
<1>o. ~overlooked' => ~overlooked
  BY OverlookedStays
<1>1. CASE UNCHANGED vars
  BY <1>1 DEF vars, Identity, IdentityKept, Kept, ids, ghosts
<1>2. CASE Open
  <2>1. Fresh # NoDb /\ Fresh.id = NoId
    BY <1>0, FreshIsDatabase DEF Fresh
  <2>2. deviceID = NoId /\ UNCHANGED <<quarantine, idFile, overlooked, chosen, deviceID, established>>
    BY <1>2 DEF Open, Identity, ids, ghosts
  <2>3. db' = db \/ (db = NoDb /\ db' = Fresh)
    BY <1>2 DEF Open
  <2>4. pc' \in {"check", "degrade"}
    BY <1>2 DEF Open
  <2>5. ~overlooked => quarantine = {}
    BY <1>2, KeptInPlace DEF Open
  <2>6. ~overlooked' => IdentityKept'
    BY <2>1, <2>2, <2>3, <2>4, <2>5 DEF Identity, IdentityKept, Kept
  <2> QED BY <2>2, <2>4, <2>6 DEF Identity
<1>3. CASE degradeStorage
  <2>1. ~overlooked' => IdentityKept'
    BY <1>o, <1>3, DegradeKeeps DEF Identity, IdentityKept, degradeStorage, ids, ghosts
  <2> QED BY <1>3, <2>1 DEF Identity, degradeStorage, ids
<1>4. CASE CommitId
  <2>1. db # NoDb /\ db' # NoDb /\ UNCHANGED <<quarantine, idFile, overlooked>> /\ pc = "commit"
    BY <1>0, <1>4, CommitKeeps DEF CommitId, Logged
  <2>2. chosen # NoId /\ deviceID = NoId
    BY <1>4 DEF Identity, CommitId
  <2>3. CASE UNCHANGED <<db, deviceID, established>> /\ pc' = "down"
    BY <2>1, <2>2, <2>3 DEF Identity, IdentityKept, Kept
  <2>4. CASE /\ db' = [db EXCEPT !.id = chosen]
             /\ established' = IF established = NoId THEN chosen ELSE established
             /\ \/ pc' = "unlink" /\ deviceID' = chosen
                \/ pc' = "down" /\ UNCHANGED deviceID
    <3>1. db'.id = chosen
      BY <1>4, <2>4, CommitKeeps DEF Database
    <3>2. ASSUME ~overlooked PROVE IdentityKept'
      <4>1. established' = chosen
        BY <2>1, <2>4, <3>2 DEF Identity, IdentityKept
      <4>2. quarantine = {}
        BY <2>1, <3>2, KeptInPlace
      <4> QED BY <2>1, <2>2, <2>4, <3>1, <4>1, <4>2 DEF IdentityKept, Kept
    <3> QED BY <2>1, <2>2, <2>4, <3>1, <3>2 DEF Identity
  <2> QED BY <1>4, <2>3, <2>4 DEF CommitId
<1>5. CASE RemoveIdFile
  <2>1. ASSUME ~overlooked PROVE IdentityKept'
    <3>1. Kept = db /\ Kept' = db /\ db # NoDb /\ db.id # NoId
      BY <1>5, <2>1, KeptInPlace DEF RemoveIdFile, OneDatabase, Identity, Kept
    <3> QED BY <1>5, <2>1, <3>1 DEF Identity, IdentityKept, RemoveIdFile, ghosts
  <2> QED BY <1>o, <1>5, <2>1 DEF Identity, RemoveIdFile, ids
<1>6. CASE migrateRetryTimestamps
  <2>1. db # NoDb /\ db' # NoDb /\ db'.id = db.id
    BY <1>0, <1>6, MigrateKeeps
  <2>2. ASSUME ~overlooked PROVE IdentityKept'
    BY <1>6, <2>1, <2>2, KeptInPlace DEF Identity, IdentityKept, Kept, migrateRetryTimestamps, ids, ghosts
  <2> QED BY <1>o, <1>6, <2>1, <2>2 DEF Identity, migrateRetryTimestamps, ids
<1>7. CASE Repair
  <2>1. pc' = "down" /\ pc = "down" /\ deviceID' = NoId
    BY <1>7 DEF Repair, Identity, ids
  <2>2. ASSUME ~overlooked PROVE IdentityKept'
    BY <1>7, <2>1, <2>2, RepairedKept DEF Identity, IdentityKept, Repair, ids, ghosts
  <2> QED BY <1>o, <2>1, <2>2 DEF Identity
<1>8. CASE GiveUp
  <2>1. pc' = "down" /\ deviceID' = NoId /\ UNCHANGED idFile
    BY <1>8 DEF GiveUp, Identity, ids
  <2>2. ASSUME ~overlooked PROVE IdentityKept'
    BY <1>8, <2>1, <2>2, GivenUp DEF IdentityKept
  <2> QED BY <1>o, <2>1, <2>2 DEF Identity
<1>9. CASE RemoveBadFile
  BY <1>9 DEF Identity, IdentityKept, Kept, RemoveBadFile, ids, ghosts
<1>10. CASE Corrupt
  <2>1. db # NoDb /\ db' # NoDb /\ db'.id = db.id
    BY <1>0, <1>10, CorruptKeeps
  <2>2. ASSUME ~overlooked PROVE IdentityKept'
    <3>1. quarantine = {} /\ Kept = db /\ Kept' = db'
      BY <1>10, <2>1, <2>2 DEF OneDatabase, Corrupt, Kept
    <3> QED BY <1>10, <2>1, <2>2, <3>1 DEF Identity, IdentityKept, Corrupt, ids, ghosts
  <2> QED BY <1>o, <1>10, <2>1, <2>2 DEF Identity, Corrupt, ids
<1>11. ASSUME NEW r \in Rows, Store(r) PROVE Identity'
  <2>1. db # NoDb /\ db' # NoDb /\ db'.id = db.id
    BY <1>0, <1>11, StoreKeeps
  <2>2. ASSUME ~overlooked PROVE IdentityKept'
    BY <1>11, <2>1, <2>2, KeptInPlace DEF Identity, IdentityKept, Kept, Store, ids
  <2> QED BY <1>o, <1>11, <2>1, <2>2 DEF Identity, Store, ids
<1>12. ASSUME NEW r \in Rows, MarkFailed(r) PROVE Identity'
  <2>1. db # NoDb /\ db' # NoDb /\ db'.id = db.id
    BY <1>0, <1>12, MarkFailedKeeps
  <2>0. UNCHANGED <<pc, quarantine, idFile, ids, established>> /\ pc = "up"
    BY <1>12 DEF MarkFailed
  <2>2. ASSUME ~overlooked PROVE IdentityKept'
    BY <2>0, <2>1, <2>2, KeptInPlace DEF Identity, IdentityKept, Kept, ids
  <2> QED BY <1>o, <2>0, <2>1, <2>2 DEF Identity, ids
<1>13. CASE ChooseId
  <2>1. db # NoDb /\ UNCHANGED <<db, quarantine, idFile, overlooked, deviceID, established>> /\ pc = "identity"
    BY <1>13 DEF OneDatabase, ChooseId, ghosts
  <2>2. minted + 1 # NoId /\ Legacy # NoId
    <3>1. minted \in 0..MaxIds
      BY DEF TypeOK
    <3> QED BY <3>1 DEF NoId, Legacy
  <2>3. pc' = "commit" => chosen' # NoId
    BY <1>13, <2>2 DEF ChooseId
  <2>4. ASSUME ~overlooked PROVE IdentityKept'
    <3>1. Kept = db /\ Kept' = db
      BY <2>1, <2>4, KeptInPlace DEF Kept
    <3>2. pc' = "commit" /\ established # NoId => chosen' = established
      BY <1>13, <2>1, <2>4, <3>1 DEF ChooseId, Identity, IdentityKept
    <3> QED BY <2>1, <2>4, <3>1, <3>2 DEF Identity, IdentityKept
  <2>5. pc' \in {"commit", "down"} /\ deviceID = NoId
    BY <1>13 DEF ChooseId, Identity
  <2> QED BY <1>o, <2>1, <2>3, <2>4, <2>5 DEF Identity
<1>14. CASE Quiet
  BY <1>14, QuietStep DEF Identity, IdentityKept, Kept
<1>15. CASE Start
  BY <1>15 DEF Identity, IdentityKept, Kept, Start, ids, ghosts
<1> QED BY <1>1, <1>2, <1>3, <1>4, <1>5, <1>6, <1>7, <1>8, <1>9, <1>10, <1>11, <1>12,
           <1>13, <1>14, <1>15, Actions

-----------------------------------------------------------------------------
(* Rows and their retry times.                                             *)
LEMMA SameRows ==
    ASSUME RowsKept, stored' = stored, stored \subseteq Rows,
           \A d \in Databases : \E e \in Databases' :
               \A r \in Rows : d.next[r] # NoRow => e.next[r] # NoRow
    PROVE  RowsKept'
BY DEF RowsKept

(* A write to the database in place keeps the rows of all.                 *)
LEMMA WrittenRows ==
    ASSUME TypeOK, RowsKept, db # NoDb, db' # NoDb, UNCHANGED <<quarantine, stored>>,
           \A r \in Rows : db.next[r] # NoRow => db'.next[r] # NoRow
    PROVE  RowsKept'
<1>1. \A d \in Databases : d \in quarantine \/ d = db
  BY DEF Databases
<1>2. db' \in Databases' /\ \A d \in quarantine : d \in Databases'
  BY StoreAssumption DEF Databases, TypeOK
<1> QED BY <1>1, <1>2, SameRows DEF TypeOK

LEMMA RowStep == TypeOK /\ OneDatabase /\ RowsKept /\ [Next]_vars => RowsKept'
<1> SUFFICES ASSUME TypeOK, OneDatabase, RowsKept, [Next]_vars PROVE RowsKept'
  OBVIOUS
<1> USE DEF disk, ghosts
<1>0. NoDb \notin Database /\ NoDb \notin quarantine
  BY StoreAssumption DEF TypeOK
<1>1. CASE UNCHANGED <<db, quarantine, stored>>
  BY <1>1 DEF RowsKept, Databases
<1>2. CASE Open
  <2>1. CASE db' = db
    BY <1>1, <1>2, <2>1 DEF Open
  <2>2. CASE db = NoDb
    <3>1. Databases \subseteq Databases' /\ stored' = stored
      BY <1>0, <1>2, <2>2 DEF Open, Databases
    <3> QED BY <3>1 DEF RowsKept
  <2> QED BY <1>2, <2>1, <2>2 DEF Open
<1>3. CASE degradeStorage
  BY <1>3, DegradeKeeps DEF degradeStorage, RowsKept
<1>4. CASE CommitId
  BY <1>0, <1>4, CommitKeeps, WrittenRows DEF CommitId
<1>6. CASE migrateRetryTimestamps
  <2>1. \A text \in Text : Migrated(text) # NoRow
    BY MigratedIsInstant, InstantIsInt, CanonicalIsText, NoRowByForm
  <2>2. \A r \in Rows : db.next[r] \in Text
    BY <1>6, MigrateKeeps DEF Database
  <2>3. \A r \in Rows : db.next[r] # NoRow => db'.next[r] # NoRow
    BY <1>6, <2>1, <2>2, MigrateKeeps
  <2>4. UNCHANGED <<quarantine, stored>>
    BY <1>6 DEF migrateRetryTimestamps
  <2> QED BY <1>0, <1>6, <2>3, <2>4, MigrateKeeps, WrittenRows
<1>7. CASE Repair
  <2>1. PICK q \in quarantine :
              /\ q \in Database /\ db' \in Database /\ quarantine' = quarantine \ {q}
              /\ db'.id = q.id /\ db'.next = q.next
    BY <1>7, RepairKeeps
  <2>2. db = NoDb /\ stored' = stored /\ stored \subseteq Rows
    BY <1>7 DEF Repair, TypeOK
  <2>3. db' \in Databases' /\ \A d \in Databases : d = q \/ d \in Databases'
    BY <1>0, <2>1, <2>2 DEF Databases
  <2> QED BY <2>1, <2>2, <2>3, SameRows
<1>8. CASE GiveUp
  <2>1. PICK q \in quarantine :
          /\ quarantine' = quarantine \ {q}
          /\ stored' = {r \in stored : \E d \in Databases \ {q} : d.next[r] # NoRow}
    BY <1>8 DEF GiveUp
  <2>2. Databases \ {q} \subseteq Databases'
    BY <1>8, <2>1 DEF Databases, GiveUp
  <2> QED BY <2>1, <2>2 DEF RowsKept
<1>10. CASE Corrupt
  BY <1>0, <1>10, CorruptKeeps, WrittenRows DEF Corrupt
<1>11. ASSUME NEW r \in Rows, Store(r) PROVE RowsKept'
  <2>1. Null # NoRow
    BY NoRowByForm DEF Null
  <2>2. db \in Database /\ db' \in Database /\ db'.next = [db.next EXCEPT ![r] = Null]
    BY <1>11, StoreKeeps
  <2>3. db.next \in [Rows -> Text]
    BY <2>2 DEF Database
  <2>4. db'.next[r] # NoRow /\ \A s \in Rows : db.next[s] # NoRow => db'.next[s] # NoRow
    BY <2>1, <2>2, <2>3
  <2>5. db' \in Databases' /\ \A d \in Databases : d = db \/ d \in Databases'
    BY <1>0, <1>11, <2>2 DEF Databases, Store
  <2>6. stored' = stored \cup {r} /\ stored \subseteq Rows
    BY <1>11 DEF Store, TypeOK
  <2> QED BY <2>4, <2>5, <2>6 DEF RowsKept
<1>12. ASSUME NEW r \in Rows, MarkFailed(r) PROVE RowsKept'
  <2>1. Canonical(1) # NoRow
    <3>1. Canonical(1).form = "canonical"
      BY CanonicalIsText
    <3> QED BY <3>1, NoRowByForm
  <2>2. db \in Database /\ db' \in Database /\ db'.next = [db.next EXCEPT ![r] = Canonical(1)]
    BY <1>12, MarkFailedKeeps
  <2>3. db.next \in [Rows -> Text]
    BY <2>2 DEF Database
  <2>4. \A s \in Rows : db.next[s] # NoRow => db'.next[s] # NoRow
    BY <2>1, <2>2, <2>3
  <2>5. UNCHANGED <<quarantine, stored>>
    BY <1>12 DEF MarkFailed
  <2> QED BY <1>0, <2>2, <2>4, <2>5, WrittenRows
<1>13. CASE ChooseId \/ RemoveIdFile \/ RemoveBadFile \/ Start \/ Quiet \/ UNCHANGED vars
  BY <1>1, <1>13, QuietStep DEF ChooseId, RemoveIdFile, RemoveBadFile, Start, vars
<1> QED BY <1>2, <1>3, <1>4, <1>6, <1>7, <1>8, <1>10, <1>11, <1>12, <1>13, Actions

(* While there is one database, every row of stored is in it.              *)
LEMMA RowInKept ==
    ASSUME TypeOK, OneDatabase, RowsKept, ~overlooked, NEW r \in stored
    PROVE  Kept # NoDb /\ Kept.next[r] # NoRow
BY OnlyKept DEF RowsKept

LEMMA SameTimes ==
    ASSUME TypeOK, OneDatabase, RowsKept, TimesKept, ~overlooked, UNCHANGED <<stored, promise>>,
           Kept # NoDb => Kept'.next = Kept.next
    PROVE  TimesKept'
BY RowInKept DEF TimesKept

LEMMA TimesStep == TypeOK /\ OneDatabase /\ RowsKept /\ TimesKept /\ [Next]_vars => TimesKept'
<1> SUFFICES ASSUME TypeOK, OneDatabase, RowsKept, TimesKept, [Next]_vars, ~overlooked'
             PROVE  TimesKept'
  BY DEF TimesKept
<1> USE DEF disk, ghosts
<1>0. NoDb \notin Database
  BY StoreAssumption
<1>o. ~overlooked
  BY OverlookedStays
<1>1. CASE UNCHANGED <<db, quarantine, stored, promise>>
  BY <1>o, <1>1, SameTimes DEF Kept
<1>2. CASE Open
  <2>1. quarantine = {} /\ Kept = db /\ quarantine' = {}
    BY <1>o, <1>2, KeptInPlace DEF Open
  <2>2. Kept' = db' /\ (db # NoDb => db' = db) /\ UNCHANGED <<stored, promise>>
    BY <1>2, <2>1 DEF Open, Kept
  <2> QED BY <1>o, <2>1, <2>2, SameTimes
<1>3. CASE degradeStorage
  BY <1>o, <1>3, DegradeKeeps, SameTimes DEF degradeStorage
<1>4. CASE CommitId
  <2>1. Kept = db /\ Kept' = db'
    BY <1>o, <1>4, KeptInPlace DEF CommitId, Kept
  <2> QED BY <1>o, <1>4, <2>1, CommitKeeps, SameTimes DEF CommitId
<1>6. CASE migrateRetryTimestamps
  <2>1. /\ Kept = db /\ Kept' = db' /\ db \in Database
        /\ UNCHANGED <<stored, promise>>
    BY <1>o, <1>6, MigrateKeeps, KeptInPlace DEF migrateRetryTimestamps, Kept
  <2> SUFFICES ASSUME NEW r \in stored PROVE Due(db'.next[r], promise[r])
    BY <2>1 DEF TimesKept
  <2>2. r \in Rows /\ db.next[r] \in Text
    BY <2>1 DEF TypeOK, Database
  <2>3. Due(db.next[r], promise[r])
    BY <1>o, <2>1 DEF TimesKept
  <2>4. CASE db'.next[r] = db.next[r]
    BY <2>3, <2>4
  <2>5. CASE /\ db.next[r].form \in {"legacy", "garbled"}
             /\ db'.next[r] = Migrated(db.next[r])
    <3>1. db'.next[r] = Canonical(Instant(db.next[r])) /\ Instant(db.next[r]) \in Int
      BY <2>2, <2>5, MigratedIsInstant, InstantIsInt
    <3>2. db'.next[r].form = "canonical" /\ db'.next[r].clock = Instant(db.next[r])
      BY <3>1, CanonicalIsText
    <3>3. promise[r] = Instant(db.next[r])
      BY <2>3, <2>5 DEF Due
    <3> QED BY <3>2, <3>3 DEF Due
  <2> QED BY <1>6, <2>2, <2>4, <2>5, MigrateKeeps
<1>7. CASE Repair
  BY <1>o, <1>7, RepairedKept, SameTimes DEF Repair
<1>8. CASE GiveUp
  BY <1>o, <1>8, GivenUp DEF TimesKept
<1>10. CASE Corrupt
  <2>1. Kept = db /\ Kept' = db'
    BY <1>o, <1>10 DEF OneDatabase, Corrupt, Kept
  <2> QED BY <1>o, <1>10, <2>1, CorruptKeeps, SameTimes DEF Corrupt
<1>11. ASSUME NEW r \in Rows, Store(r) PROVE TimesKept'
  <2>1. Kept = db /\ Kept' = db'
    BY <1>o, <1>11, KeptInPlace DEF Store, Kept
  <2>2. Due(Null, Past)
    BY DEF Due, Null
  <2>3. db.next \in [Rows -> Text] /\ db'.next = [db.next EXCEPT ![r] = Null]
    BY <1>11, StoreKeeps DEF Database
  <2>4. /\ stored' = stored \cup {r} /\ stored \subseteq Rows
        /\ promise \in [Rows -> Int] /\ promise' = [promise EXCEPT ![r] = Past]
    BY <1>11 DEF Store, TypeOK
  <2>5. \A s \in stored : Due(db.next[s], promise[s])
    BY <1>o, <2>1 DEF TimesKept
  <2>6. \A s \in stored' : Due(db'.next[s], promise'[s])
    BY <2>2, <2>3, <2>4, <2>5
  <2> QED BY <2>1, <2>6 DEF TimesKept
<1>12. ASSUME NEW r \in Rows, MarkFailed(r) PROVE TimesKept'
  <2>1. Kept = db /\ Kept' = db'
    BY <1>o, <1>12, KeptInPlace DEF MarkFailed, Kept
  <2>2. Due(Canonical(1), 1)
    BY CanonicalIsText DEF Due
  <2>3. db.next \in [Rows -> Text] /\ db'.next = [db.next EXCEPT ![r] = Canonical(1)]
    BY <1>12, MarkFailedKeeps DEF Database
  <2>4. /\ stored' = stored /\ stored \subseteq Rows
        /\ promise \in [Rows -> Int] /\ promise' = [promise EXCEPT ![r] = 1]
    BY <1>12 DEF MarkFailed, TypeOK
  <2>5. \A s \in stored : Due(db.next[s], promise[s])
    BY <1>o, <2>1 DEF TimesKept
  <2>6. \A s \in stored' : Due(db'.next[s], promise'[s])
    BY <2>2, <2>3, <2>4, <2>5
  <2> QED BY <2>1, <2>6 DEF TimesKept
<1>13. CASE ChooseId \/ RemoveIdFile \/ RemoveBadFile \/ Start \/ Quiet \/ UNCHANGED vars
  BY <1>1, <1>13, QuietStep DEF ChooseId, RemoveIdFile, RemoveBadFile, Start, vars
<1> QED BY <1>2, <1>3, <1>4, <1>6, <1>7, <1>8, <1>10, <1>11, <1>12, <1>13, Actions

-----------------------------------------------------------------------------
(* The shift of MarkFailed.  Shifted is defined by recursion; that there   *)
(* is such a function, and what it is at n + 1, is shown from the first    *)
(* steps of it, which a function on 0..n can hold.                         *)
LEMMA SmallestNat ==
    ASSUME NEW T \in SUBSET Nat, T # {}
    PROVE  \E n \in T : \A m \in T : n <= m
<1> DEFINE R == {p \in Nat \X Nat : p[1] < p[2]}
<1>1. R = OpToRel(<, Nat)
  BY DEF OpToRel
<1>2. IsWellFoundedOn(R, Nat)
  BY <1>1, NatLessThanWellFounded
<1>3. PICK n \in T : \A m \in T : ~ (<<m, n>> \in R)
  <2> HIDE DEF R
  <2> QED
    BY <1>2, WFMin
<1>4. ASSUME NEW m \in T PROVE n <= m
  <2>1. n \in Nat /\ m \in Nat /\ ~ (<<m, n>> \in R)
    BY <1>3
  <2>2. ~(m < n)
    BY <2>1
  <2> QED
    BY <2>1, <2>2
<1> QED
  BY <1>4

(* A set of numbers that has k, and n + 1 whenever it has an n from k on,  *)
(* has every number from k on.                                             *)
LEMMA UpwardFrom ==
    ASSUME NEW S, NEW k \in Nat, k \in S,
           \A n \in Nat : n >= k /\ n \in S => n + 1 \in S
    PROVE  \A n \in Nat : n >= k => n \in S
<1> DEFINE T == {n \in Nat : n >= k /\ n \notin S}
<1> SUFFICES ASSUME T # {} PROVE FALSE
  OBVIOUS
<1>1. PICK n \in T : \A m \in T : n <= m
  <2>1. T \in SUBSET Nat
    OBVIOUS
  <2> HIDE DEF T
  <2> QED
    BY <2>1, SmallestNat
<1>2. n - 1 \in Nat /\ n - 1 >= k /\ n = (n - 1) + 1
  BY <1>1
<1>3. n - 1 \in S
  BY <1>1, <1>2
<1> QED
  BY <1>1, <1>2, <1>3

FirstShifts(n) ==
    {g \in [0..n -> Nat] : \A i \in 0..n : g[i] = IF i = 0 THEN 1 ELSE 2 * g[i - 1]}

LEMMA FirstShiftsExist == \A n \in Nat : FirstShifts(n) # {}
<1> DEFINE S == {n \in Nat : FirstShifts(n) # {}}
<1>1. 0 \in S
  <2>1. [i \in 0..0 |-> 1] \in FirstShifts(0)
    BY DEF FirstShifts
  <2> QED BY <2>1
<1>2. ASSUME NEW n \in Nat, n \in S PROVE n + 1 \in S
  <2>1. PICK g : g \in FirstShifts(n)
    BY <1>2
  <2> DEFINE h == [i \in 0..(n + 1) |-> IF i = n + 1 THEN 2 * g[n] ELSE g[i]]
  <2>2. /\ g \in [0..n -> Nat]
        /\ \A i \in 0..n : g[i] = IF i = 0 THEN 1 ELSE 2 * g[i - 1]
    BY <2>1 DEF FirstShifts
  <2>3. h \in [0..(n + 1) -> Nat]
    <3>1. ASSUME NEW i \in 0..(n + 1) PROVE h[i] \in Nat
      <4>1. CASE i = n + 1
        <5>1. g[n] \in Nat
          BY <2>2
        <5> QED BY <4>1, <5>1
      <4>2. CASE i \in 0..n
        BY <2>2, <4>2
      <4> QED BY <4>1, <4>2
    <3> QED BY <3>1
  <2>4. ASSUME NEW i \in 0..(n + 1)
        PROVE  h[i] = IF i = 0 THEN 1 ELSE 2 * h[i - 1]
    <3>1. CASE i = n + 1
      <4>1. i # 0 /\ i - 1 = n /\ n \in 0..(n + 1) /\ n # n + 1
        BY <3>1
      <4> QED BY <3>1, <4>1
    <3>2. CASE i = 0
      <4>1. 0 \in 0..n /\ 0 # n + 1
        OBVIOUS
      <4> QED BY <2>2, <3>2, <4>1
    <3>3. CASE i \in 0..n /\ i # 0
      <4>1. i # n + 1 /\ i - 1 # n + 1 /\ i - 1 \in 0..(n + 1)
        BY <3>3
      <4> QED BY <2>2, <3>3, <4>1
    <3> QED BY <3>1, <3>2, <3>3
  <2> HIDE DEF h
  <2>5. h \in FirstShifts(n + 1)
    BY <2>3, <2>4 DEF FirstShifts
  <2> QED BY <2>5
<1> HIDE DEF S
<1>3. \A n \in Nat : n >= 0 => n \in S
  BY <1>1, <1>2, UpwardFrom
<1> QED BY <1>3 DEF S

LEMMA FirstShiftsAgree ==
    ASSUME NEW n \in Nat, NEW m \in Nat, NEW g \in FirstShifts(n), NEW h \in FirstShifts(m)
    PROVE  \A i \in Nat : i <= n /\ i <= m => g[i] = h[i]
<1> DEFINE S == {i \in Nat : i <= n /\ i <= m => g[i] = h[i]}
<1>0. /\ \A i \in 0..n : g[i] = IF i = 0 THEN 1 ELSE 2 * g[i - 1]
      /\ \A i \in 0..m : h[i] = IF i = 0 THEN 1 ELSE 2 * h[i - 1]
  BY DEF FirstShifts
<1>1. 0 \in S
  BY <1>0
<1>2. ASSUME NEW i \in Nat, i \in S PROVE i + 1 \in S
  <2> SUFFICES ASSUME i + 1 <= n, i + 1 <= m PROVE g[i + 1] = h[i + 1]
    OBVIOUS
  <2>1. g[i] = h[i]
    BY <1>2
  <2>2. i + 1 \in 0..n /\ i + 1 \in 0..m /\ i + 1 # 0 /\ (i + 1) - 1 = i
    OBVIOUS
  <2>3. g[i + 1] = 2 * g[i]
    BY <1>0, <2>2
  <2>4. h[i + 1] = 2 * h[i]
    BY <1>0, <2>2
  <2> QED BY <2>1, <2>3, <2>4
<1> HIDE DEF S
<1>3. \A i \in Nat : i >= 0 => i \in S
  BY <1>1, <1>2, UpwardFrom
<1> QED BY <1>3 DEF S

LEMMA ShiftedExists ==
    \E f : f = [n \in Nat |-> IF n = 0 THEN 1 ELSE 2 * f[n - 1]]
<1> DEFINE pick(n) == CHOOSE g : g \in FirstShifts(n)
           f == [n \in Nat |-> pick(n)[n]]
<1>1. ASSUME NEW n \in Nat PROVE pick(n) \in FirstShifts(n)
  BY FirstShiftsExist
<1>2. ASSUME NEW n \in Nat
      PROVE  f[n] = IF n = 0 THEN 1 ELSE 2 * f[n - 1]
  <2> HIDE DEF pick
  <2>1. f[n] = pick(n)[n]
    OBVIOUS
  <2>2. pick(n)[n] = IF n = 0 THEN 1 ELSE 2 * pick(n)[n - 1]
    BY <1>1 DEF FirstShifts
  <2>3. CASE n = 0
    BY <2>1, <2>2, <2>3
  <2>4. CASE n # 0
    <3>1. n - 1 \in Nat /\ n - 1 <= n /\ n - 1 <= n - 1
      BY <2>4
    <3>2. pick(n - 1) \in FirstShifts(n - 1) /\ pick(n) \in FirstShifts(n)
      BY <1>1, <3>1
    <3>3. pick(n)[n - 1] = pick(n - 1)[n - 1]
      BY <3>1, <3>2, FirstShiftsAgree
    <3>4. f[n - 1] = pick(n - 1)[n - 1]
      BY <3>1
    <3> QED BY <2>1, <2>2, <2>4, <3>3, <3>4
  <2> QED BY <2>3, <2>4
<1>3. f = [n \in Nat |-> f[n]]
  OBVIOUS
<1> HIDE DEF f
<1>4. [n \in Nat |-> f[n]] = [n \in Nat |-> IF n = 0 THEN 1 ELSE 2 * f[n - 1]]
  BY <1>2
<1>5. f = [n \in Nat |-> IF n = 0 THEN 1 ELSE 2 * f[n - 1]]
  BY <1>3, <1>4
<1> QED BY <1>5

LEMMA ShiftedStep ==
    /\ Shifted[0] = 1
    /\ \A n \in Nat : Shifted[n + 1] = 2 * Shifted[n]
<1>1. Shifted = [n \in Nat |-> IF n = 0 THEN 1 ELSE 2 * Shifted[n - 1]]
  BY ShiftedExists DEF Shifted
<1>2. \A n \in Nat : Shifted[n] = IF n = 0 THEN 1 ELSE 2 * Shifted[n - 1]
  <2> DEFINE s == Shifted
  <2> HIDE DEF s
  <2>1. s = [n \in Nat |-> IF n = 0 THEN 1 ELSE 2 * s[n - 1]]
    BY <1>1 DEF s
  <2>2. \A n \in Nat : s[n] = IF n = 0 THEN 1 ELSE 2 * s[n - 1]
    BY <2>1
  <2> QED BY <2>2 DEF s
<1>3. ASSUME NEW n \in Nat PROVE Shifted[n + 1] = 2 * Shifted[n]
  <2>1. n + 1 \in Nat /\ n + 1 # 0 /\ (n + 1) - 1 = n
    OBVIOUS
  <2> QED BY <1>2, <2>1
<1> QED BY <1>2, <1>3

LEMMA ShiftedNat == \A n \in Nat : Shifted[n] \in Nat
<1> DEFINE S == {n \in Nat : Shifted[n] \in Nat}
<1>1. 0 \in S
  BY ShiftedStep
<1>2. ASSUME NEW n \in Nat, n \in S PROVE n + 1 \in S
  BY <1>2, ShiftedStep
<1> HIDE DEF S
<1>3. \A n \in Nat : n >= 0 => n \in S
  BY <1>1, <1>2, UpwardFrom
<1> QED BY <1>3 DEF S

LEMMA ShiftedTen == Shifted[10] = 1024
<1>1. Shifted[1] = 2 /\ Shifted[2] = 4 /\ Shifted[3] = 8
  <2>1. Shifted[0 + 1] = 2 * Shifted[0] /\ Shifted[1 + 1] = 2 * Shifted[1]
        /\ Shifted[2 + 1] = 2 * Shifted[2]
    BY ShiftedStep
  <2> QED BY <2>1, ShiftedStep
<1>2. Shifted[4] = 16 /\ Shifted[5] = 32 /\ Shifted[6] = 64
  <2>1. Shifted[3 + 1] = 2 * Shifted[3] /\ Shifted[4 + 1] = 2 * Shifted[4]
        /\ Shifted[5 + 1] = 2 * Shifted[5]
    BY ShiftedStep
  <2> QED BY <1>1, <2>1
<1>3. Shifted[7] = 128 /\ Shifted[8] = 256 /\ Shifted[9] = 512 /\ Shifted[10] = 1024
  <2>1. Shifted[6 + 1] = 2 * Shifted[6] /\ Shifted[7 + 1] = 2 * Shifted[7]
        /\ Shifted[8 + 1] = 2 * Shifted[8] /\ Shifted[9 + 1] = 2 * Shifted[9]
    BY ShiftedStep
  <2> QED BY <1>2, <2>1
<1> QED BY <1>3

LEMMA ShiftedLarge == \A n \in Nat : n >= 10 => Shifted[n] >= 1024
<1> DEFINE S == {n \in Nat : Shifted[n] >= 1024}
<1>1. 10 \in S
  BY ShiftedTen
<1>2. ASSUME NEW n \in Nat, n \in S PROVE n + 1 \in S
  BY <1>2, ShiftedStep, ShiftedNat
<1> HIDE DEF S
<1>3. \A n \in Nat : n >= 10 => n \in S
  BY <1>1, <1>2, UpwardFrom
<1> QED BY <1>3 DEF S

-----------------------------------------------------------------------------
LEMMA SmallerOfTwo ==
    ASSUME NEW a \in Int, NEW b \in Int
    PROVE  Min({a, b}) = IF a <= b THEN a ELSE b
BY DEF Min

(* What MarkFailed waits is what the formula in its comment says: from the *)
(* tenth attempt on the shift has passed the hour anyway.                  *)
LEMMA DelayFormula ==
    ASSUME NEW n \in Nat, NEW after \in Int, NEW jitter \in 0..9
    PROVE  /\ after > 0 => Delay(n, after, jitter) = Min({after, 24 * 3600})
           /\ ~(after > 0) =>
                 Delay(n, after, jitter) - Min({3600, 5 * Shifted[n]}) \in 0..9
<1>1. CASE after > 0
  <2>1. Min({after, 24 * 3600}) = IF after <= 24 * 3600 THEN after ELSE 24 * 3600
    BY SmallerOfTwo
  <2> QED BY <1>1, <2>1 DEF Delay, Capped, maxRetryAfterSeconds
<1>2. CASE ~(after > 0)
  <2> DEFINE s == Shifted[n]
  <2>1. s \in Nat /\ (n >= 10 => s >= 1024)
    BY ShiftedNat, ShiftedLarge
  <2>2. Delay(n, after, jitter) =
          jitter + (IF n >= 10 THEN 3600 ELSE IF 5 * s > 3600 THEN 3600 ELSE 5 * s)
    BY <1>2 DEF Delay, Capped, maxBackoffSeconds
  <2>3. Min({3600, 5 * s}) = IF 3600 <= 5 * s THEN 3600 ELSE 5 * s
    BY <2>1, SmallerOfTwo
  <2> HIDE DEF s
  <2>4. Delay(n, after, jitter) - Min({3600, 5 * s}) = jitter
    BY <2>1, <2>2, <2>3
  <2> QED BY <1>2, <2>4 DEF s
<1> QED BY <1>1, <1>2

LEMMA BackoffStep ==
    ASSUME BackoffMatchesFormula, [Next]_vars
    PROVE  BackoffMatchesFormula'
<1>1. CASE retry' \in {retry, NoRetry}
  BY <1>1 DEF BackoffMatchesFormula
<1>2. ASSUME NEW count \in Counts, NEW after \in RetryAfters, NEW jitter \in Jitters,
             retry' = [attempt |-> Incremented(count), asked |-> after,
                       delay |-> Delay(Incremented(count), after, jitter)]
      PROVE  BackoffMatchesFormula'
  <2>1. Incremented(count) \in Nat
    BY CountIncremented, StoreAssumption
  <2>2. after \in Int /\ jitter \in 0..9
    BY StoreAssumption
  <2>3. PICK n \in Nat : n = Incremented(count)
    BY <2>1
  <2> DEFINE d == Delay(n, after, jitter)
  <2>4. retry'.attempt = n /\ retry'.asked = after /\ retry'.delay = d
    BY <1>2, <2>3
  <2>5. /\ after > 0 => d = Min({after, 24 * 3600})
        /\ ~(after > 0) => d - Min({3600, 5 * Shifted[n]}) \in 0..9
    BY <2>2, <2>3, DelayFormula, SMTT(30)
  <2> HIDE DEF d
  <2> QED BY <2>4, <2>5 DEF BackoffMatchesFormula
<1> QED BY <1>1, <1>2, RetryStep

-----------------------------------------------------------------------------
(* StoreInv is an invariant of every start, failure, crash and repair.     *)
THEOREM StoreInvariant == Spec => []StoreInv
<1>1. StoreInv /\ [Next]_vars => StoreInv'
  BY TypeStep, OneDatabaseStep, IdentityStep, RowStep, TimesStep DEF StoreInv
<1> QED BY <1>1, InvInit, PTL DEF Spec

(* Files, identities, mutex and maintenance task have their types, and the *)
(* task runs exactly while the agent is up and has the mutex exactly while *)
(* it makes a checkpoint (Init, maintenanceTask, Close).                   *)
THEOREM StoreTyped == Spec => []TypeOK
BY StoreInvariant, PTL DEF StoreInv

(* A running agent has the identity in its database, and that one is what  *)
(* its installation was given at first, whatever failed, died or was       *)
(* repaired since, unless a start overlooked a quarantined database        *)
(* (initIdentity, Init's Glob).                                            *)
THEOREM IdentityAlwaysKept == Spec => []IdentityIsKept
<1>1. StoreInv => IdentityIsKept
  <2> SUFFICES ASSUME StoreInv, deviceID # NoId
               PROVE  db.id = deviceID /\ (~overlooked => deviceID = established)
    BY DEF IdentityIsKept
  <2>1. pc \in {"unlink", "migrate", "up", "joining"} /\ db.id = deviceID
    BY DEF StoreInv, Identity
  <2>2. ASSUME ~overlooked PROVE deviceID = established
    <3>1. Kept = db /\ db # NoDb
      BY <2>1, <2>2, KeptInPlace DEF StoreInv, OneDatabase
    <3> QED BY <2>1, <2>2, <3>1 DEF StoreInv, Identity, IdentityKept
  <2> QED BY <2>1, <2>2
<1> QED BY <1>1, StoreInvariant, PTL

(* Every committed row is in the database or in a quarantined one until the*)
(* operator gives that up, wherever a crash or a failed rename left        *)
(* degradeStorage; and it takes a start that overlooks the quarantined     *)
(* database to run beside it or to lose a log that stayed behind.          *)
THEOREM NothingEverReplaced == Spec => []NothingIsReplaced
<1>1. StoreInv => NothingIsReplaced
  BY DEF StoreInv, OneDatabase, RowsKept, NothingIsReplaced
<1> QED BY <1>1, StoreInvariant, PTL

(* A migrated row is due when it was due before, for every zone and every  *)
(* clock reading (migrateRetryTimestamps, MarkFailed), while no start has  *)
(* overlooked a database that has the row too.                             *)
THEOREM RetryTimesAlwaysKept == Spec => []RetryTimesAreKept
<1>1. StoreInv => RetryTimesAreKept
  <2> SUFFICES ASSUME StoreInv, ~overlooked, NEW d \in Databases, NEW r \in stored,
                      d.next[r].form = "canonical"
               PROVE  d.next[r].clock = promise[r]
    BY DEF RetryTimesAreKept
  <2>1. d = Kept
    BY OnlyKept DEF StoreInv
  <2> QED BY <2>1 DEF StoreInv, TimesKept, Due
<1> QED BY <1>1, StoreInvariant, PTL

(* The wait doubles from ten seconds to an hour and has at most nine more, *)
(* or is what the server asked for, up to a day: the saturation of         *)
(* MarkFailed changes no wait, for any attempt that an int of any width    *)
(* can count.                                                              *)
THEOREM BackoffAlwaysMatches == Spec => []BackoffMatchesFormula
<1>1. Init => BackoffMatchesFormula
  BY DEF Init, BackoffMatchesFormula
<1>2. BackoffMatchesFormula /\ [Next]_vars => BackoffMatchesFormula'
  BY BackoffStep
<1> QED BY <1>1, <1>2, PTL DEF Spec
=============================================================================
