--------------------------- MODULE StoreLifecycle ---------------------------
(***************************************************************************)
(* The life of the agent's database from one start to the next             *)
(* (agent/internal/storage/sqlite.go): Init with its checks, the quarantine*)
(* of a database it cannot use, the device identity and its migration from *)
(* the legacy file, the migration of retry times, the retry times that     *)
(* MarkFailed computes, the maintenance task, and Close.  What happens to  *)
(* rows while the agent is up is in EventStore.                            *)
(*                                                                         *)
(* The process may die between any two steps, every file operation and     *)
(* transaction may fail, a commit may be applied and reported as failed,   *)
(* and the file may become corrupt.  An operator acts on a quarantined     *)
(* database while the agent is down.  A start that Init refuses ends the   *)
(* process (main: log.Fatalf), and so is a step back to "down".            *)
(*                                                                         *)
(* A database is two files: what is committed may be in the write-ahead log*)
(* only, until a checkpoint.  db and the members of quarantine are what the*)
(* two hold together; wal says that the log in place matters.              *)
(***************************************************************************)
EXTENDS Integers, FiniteSets, FiniteSetsExt

CONSTANTS
    Rows,           \* event ids with a row in the old database or a new one
    NoDb,           \* no such file
    OldTables,      \* retry times of the rows that an older version has left
    MigrateLimit,   \* rows migrated per start (1000 in the code)
    IntMax,         \* largest int (2^63 - 1 in the code)
    Counts,         \* attempt_count values that earlier failures have left
    RetryAfters,    \* what the server may ask for; 0 is nothing
    Jitters,        \* last digits of the clock
    MaxIds          \* bound: generated device ids

(* Device ids: none, the one of the legacy file, one that an older version *)
(* left in the database; the generated ones are 1..MaxIds.                 *)
NoId   == 0
Legacy == -1
First  == -2
DeviceId == {NoId, Legacy, First} \cup 1..MaxIds

(* A retry time as text: a clock reading and the zone it was taken in.     *)
(* Canonical texts are UTC and have the length that CURRENT_TIMESTAMP has; *)
(* unreadable ones are garbled.  A database: its device id, whether it is  *)
(* sound, and the retry times of its rows.                                 *)
Text     == [form : {"no row", "null", "canonical", "legacy", "garbled"},
             clock : Int, zone : Int]
Database == [id : DeviceId, sound : BOOLEAN, next : [Rows -> Text]]

ASSUME StoreAssumption ==
    /\ IsFiniteSet(Rows) /\ MigrateLimit \in Nat \ {0}
    /\ IntMax \in Nat /\ IntMax >= 10 /\ MaxIds \in Nat
    /\ Counts \subseteq 0..IntMax /\ RetryAfters \subseteq Int /\ Jitters \subseteq 0..9
    /\ NoDb \notin Database
    /\ OldTables \subseteq [Rows -> {text \in Text : text.form \in {"legacy", "garbled"}}]

VARIABLES
    pc,             \* of Init and Close; "up" in between, "down" without a process
    db, quarantine, \* the database in place, and those moved to .corrupt.*
    wal,            \* the log in place has what no checkpoint has written yet
    idFile,         \* the legacy identity file: absent, valid, empty, unreadable
    chosen,         \* deviceID in initIdentity's transaction
    deviceID,       \* SQLiteStorage.deviceID
    mu, maintenance,\* the mutex, and the goroutine of the maintenance task
    minted,         \* device ids generated so far
    established,    \* ghost: the identity this installation has
    stored,         \* ghost: rows that must still be there
    promise,        \* ghost: when each row is to be retried
    retry,          \* ghost: the failure that the last step recorded, if it did
    overlooked,     \* ghost: a start did not see a quarantined database
    lostLog         \* ghost: SQLite has deleted a log that mattered

disk   == <<db, quarantine, idFile>>
logs   == <<wal, overlooked, lostLog>>
ids    == <<chosen, deviceID, minted>>
locks  == <<mu, maintenance>>
ghosts == <<established, stored, promise>>
vars   == <<pc, disk, logs, ids, locks, ghosts, retry>>

Null          == [form |-> "null", clock |-> 0, zone |-> 0]
Canonical(at) == [form |-> "canonical", clock |-> at, zone |-> 0]
Past          == 0              \* an hour ago, or any time that has come

NoRow  == [form |-> "no row", clock |-> 0, zone |-> 0]
Fresh  == [id |-> NoId, sound |-> TRUE, next |-> [r \in Rows |-> NoRow]]
NoRetry == [attempt |-> 0, asked |-> 0, delay |-> 0]

Instant(text) == IF text.form = "garbled" THEN Past ELSE text.clock - text.zone

(* A first start, or one after an older version that kept the identity in  *)
(* its file or already in the database.                                    *)
Init ==
    /\ pc = "down" /\ quarantine = {}
    /\ idFile \in {"absent", "valid", "empty", "unreadable"}
    /\ \/ db = NoDb /\ promise = [r \in Rows |-> Past]
       \/ \E text \in OldTables :
             /\ db = [id |-> First, sound |-> TRUE, next |-> text]
             /\ promise = [r \in Rows |-> Instant(text[r])]
    /\ wal \in {FALSE, db # NoDb} /\ overlooked = FALSE /\ lostLog = FALSE
    /\ chosen = NoId /\ deviceID = NoId /\ minted = 0
    /\ mu = "free" /\ maintenance = "off"
    /\ established = IF db # NoDb THEN First ELSE IF idFile = "valid" THEN Legacy ELSE NoId
    /\ stored = IF db # NoDb THEN Rows ELSE {}
    /\ retry = NoRetry

-----------------------------------------------------------------------------
(* Init: the directory, and nothing at all while there is a quarantined    *)
(* database.  Glob looks for one, reports no directory that it cannot read,*)
(* and its error is discarded: a start may overlook what is there (bound:  *)
(* once).                                                                  *)
Start ==
    /\ pc = "down"
    /\ \/ quarantine = {} /\ UNCHANGED overlooked
       \/ quarantine # {} /\ ~overlooked /\ overlooked' = TRUE
    /\ pc' = "open"
    /\ UNCHANGED <<disk, wal, lostLog, ids, locks, ghosts>>

(* The first PRAGMA opens the file and creates it where there is none; then*)
(* SQLite deletes the log that it finds there.  Any PRAGMA may fail, also  *)
(* on a sound database (it may be locked: the busy timeout is set last).   *)
Open ==
    /\ pc = "open"
    /\ \/ /\ db' = IF db = NoDb THEN Fresh ELSE db
          /\ wal' = (wal /\ db # NoDb)
          /\ lostLog' = (lostLog \/ (wal /\ db = NoDb))
       \/ UNCHANGED <<db, wal, lostLog>>
    /\ pc' \in (IF db' = NoDb THEN {"degrade"} ELSE {"check", "degrade"})
    /\ UNCHANGED <<quarantine, idFile, overlooked, ids, locks, ghosts>>

(* PRAGMA integrity_check, then the schema.                                *)
IntegrityCheck ==
    /\ pc = "check"
    /\ \/ db.sound /\ pc' \in {"identity", "down"}
       \/ pc' = "degrade"
    /\ UNCHANGED <<disk, logs, ids, locks, ghosts>>

(* degradeStorage.  db.Close may write the log back before.  The database  *)
(* is renamed; that there is none is no error, any other failure ends Init.*)
M_RemoveDb ==
    /\ pc = "degrade"
    /\ db' = NoDb /\ wal' = FALSE
    /\ pc' = "down"
    /\ UNCHANGED <<quarantine, idFile, overlooked, lostLog, ids, locks, ghosts>>

degradeStorage ==
    /\ pc = "degrade"
    /\ wal' \in (IF db = NoDb THEN {wal} ELSE {wal, FALSE})
    /\ \/ /\ quarantine' = quarantine \cup ({db} \ {NoDb}) /\ db' = NoDb
          /\ pc' = "rename log"
       \/ pc' = "down" /\ UNCHANGED <<db, quarantine>>
    /\ UNCHANGED <<idFile, overlooked, lostLog, ids, locks, ghosts>>

(* Then its log, which stays behind if that fails, or if the process dies  *)
(* between the two.  The shared-memory file, renamed last, holds nothing   *)
(* that SQLite could not build again.                                      *)
RenameLog ==
    /\ pc = "rename log"
    /\ wal' \in {wal, FALSE}
    /\ pc' = "down"
    /\ UNCHANGED <<disk, overlooked, lostLog, ids, locks, ghosts>>

-----------------------------------------------------------------------------
(* initIdentity.  In its transaction: the id of the database; without one  *)
(* that of the legacy file (migrateOrGenerateID), and without that a new   *)
(* one.  A file that cannot be read or parsed is an error.                 *)
M_ChooseId ==
    /\ pc = "identity"
    /\ \/ idFile = "valid" /\ chosen' = Legacy /\ UNCHANGED minted
       \/ idFile # "valid" /\ db.id # NoId /\ chosen' = db.id /\ UNCHANGED minted
       \/ /\ idFile \in {"absent", "empty"} /\ db.id = NoId
          /\ minted < MaxIds
          /\ minted' = minted + 1 /\ chosen' = minted + 1
    /\ pc' = "commit"
    /\ UNCHANGED <<disk, logs, deviceID, locks, ghosts>>

ChooseId ==
    /\ pc = "identity"
    /\ \/ db.id # NoId /\ chosen' = db.id /\ UNCHANGED minted /\ pc' = "commit"
       \/ db.id = NoId /\ idFile = "valid" /\ chosen' = Legacy /\ UNCHANGED minted /\ pc' = "commit"
       \/ /\ db.id = NoId /\ idFile \in {"absent", "empty"}
          /\ minted < MaxIds
          /\ minted' = minted + 1 /\ chosen' = minted + 1 /\ pc' = "commit"
       \/ pc' = "down" /\ UNCHANGED <<chosen, minted>>
    /\ UNCHANGED <<disk, logs, deviceID, locks, ghosts>>

(* A commit is in the log, unless SQLite writes it back at once.           *)
Logged == wal' \in BOOLEAN /\ UNCHANGED <<overlooked, lostLog>>

(* The commit; Init fails also when an applied commit is reported as one   *)
(* that failed.                                                            *)
CommitId ==
    /\ pc = "commit"
    /\ \/ /\ db' = [db EXCEPT !.id = chosen]
          /\ established' = IF established = NoId THEN chosen ELSE established
          /\ Logged
          /\ \/ pc' = "unlink" /\ deviceID' = chosen
             \/ pc' = "down" /\ UNCHANGED deviceID
       \/ pc' = "down" /\ UNCHANGED <<db, logs, deviceID, established>>
    /\ chosen' = NoId
    /\ UNCHANGED <<quarantine, idFile, minted, locks, stored, promise>>

(* The legacy file is removed; if that fails it is only logged.            *)
RemoveIdFile ==
    /\ pc = "unlink"
    /\ idFile' \in {idFile, "absent"}
    /\ pc' = "migrate"
    /\ UNCHANGED <<db, quarantine, logs, ids, locks, ghosts>>

-----------------------------------------------------------------------------
(* parseRetryTimestamp; what cannot be parsed becomes due at once.         *)
M_Migrated(text) ==
    Canonical(IF text.form = "garbled" THEN Past ELSE text.clock)

Migrated(text) ==
    Canonical(IF text.form = "garbled" THEN Past ELSE text.clock - text.zone)

(* migrateRetryTimestamps: one transaction for some rows that are not      *)
(* canonical; its failure is only logged.  Then the maintenance task       *)
(* starts, and Init is done.                                               *)
migrateRetryTimestamps ==
    /\ pc = "migrate"
    /\ LET legacy == {r \in Rows : db.next[r].form \in {"legacy", "garbled"}}
           batch  == IF Cardinality(legacy) < MigrateLimit THEN Cardinality(legacy) ELSE MigrateLimit
       IN  \/ \E R \in kSubset(batch, legacy) :
                 db' = [db EXCEPT !.next = [r \in Rows |->
                            IF r \in R THEN Migrated(@[r]) ELSE @[r]]]
           \/ UNCHANGED db
    /\ Logged
    /\ pc' = "up"
    /\ maintenance' = "idle"
    /\ UNCHANGED <<quarantine, idFile, ids, mu, ghosts>>

-----------------------------------------------------------------------------
(* Up.  Store adds a row without a retry time.                             *)
Store(r) ==
    /\ pc = "up" /\ mu = "free"
    /\ db.next[r] = NoRow
    /\ db' = [db EXCEPT !.next[r] = Null]
    /\ Logged
    /\ stored' = stored \cup {r} /\ promise' = [promise EXCEPT ![r] = Past]
    /\ UNCHANGED <<pc, quarantine, idFile, ids, locks, established>>

(* The attempt counter is an int and starts again at 1 when it overflows.  *)
Incremented(n) == IF n = IntMax THEN 1 ELSE n + 1

(* MarkFailed: the wait in seconds before the next attempt.  jitter is the *)
(* last digit of the clock.                                                *)
maxBackoffSeconds    == 3600
maxRetryAfterSeconds == 86400

Capped(n, cap) == IF n > cap THEN cap ELSE n

(* 1 << n, in an int that is wide enough: each place doubles it.           *)
Shifted[n \in Nat] == IF n = 0 THEN 1 ELSE 2 * Shifted[n - 1]

M_Delay(attempt, retryAfter, jitter) ==
    IF retryAfter > 0
    THEN Capped(retryAfter, maxRetryAfterSeconds)
    ELSE jitter + (IF attempt >= 9 THEN maxBackoffSeconds
                   ELSE Capped(5 * Shifted[attempt], maxBackoffSeconds))

Delay(attempt, retryAfter, jitter) ==
    IF retryAfter > 0
    THEN Capped(retryAfter, maxRetryAfterSeconds)
    ELSE jitter + (IF attempt >= 10 THEN maxBackoffSeconds
                   ELSE Capped(5 * Shifted[attempt], maxBackoffSeconds))

(* The row has failed any number of times before: attempt_count is as large*)
(* as an int can be.  Its new retry time is canonical.                     *)
MarkFailed(r) ==
    /\ pc = "up" /\ mu = "free"
    /\ db.next[r] # NoRow
    /\ \E count \in Counts, after \in RetryAfters, jitter \in Jitters :
          LET attempt == Incremented(count)
          IN  retry' = [attempt |-> attempt, asked |-> after,
                        delay |-> Delay(attempt, after, jitter)]
    /\ db' = [db EXCEPT !.next[r] = Canonical(1)]
    /\ Logged
    /\ promise' = [promise EXCEPT ![r] = 1]
    /\ UNCHANGED <<pc, quarantine, idFile, ids, locks, established, stored>>

-----------------------------------------------------------------------------
(* Another method takes the mutex and gives it back.                       *)
CallerLocks ==
    /\ pc = "up" /\ mu = "free"
    /\ mu' = "caller"
    /\ UNCHANGED <<pc, disk, logs, ids, maintenance, ghosts>>

CallerUnlocks ==
    /\ mu = "caller"
    /\ mu' = "free"
    /\ UNCHANGED <<pc, disk, logs, ids, maintenance, ghosts>>

(* maintenanceTask: at each tick a checkpoint under the mutex.             *)
Tick ==
    /\ maintenance = "idle"
    /\ maintenance' = "waiting"
    /\ UNCHANGED <<pc, disk, logs, ids, mu, ghosts>>

M_CheckpointStarts ==
    /\ maintenance = "waiting"
    /\ maintenance' = "working"
    /\ UNCHANGED <<pc, disk, logs, ids, mu, ghosts>>

CheckpointStarts ==
    /\ maintenance = "waiting" /\ mu = "free"
    /\ maintenance' = "working" /\ mu' = "maintenance"
    /\ UNCHANGED <<pc, disk, logs, ids, ghosts>>

CheckpointEnds ==
    /\ maintenance = "working"
    /\ maintenance' = "idle" /\ mu' = "free"
    /\ wal' \in {wal, FALSE}
    /\ UNCHANGED <<pc, disk, overlooked, lostLog, ids, ghosts>>

(* select {ctx.Done, ticker.C}                                             *)
MaintenanceEnds ==
    /\ maintenance = "idle" /\ pc = "joining"
    /\ maintenance' = "ended"
    /\ UNCHANGED <<pc, disk, logs, ids, mu, ghosts>>

(* Close: cancel the task, wait for it, take the mutex, close the database.*)
M_Close ==
    /\ pc = "up" /\ mu = "free"
    /\ pc' = "joining" /\ mu' = "close"
    /\ UNCHANGED <<disk, logs, ids, maintenance, ghosts>>

Close ==
    /\ pc = "up"
    /\ pc' = "joining"
    /\ UNCHANGED <<disk, logs, ids, locks, ghosts>>

Off ==
    /\ pc' = "down"
    /\ chosen' = NoId /\ deviceID' = NoId
    /\ mu' = "free" /\ maintenance' = "off"
    /\ UNCHANGED <<disk, overlooked, lostLog, minted, established, stored, promise>>

CloseDb ==
    /\ pc = "joining" /\ maintenance = "ended" /\ mu \in {"free", "close"}
    /\ wal' \in {wal, FALSE}
    /\ Off

-----------------------------------------------------------------------------
(* The process dies, the file becomes corrupt (external).                  *)
Crash ==
    /\ pc # "down"
    /\ UNCHANGED wal
    /\ Off

Corrupt ==
    /\ db # NoDb /\ db.sound
    /\ db' = [db EXCEPT !.sound = FALSE]
    /\ UNCHANGED <<pc, quarantine, idFile, logs, ids, locks, ghosts>>

(* The operator (external) puts a repaired database back, with its log, or *)
(* gives it up with what is left of it, and removes an identity file that  *)
(* keeps the agent from starting.                                          *)
Databases == (quarantine \cup {db}) \ {NoDb}

Repair ==
    /\ pc = "down" /\ db = NoDb
    /\ \E q \in quarantine :
          db' = [q EXCEPT !.sound = TRUE] /\ quarantine' = quarantine \ {q}
    /\ wal' \in {wal, TRUE}
    /\ UNCHANGED <<pc, idFile, overlooked, lostLog, ids, locks, ghosts>>

GiveUp ==
    /\ pc = "down"
    /\ \E q \in quarantine :
          /\ quarantine' = quarantine \ {q}
          /\ stored' = {r \in stored : \E d \in Databases \ {q} : d.next[r] # NoRow}
          /\ established' = IF Databases \ {q} # {} THEN established
                            ELSE IF idFile = "valid" THEN Legacy ELSE NoId
    /\ wal' = (wal /\ db # NoDb)
    /\ UNCHANGED <<pc, db, idFile, overlooked, lostLog, ids, locks, promise>>

RemoveBadFile ==
    /\ pc = "down" /\ idFile = "unreadable"
    /\ idFile' = "absent"
    /\ UNCHANGED <<pc, db, quarantine, logs, ids, locks, ghosts>>

-----------------------------------------------------------------------------
Starting    == Start \/ Open \/ IntegrityCheck \/ degradeStorage \/ RenameLog
                \/ ChooseId \/ CommitId \/ RemoveIdFile \/ migrateRetryTimestamps
Maintenance == Tick \/ CheckpointStarts \/ CheckpointEnds \/ MaintenanceEnds
Operator    == Repair \/ GiveUp \/ RemoveBadFile

(* Every step but MarkFailed.                                              *)
Other ==
    \/ Starting \/ Maintenance \/ Operator
    \/ \E r \in Rows : Store(r)
    \/ CallerLocks \/ CallerUnlocks
    \/ Close \/ CloseDb \/ Crash \/ Corrupt

Plain(action) == action /\ retry' = NoRetry

Next ==
    \/ Plain(Other)
    \/ \E r \in Rows : MarkFailed(r)

Spec == Init /\ [][Next]_vars

(* Whoever holds the mutex gives it back, the maintenance goroutine runs   *)
(* and its select takes ctx.Done at last; Close goes on.                   *)
Fairness ==
    /\ WF_vars(Plain(CallerUnlocks)) /\ WF_vars(Plain(CheckpointEnds))
    /\ SF_vars(Plain(CheckpointStarts)) /\ SF_vars(Plain(MaintenanceEnds))
    /\ SF_vars(Plain(CloseDb))

FairSpec == Spec /\ Fairness

-----------------------------------------------------------------------------
TypeOK ==
    /\ pc \in {"down", "open", "check", "degrade", "rename log", "identity", "commit", "unlink",
               "migrate", "up", "joining"}
    /\ idFile \in {"absent", "valid", "empty", "unreadable"}
    /\ mu \in {"free", "caller", "maintenance", "close"}
    /\ maintenance \in {"off", "idle", "waiting", "working", "ended"}
    /\ (maintenance = "working") <=> (mu = "maintenance")
    /\ (maintenance = "off") <=> (pc \notin {"up", "joining"})
    /\ db \in Database \cup {NoDb} /\ quarantine \subseteq Database
    /\ {wal, overlooked, lostLog} \subseteq BOOLEAN
    /\ {chosen, deviceID, established} \subseteq DeviceId
    /\ minted \in 0..MaxIds
    /\ stored \subseteq Rows /\ promise \in [Rows -> Int]
    /\ retry.attempt \in 0..IntMax

(* The device keeps its identity: whatever fails or dies on the way, a     *)
(* running agent has the id in its database, which is the id that it was   *)
(* given at first, taken from the legacy file if there was one.  Only      *)
(* giving up a quarantined database ends it, or a start that overlooks one *)
(* (initIdentity, migrateOrGenerateID, Init's Glob).                       *)
IdentityIsKept ==
    deviceID # NoId =>
        /\ db.id = deviceID
        /\ ~overlooked => deviceID = established

(* No database is replaced: the rows that were committed are in the one in *)
(* place or in a quarantined one until the operator gives that up, however *)
(* many of degradeStorage's renames were made.  That the agent runs beside *)
(* a quarantined database, or that a log left behind by the renames is     *)
(* deleted with the rows in it, takes a start that overlooks the database: *)
(* the guard of Init is the only thing that prevents it.                   *)
NothingIsReplaced ==
    /\ \A r \in stored : \E d \in Databases : d.next[r] # NoRow
    /\ pc \notin {"down", "rename log"} /\ quarantine # {} => overlooked
    /\ lostLog => overlooked

(* A migrated row is due when it was due before, whatever zone its time was*)
(* written in; one that cannot be read is due at once (unless two databases*)
(* have the row, because a start overlooked one).                          *)
RetryTimesAreKept ==
    ~overlooked => \A d \in Databases, r \in stored :
        d.next[r].form = "canonical" => d.next[r].clock = promise[r]

(* The wait doubles from ten seconds to an hour and has at most nine more, *)
(* or is what the server asked for, up to a day, for every attempt that    *)
(* an int can count.                                                       *)
BackoffMatchesFormula ==
    retry # NoRetry =>
        IF retry.asked > 0
        THEN retry.delay = Min({retry.asked, 24 * 3600})
        ELSE retry.delay - Min({3600, 5 * Shifted[retry.attempt]}) \in 0..9

(* Close returns: the maintenance task can take the mutex it waits for and *)
(* sees that it is cancelled.                                              *)
CloseReturns == pc = "joining" ~> pc = "down"
=============================================================================
