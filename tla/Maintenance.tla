---------------------------- MODULE Maintenance ----------------------------
(***************************************************************************)
(* The scheduler's maintenance jobs: the nightly backup with its retention *)
(* (maintenance/backup.py), the disk check (inbox/disk_check.py) and the   *)
(* weekly VACUUM (maintenance/vacuum.py), on a disk of limited size that   *)
(* the ingestion fills.  A job holds the event loop from one await to the  *)
(* next; the bootstrap script writes the same database from outside, a     *)
(* crash or a fault comes at any step, and midnight at any time.           *)
(***************************************************************************)
EXTENDS Integers, FiniteSets

CONSTANTS
    Retain,     \* backup.retain_days
    PerDay,     \* the names _build_filename tries for one date stamp
    Manual,     \* the operator's own files in backups_dir
    Capacity,   \* the disk, in units: an archive is one, data the rest
    Warn,       \* health.disk_warn_pct, in units
    Critical,   \* health.disk_critical_pct, in units
    MaxDay,     \* bound on the days of a behaviour
    MaxScript,  \* bound on the commits of the bootstrap script
    MaxCopies,  \* bound on the archives the operator brings back
    MaxFaults   \* bound on crashes and faults

ASSUME MaintenanceAssumption ==
    /\ {Retain, PerDay} \subseteq Nat \ {0}
    /\ {Capacity, Warn, Critical, MaxDay, MaxScript, MaxCopies, MaxFaults} \subseteq Nat
    /\ IsFiniteSet(Manual)

Days == 0..MaxDay
Archives == Days \X (1..PerDay)  \* date stamp and -N suffix
Files == Archives \cup Manual
NoFile == <<>>

ASSUME NamesDiffer == Manual \cap Archives = {} /\ NoFile \notin Files

VARIABLES
    day,       \* date.today()
    ticked,    \* did the backup's cron tick of that day pass
    dir,       \* durable: what each name of backups_dir holds
    data,      \* durable: the units that database and pictures take
    started,   \* the WAL is checkpointed in full: its next writer starts it over
    logged,    \* durable: the archives with a nightly_backup audit row
    up,        \* is the process up
    job,       \* the job that holds the event loop
    pc,        \* the next step of that job
    file,      \* the archive of the backup under way
    copy,      \* the copy of clawbot.db in it, against the live WAL
    pending,   \* the expired files it has not unlinked yet
    alert,     \* the disk check: "none", or the level it waits to post
    newest,    \* history: the last archive completed
    excused,   \* history: the days whose backup was missed or failed
    scripted,  \* history: commits of the script
    brought,   \* history: the archives brought back
    faults     \* history: crashes and faults

disk == <<dir, data>>
backup == <<file, copy, pending>>
loop == <<up, job, pc>>
clock == <<day, ticked>>
bounds == <<scripted, brought, faults>>
vars == <<clock, disk, started, logged, loop, backup, alert, newest, excused, bounds>>

Complete == {"whole", "torn"}
Content == {"none", "empty", "truncated"} \cup Complete

Init ==
    /\ day = 0 /\ ticked = FALSE
    /\ dir = [n \in Files |-> IF n \in Manual THEN "whole" ELSE "none"] /\ data = 0
    /\ started = FALSE /\ logged = {}
    /\ up = TRUE /\ job = "none" /\ pc = "idle"
    /\ file = NoFile /\ copy = "none" /\ pending = {}
    /\ alert = "none"
    /\ newest = NoFile /\ excused = {}
    /\ scripted = 0 /\ brought = {} /\ faults = 0

----------------------------------------------------------------------------
(* The disk and the database. *)

Used == data + Cardinality({n \in Files : dir[n] \notin {"none", "empty"}})
HasRoom == Used < Capacity

Free == up /\ job = "none"
Running(j, step) == up /\ job = j /\ pc = step
Goto(step) == pc' = step /\ UNCHANGED <<up, job>>
Begin(j, step) == job' = j /\ pc' = step /\ UNCHANGED up
End == job' = "none" /\ pc' = "idle" /\ UNCHANGED up

(* Mutant: the WAL starts over as soon as it is checkpointed. *)
MutCommit ==
    /\ started' \in BOOLEAN
    /\ copy' = IF pc = "wal" /\ started' THEN "lost" ELSE copy

(* A commit appends to the WAL.  Past 1000 pages it is checkpointed into   *)
(* clawbot.db, and the next commit overwrites it from the start: what the  *)
(* copied clawbot.db lacked is then in neither of the two files.           *)
Commit ==
    /\ started' \in BOOLEAN
    /\ copy' = IF pc # "wal" \/ copy = "lost" THEN copy
               ELSE IF started /\ copy = "behind" THEN "lost"
               ELSE IF started' THEN "behind" ELSE copy

(* The bootstrap script: its profile update and its audit row are commits. *)
ScriptCommits ==
    /\ scripted < MaxScript /\ scripted' = scripted + 1
    /\ Commit
    /\ UNCHANGED <<clock, disk, logged, loop, file, pending, alert, newest,
                   excused, brought, faults>>

(* Sweeps and commands: while a picture is ingested the loop is blocked.   *)
Ingest ==
    /\ Free /\ Begin("ingest", "ingest")
    /\ UNCHANGED <<clock, disk, started, logged, backup, alert, newest, excused, bounds>>

Ingested ==
    /\ Running("ingest", "ingest") /\ End
    /\ data' \in {data} \cup (IF HasRoom THEN {data + 1} ELSE {})
    /\ Commit
    /\ UNCHANGED <<clock, dir, logged, file, pending, alert, newest, excused, bounds>>

----------------------------------------------------------------------------
(* The clock and the scheduler. *)

(* A backup is shorter than its retention: docs and defaults say days.     *)
NextDay ==
    /\ day < MaxDay /\ ticked
    /\ job = "backup" => day < file[1] + Retain
    /\ day' = day + 1 /\ ticked' = FALSE
    /\ UNCHANGED <<disk, started, logged, loop, backup, alert, newest, excused, bounds>>

(* No process, or a loop that is busy for longer than misfire_grace_time:  *)
(* the run is skipped, and nothing makes up for it.                        *)
Misfire ==
    /\ ~ticked /\ ~Free
    /\ ticked' = TRUE
    /\ excused' = excused \cup {day}
    /\ UNCHANGED <<day, disk, started, logged, loop, backup, alert, newest, bounds>>

----------------------------------------------------------------------------
(* nightly_backup. *)

(* create_backup opens the first free name of the day, the final one.      *)
OpenArchive ==
    /\ ~ticked /\ Free
    /\ \E i \in 1..PerDay :
        /\ dir[<<day, i>>] = "none"
        /\ \A j \in 1..(i - 1) : dir[<<day, j>>] # "none"
        /\ file' = <<day, i>>
        /\ dir' = [dir EXCEPT ![<<day, i>>] = "empty"]
    /\ ticked' = TRUE
    /\ Begin("backup", "db")
    /\ UNCHANGED <<day, data, started, logged, copy, pending, alert, newest,
                   excused, bounds>>

(* Mutant: create_backup swallows what goes wrong and retention goes on. *)
MutCopyDb ==
    /\ Running("backup", "db")
    /\ dir' = IF HasRoom THEN [dir EXCEPT ![file] = "truncated"] ELSE dir
    /\ copy' = IF HasRoom THEN "fresh" ELSE copy
    /\ Goto(IF HasRoom THEN "wal" ELSE "list")
    /\ UNCHANGED <<clock, data, started, logged, file, pending, alert, newest,
                   excused, bounds>>

(* _walk is sorted: clawbot.db comes before clawbot.db-wal. *)
CopyDb ==
    /\ Running("backup", "db") /\ HasRoom
    /\ dir' = [dir EXCEPT ![file] = "truncated"]
    /\ copy' = "fresh"
    /\ Goto("wal")
    /\ UNCHANGED <<clock, data, started, logged, file, pending, alert, newest,
                   excused, bounds>>

CloseArchive ==
    /\ Running("backup", "wal")
    /\ dir' = [dir EXCEPT ![file] = IF copy = "lost" THEN "torn" ELSE "whole"]
    /\ newest' = file
    /\ copy' = "none"
    /\ Goto("list")
    /\ UNCHANGED <<clock, data, started, logged, file, pending, alert, excused, bounds>>

(* Mutant: stamp <= cutoff, the last day of the window goes as well. *)
MutBeginPrune ==
    /\ Running("backup", "list")
    /\ pending' = {n \in Archives : dir[n] # "none" /\ n[1] <= day - Retain}
    /\ Goto("prune")
    /\ UNCHANGED <<clock, disk, started, logged, file, copy, alert, newest, excused, bounds>>

(* prune_old_backups asks for the date once more, then lists the directory. *)
BeginPrune ==
    /\ Running("backup", "list")
    /\ pending' = {n \in Archives : dir[n] # "none" /\ n[1] < day - Retain}
    /\ Goto("prune")
    /\ UNCHANGED <<clock, disk, started, logged, file, copy, alert, newest, excused, bounds>>

(* Mutant: retention drops one archive per tick. *)
MutUnlink(n) ==
    /\ Running("backup", "prune") /\ n \in pending
    /\ dir' = [dir EXCEPT ![n] = "none"]
    /\ pending' = {}
    /\ Goto("prune")
    /\ UNCHANGED <<clock, data, started, logged, file, copy, alert, newest,
                   excused, bounds>>

Unlink(n) ==
    /\ Running("backup", "prune") /\ n \in pending
    /\ dir' = [dir EXCEPT ![n] = "none"]
    /\ pending' = pending \ {n}
    /\ Goto("prune")
    /\ UNCHANGED <<clock, data, started, logged, file, copy, alert, newest,
                   excused, bounds>>

EndPrune ==
    /\ Running("backup", "prune") /\ pending = {}
    /\ Goto("audit")
    /\ UNCHANGED <<clock, disk, started, logged, backup, alert, newest, excused, bounds>>

AuditBackup ==
    /\ Running("backup", "audit") /\ End
    /\ logged' = logged \cup {file}
    /\ Commit
    /\ file' = NoFile
    /\ UNCHANGED <<clock, disk, pending, alert, newest, excused, bounds>>

(* Mutant: the audit row is written in a finally clause. *)
MutBackupRaises ==
    /\ End
    /\ logged' = logged \cup {file}
    /\ file' = NoFile /\ copy' = "none" /\ pending' = {}
    /\ excused' = excused \cup {file[1]}
    /\ UNCHANGED <<clock, disk, started, alert, newest, scripted, brought>>

(* An exception leaves the job, and the scheduler logs it: the archive stays *)
(* as it is, whatever comes after it in the job is left out.               *)
BackupRaises ==
    /\ End
    /\ file' = NoFile /\ copy' = "none" /\ pending' = {}
    /\ excused' = excused \cup {file[1]}
    /\ UNCHANGED <<clock, disk, started, logged, alert, newest, scripted, brought>>

(* On a full disk nothing is archived, and an audit row may not fit either. *)
NoSpace ==
    /\ Running("backup", "db") \/ Running("backup", "audit")
    /\ ~HasRoom
    /\ BackupRaises
    /\ UNCHANGED faults

BackupStep ==
    \/ CopyDb \/ CloseArchive \/ BeginPrune
    \/ \E n \in Archives : Unlink(n)
    \/ EndPrune \/ AuditBackup \/ NoSpace

----------------------------------------------------------------------------
(* disk_check and db_vacuum. *)

(* Mutant: the warning threshold is looked at first. *)
MutLevel == IF Used >= Warn THEN "warn" ELSE IF Used >= Critical THEN "critical" ELSE "none"

(* check_disk: the critical threshold first, each from its value on.       *)
Level == IF Used >= Critical THEN "critical" ELSE IF Used >= Warn THEN "warn" ELSE "none"

(* handle_disk_check up to its await; it says nothing when all is well.    *)
CheckDisk ==
    /\ Free /\ alert = "none" /\ Level # "none"
    /\ alert' = Level
    /\ UNCHANGED <<clock, disk, started, logged, loop, backup, newest, excused, bounds>>

(* The notifier posts or drops the message, and never raises. *)
PostAlert ==
    /\ Free /\ alert # "none"
    /\ Begin("disk", "audit")
    /\ UNCHANGED <<clock, disk, started, logged, backup, alert, newest, excused, bounds>>

AuditAlert ==
    /\ Running("disk", "audit") /\ End
    /\ alert' = "none"
    /\ Commit
    /\ UNCHANGED <<clock, disk, logged, file, pending, newest, excused, bounds>>

(* Mutant: every VACUUM counts as one that reclaimed something. *)
MutRunVacuum ==
    /\ Free /\ HasRoom /\ Begin("vacuum", "audit")
    /\ data' = data - 1
    /\ Commit
    /\ UNCHANGED <<clock, dir, logged, file, pending, alert, newest, excused, bounds>>

(* VACUUM writes the database anew, which takes room before it gives some. *)
RunVacuum ==
    /\ Free /\ HasRoom /\ Begin("vacuum", "audit")
    /\ data' \in {data} \cup (IF data > 0 THEN {data - 1} ELSE {})
    /\ Commit
    /\ UNCHANGED <<clock, dir, logged, file, pending, alert, newest, excused, bounds>>

AuditVacuum ==
    /\ Running("vacuum", "audit") /\ End
    /\ Commit
    /\ UNCHANGED <<clock, disk, logged, file, pending, alert, newest, excused, bounds>>

----------------------------------------------------------------------------
(* The operator. *)

(* Moves raw pictures off the disk (docs/runbooks/disk-full.md). *)
FreeSpace ==
    /\ data > 0 /\ data' = data - 1
    /\ UNCHANGED <<clock, dir, started, logged, loop, backup, alert, newest, excused, bounds>>

(* Brings an archive back, by its name and complete. *)
BringBack(n) ==
    /\ Cardinality(brought) < MaxCopies /\ n \notin brought
    /\ brought' = brought \cup {n}
    /\ HasRoom /\ n[1] <= day /\ dir[n] = "none"
    /\ dir' = [dir EXCEPT ![n] = "whole"]
    /\ UNCHANGED <<clock, data, started, logged, loop, backup, alert, newest, excused,
                   scripted, faults>>

----------------------------------------------------------------------------
(* Faults and restarts. *)

Fault ==
    /\ up /\ job = "backup"
    /\ faults < MaxFaults /\ faults' = faults + 1
    /\ BackupRaises

(* The audit row of an alert or of a VACUUM cannot be written. *)
AuditFault ==
    /\ up /\ job \in {"disk", "vacuum"}
    /\ faults < MaxFaults /\ faults' = faults + 1
    /\ End
    /\ alert' = IF job = "disk" THEN "none" ELSE alert
    /\ UNCHANGED <<clock, disk, started, logged, backup, newest, excused, scripted, brought>>

Crash ==
    /\ up /\ faults < MaxFaults /\ faults' = faults + 1
    /\ up' = FALSE /\ job' = "none" /\ pc' = "idle"
    /\ file' = NoFile /\ copy' = "none" /\ pending' = {}
    /\ alert' = "none"
    /\ excused' = IF job = "backup" THEN excused \cup {file[1]} ELSE excused
    /\ UNCHANGED <<clock, disk, started, logged, newest, scripted, brought>>

(* SIGTERM reaches the loop when no job holds it; the finally of main.py   *)
(* checkpoints and truncates the WAL.                                      *)
Stop ==
    /\ Free
    /\ up' = FALSE /\ UNCHANGED <<job, pc>>
    /\ alert' = "none"
    /\ started' = TRUE
    /\ UNCHANGED <<clock, disk, logged, backup, newest, excused, bounds>>

Boot ==
    /\ ~up /\ up' = TRUE
    /\ UNCHANGED <<clock, disk, started, logged, job, pc, backup, alert, newest, excused, bounds>>

Next ==
    \/ ScriptCommits \/ Ingest \/ Ingested
    \/ NextDay \/ Misfire
    \/ OpenArchive \/ BackupStep
    \/ CheckDisk \/ PostAlert \/ AuditAlert \/ RunVacuum \/ AuditVacuum
    \/ FreeSpace \/ \E n \in Archives : BringBack(n)
    \/ Fault \/ AuditFault \/ Crash \/ Stop \/ Boot

Spec == Init /\ [][Next]_vars

(* A job that holds the loop goes on.  A tick of the hourly check, or the  *)
(* answer of Discord, finds the loop free sooner or later: nothing blocks  *)
(* it at every full hour, but something may again and again.               *)
JobStep == BackupStep \/ Ingested \/ AuditAlert \/ AuditVacuum

FairSpec ==
    /\ Spec
    /\ WF_vars(JobStep)
    /\ SF_vars(CheckDisk \/ PostAlert)

----------------------------------------------------------------------------
(* Properties. *)

TypeOK ==
    /\ day \in Days /\ ticked \in BOOLEAN
    /\ dir \in [Files -> Content] /\ data \in Nat
    /\ started \in BOOLEAN /\ logged \subseteq Archives
    /\ up \in BOOLEAN
    /\ job \in {"none", "ingest", "backup", "disk", "vacuum"}
    /\ pc \in {"idle", "ingest", "db", "wal", "list", "prune", "audit"}
    /\ file \in Archives \cup {NoFile}
    /\ copy \in {"none", "fresh", "behind", "lost"}
    /\ pending \subseteq Archives
    /\ alert \in {"none", "warn", "critical"}
    /\ newest \in Archives \cup {NoFile}
    /\ excused \subseteq Days /\ brought \subseteq Archives
    /\ scripted \in Nat /\ faults \in Nat

(* Once a backup came to its end there is one to restore: the last that was *)
(* completed survives every retention, midnight, crash and full disk after *)
(* it, and it is intact unless the script committed twice while it was made. *)
NewestSurvives ==
    newest # NoFile =>
        /\ dir[newest] \in Complete
        /\ scripted < 2 => dir[newest] = "whole"

(* Retention unlinks only archives of its own that are out of the window   *)
(* on the day it happens, and only once the archive of its tick is written. *)
RetentionIsSafe ==
    [][\A n \in Files : dir[n] # "none" /\ dir'[n] = "none" =>
          /\ n \in Archives /\ n[1] + Retain < day
          /\ dir[file] \in Complete]_vars

(* A tick that gets to its audit row has bounded the disk: what is left of *)
(* expired backups, half-written ones included, is gone, but for what the  *)
(* operator brought back.                                                  *)
ExpiredAreGone ==
    Running("backup", "audit") =>
        \A n \in Archives \ brought : dir[n] # "none" => n[1] >= file[1] - Retain

(* A nightly_backup row names an archive that was completed, and each day  *)
(* has such a row, or its backup was missed or failed, but never both.     *)
Settled(d) == (d < day \/ (d = day /\ ticked)) /\ ~(job = "backup" /\ file[1] = d)
AuditLogIsTrue ==
    /\ \A n \in logged : dir[n] \in Complete \cup {"none"}
    /\ \A d \in Days : Settled(d) => (d \in excused) # (\E n \in logged : n[1] = d)

(* The database is archived live, file by file.  That tears an archive only *)
(* when another process commits twice while it is made.                    *)
Torn == {n \in Files : dir[n] = "torn"}
TornTakesTwo == 2 * Cardinality(Torn) <= scripted

(* A disk at its critical threshold is reported as such, unless it recovers *)
(* or the process goes down.                                               *)
CriticalIsAlerted ==
    Used >= Critical ~>
        (Running("disk", "audit") /\ alert = "critical") \/ Used < Critical \/ ~up
=============================================================================
