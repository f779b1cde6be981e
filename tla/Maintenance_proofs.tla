-------------------------- MODULE Maintenance_proofs --------------------------
(***************************************************************************)
(* Theorems about Maintenance, for any retention, capacity, thresholds and *)
(* bounds.  The invariant is layered: types; which job is at which step;   *)
(* what the archive under way and the newest one hold; what retention has  *)
(* left; the audit rows; and the commits a torn archive has cost.          *)
(***************************************************************************)
EXTENDS Maintenance, FiniteSetTheorems, TLAPS

LEMMA ArchiveFacts ==
    /\ NoFile \notin Archives
    /\ \A n \in Archives : n \in Files /\ n[1] \in Days /\ n[1] \in Int
    /\ \A n \in Manual : n \notin Archives
    /\ \A d \in Days, i \in 1..PerDay : <<d, i>> \in Archives /\ <<d, i>>[1] = d
    /\ Days \subseteq Int /\ 0 \in Days
BY MaintenanceAssumption, NamesDiffer DEF Archives, Files, Days

Steps == {"db", "wal", "list", "prune", "audit"}

\* Which job is at which step, and what it has in hand there.
Control ==
    /\ (job = "backup") <=> (file # NoFile)
    /\ job = "backup" =>
          /\ up /\ pc \in Steps
          /\ file[1] <= day /\ day <= file[1] + Retain
          /\ file[1] = day => ticked
    /\ job # "backup" => pc \in {"idle", "ingest", "audit"}
    /\ pc # "wal" => copy = "none"
    /\ pc # "prune" => pending = {}

Base == TypeOK /\ Control

\* The archive under way, the newest one, and the files about to be unlinked.
Kept ==
    /\ pc = "db" => dir[file] = "empty"
    /\ pc = "wal" => dir[file] = "truncated"
    /\ job = "backup" /\ pc \in {"list", "prune", "audit"} => newest = file
    /\ newest # NoFile => dir[newest] \in Complete
    /\ \A n \in pending : n[1] + Retain < day

\* Past the listing, an expired archive is about to be unlinked or brought back.
Windowed ==
    job = "backup" /\ pc \in {"prune", "audit"} =>
        \A n \in Archives \ (brought \cup pending) : dir[n] # "none" => n[1] >= file[1] - Retain

\* The rows name archives that were completed, those of today ones that are there.
RowsTrue ==
    \A n \in logged : /\ n[1] <= day
                      /\ dir[n] \in Complete \cup {"none"}
                      /\ n[1] = day => dir[n] # "none"

\* A row, and a missed or failed backup, is of a day that is settled.
Named == {n[1] : n \in logged}
DaysTrue ==
    \A d \in Days : IF Settled(d) THEN (d \in excused) # (d \in Named)
                    ELSE d \notin excused /\ d \notin Named

\* The commits of the script that torn archives and the copy under way account for.
Owed == IF copy = "lost" THEN 2 ELSE IF copy = "behind" THEN 1 ELSE 0
Tears == 2 * Cardinality(Torn) + Owed <= scripted

IInv == Base /\ Kept /\ Windowed /\ RowsTrue /\ DaysTrue /\ Tears

----------------------------------------------------------------------------
(* Types and control.                                                       *)

LEMMA InitBase == Init => Base
<1> SUFFICES ASSUME Init PROVE Base
  OBVIOUS
<1>1. dir \in [Files -> Content] /\ day \in Days
  BY ArchiveFacts DEF Init, Content, Complete
<1>2. TypeOK
  BY <1>1 DEF Init, TypeOK
<1>3. Control
  BY DEF Init, Control
<1> QED
  BY <1>2, <1>3 DEF Base

\* A job other than the backup, and what happens beside the jobs.
Beside ==
    \/ ScriptCommits \/ Ingest \/ Ingested \/ Misfire
    \/ CheckDisk \/ PostAlert \/ AuditAlert \/ RunVacuum \/ AuditVacuum
    \/ FreeSpace \/ AuditFault \/ Stop \/ Boot

LEMMA NextSplit ==
    ASSUME Next
    PROVE  \/ Beside \/ NextDay \/ OpenArchive \/ CopyDb \/ CloseArchive \/ BeginPrune
           \/ (\E n \in Archives : Unlink(n)) \/ EndPrune \/ AuditBackup
           \/ NoSpace \/ (\E n \in Archives : BringBack(n)) \/ Fault \/ Crash
BY DEF Next, Beside, BackupStep

LEMMA BesideLeaves ==
    ASSUME Base, Beside
    PROVE  /\ <<dir, logged, file, pending, newest, day, brought>>'
                = <<dir, logged, file, pending, newest, day, brought>>
           /\ data' \in Nat /\ started' \in BOOLEAN
           /\ up' \in BOOLEAN /\ ticked' \in BOOLEAN
           /\ alert' \in {"none", "warn", "critical"}
           /\ faults' \in Nat
           /\ job = "backup" => job' = job /\ pc' = pc /\ up' = up
           /\ job # "backup" =>
                 /\ job' \in {"none", "ingest", "disk", "vacuum"}
                 /\ pc' \in {"idle", "ingest", "audit"}
           /\ \/ scripted' = scripted /\ copy' = copy
              \/ ScriptCommits
           /\ \/ excused' = excused /\ ticked' = ticked
              \/ ~ticked /\ ticked' /\ excused' = excused \cup {day}
<1> USE DEF Base, TypeOK, Control, Steps, Goto, Begin, End, Free, Running, Commit,
            clock, disk, loop, backup, bounds
<1>1. CASE ScriptCommits
  BY <1>1 DEF ScriptCommits
<1>2. CASE Ingest \/ PostAlert \/ Stop \/ Boot
  BY <1>2 DEF Ingest, PostAlert, Stop, Boot
<1>3. CASE Ingested
  BY <1>3 DEF Ingested
<1>4. CASE Misfire
  BY <1>4 DEF Misfire
<1>5. CASE CheckDisk
  BY <1>5 DEF CheckDisk, Level
<1>6. CASE AuditAlert
  BY <1>6 DEF AuditAlert
<1>7. CASE RunVacuum
  BY <1>7 DEF RunVacuum
<1>8. CASE AuditVacuum
  BY <1>8 DEF AuditVacuum
<1>9. CASE FreeSpace
  BY <1>9 DEF FreeSpace
<1>10. CASE AuditFault
  BY <1>10 DEF AuditFault
<1> QED
  BY <1>1, <1>2, <1>3, <1>4, <1>5, <1>6, <1>7, <1>8, <1>9, <1>10 DEF Beside

LEMMA ScriptLeaves ==
    ASSUME Base, ScriptCommits
    PROVE  /\ scripted' = scripted + 1
           /\ copy' \in {"none", "fresh", "behind", "lost"}
           /\ pc # "wal" => copy' = copy
           /\ copy' = "behind" => copy # "lost"
           /\ copy' = "lost" => copy \in {"behind", "lost"}
           /\ job' = job /\ pc' = pc /\ excused' = excused /\ ticked' = ticked
           /\ <<dir, newest, file>>' = <<dir, newest, file>>
BY DEF Base, TypeOK, Control, ScriptCommits, Commit, clock, disk, loop

LEMMA BasePreserved == Base /\ [Next]_vars => Base'
<1> SUFFICES ASSUME Base, [Next]_vars PROVE Base'
  OBVIOUS
<1> USE ArchiveFacts, MaintenanceAssumption
    DEF Base, TypeOK, Control, Steps, Goto, Begin, End, Free, Running, Complete, Content,
        clock, disk, loop, backup, bounds
<1>1. CASE Beside
  <2>1. CASE ScriptCommits
    <3>1. scripted' \in Nat
      BY <2>1, ScriptLeaves
    <3>2. TypeOK'
      BY <2>1, <3>1, <1>1, BesideLeaves, ScriptLeaves
    <3>3. Control'
      BY <2>1, <1>1, BesideLeaves, ScriptLeaves
    <3> QED
      BY <3>2, <3>3
  <2>2. CASE ~ScriptCommits
    BY <2>2, <1>1, BesideLeaves
  <2> QED
    BY <2>1, <2>2
<1>2. CASE NextDay
  <2>1. day' \in Days
    BY <1>2 DEF NextDay, Days
  <2>2. job = "backup" => file[1] <= day' /\ day' <= file[1] + Retain /\ file[1] # day'
    BY <1>2 DEF NextDay
  <2> QED
    BY <1>2, <2>1, <2>2 DEF NextDay
<1>3. CASE OpenArchive
  <2>1. PICK i \in 1..PerDay : file' = <<day, i>> /\ dir' = [dir EXCEPT ![<<day, i>>] = "empty"]
    BY <1>3 DEF OpenArchive
  <2>2. <<day, i>> \in Archives /\ <<day, i>>[1] = day
    BY <2>1
  <2>3. /\ ticked' = TRUE /\ job' = "backup" /\ pc' = "db" /\ up' = up /\ up
        /\ pc # "wal" /\ pc # "prune"
        /\ UNCHANGED <<day, data, started, logged, copy, pending, alert, newest, excused, bounds>>
    BY <1>3 DEF OpenArchive
  <2> QED
    BY <2>1, <2>2, <2>3
<1>4. CASE CopyDb
  BY <1>4 DEF CopyDb
<1>5. CASE CloseArchive
  BY <1>5 DEF CloseArchive
<1>6. CASE BeginPrune
  BY <1>6 DEF BeginPrune
<1>7. CASE \E n \in Archives : Unlink(n)
  BY <1>7 DEF Unlink
<1>8. CASE EndPrune
  BY <1>8 DEF EndPrune
<1>9. CASE AuditBackup
  BY <1>9 DEF AuditBackup, Commit
<1>10. CASE NoSpace
  BY <1>10 DEF NoSpace, BackupRaises
<1>11. CASE \E n \in Archives : BringBack(n)
  BY <1>11 DEF BringBack
<1>12. CASE Fault
  <2>1. faults' \in Nat /\ job = "backup" /\ up /\ BackupRaises
    BY <1>12 DEF Fault
  <2>2. file \in Archives
    BY <2>1
  <2> QED
    BY <2>1, <2>2 DEF BackupRaises
<1>13. CASE Crash
  <2>1. faults' \in Nat
    BY <1>13 DEF Crash
  <2>2. excused' \in SUBSET Days
    BY <1>13 DEF Crash
  <2> QED
    BY <1>13, <2>1, <2>2 DEF Crash
<1>14. CASE UNCHANGED vars
  BY <1>14 DEF vars
<1> QED
  BY <1>1, <1>2, <1>3, <1>4, <1>5, <1>6, <1>7, <1>8, <1>9, <1>10, <1>11, <1>12, <1>13,
     <1>14, NextSplit

----------------------------------------------------------------------------
(* The archives.                                                            *)

LEMMA KeptPreserved == Base /\ Base' /\ Kept /\ [Next]_vars => Kept'
<1> SUFFICES ASSUME Base, Base', Kept, [Next]_vars PROVE Kept'
  OBVIOUS
<1> USE ArchiveFacts, MaintenanceAssumption
    DEF Base, TypeOK, Control, Steps, Kept, Goto, Begin, End, Free, Running, Complete,
        Content, clock, disk, loop, backup, bounds
<1>1. CASE Beside
  BY <1>1, BesideLeaves
<1>2. CASE NextDay
  BY <1>2 DEF NextDay
<1>3. CASE OpenArchive
  <2>1. PICK i \in 1..PerDay :
            /\ file' = <<day, i>> /\ dir' = [dir EXCEPT ![<<day, i>>] = "empty"]
            /\ dir[<<day, i>>] = "none"
    BY <1>3 DEF OpenArchive
  <2>2. pc' = "db" /\ newest' = newest /\ pending' = pending /\ day' = day
    BY <1>3 DEF OpenArchive
  <2> QED
    BY <2>1, <2>2
<1>4. CASE CopyDb
  BY <1>4 DEF CopyDb
<1>5. CASE CloseArchive
  BY <1>5 DEF CloseArchive
<1>6. CASE BeginPrune
  BY <1>6 DEF BeginPrune
<1>7. CASE \E n \in Archives : Unlink(n)
  <2>1. PICK n \in Archives : Unlink(n)
    BY <1>7
  <2>2. n # file /\ n # newest
    BY <2>1 DEF Unlink
  <2> QED
    BY <2>1, <2>2 DEF Unlink
<1>8. CASE EndPrune
  BY <1>8 DEF EndPrune
<1>9. CASE AuditBackup
  BY <1>9 DEF AuditBackup, Commit
<1>10. CASE NoSpace
  BY <1>10 DEF NoSpace, BackupRaises
<1>11. CASE \E n \in Archives : BringBack(n)
  BY <1>11 DEF BringBack
<1>12. CASE Fault
  BY <1>12 DEF Fault, BackupRaises
<1>13. CASE Crash
  BY <1>13 DEF Crash
<1>14. CASE UNCHANGED vars
  BY <1>14 DEF vars
<1> QED
  BY <1>1, <1>2, <1>3, <1>4, <1>5, <1>6, <1>7, <1>8, <1>9, <1>10, <1>11, <1>12, <1>13,
     <1>14, NextSplit

LEMMA WindowedPreserved == Base /\ Base' /\ Windowed /\ [Next]_vars => Windowed'
<1> SUFFICES ASSUME Base, Base', Windowed, [Next]_vars PROVE Windowed'
  OBVIOUS
<1> USE ArchiveFacts, MaintenanceAssumption
    DEF Base, TypeOK, Control, Steps, Windowed, Goto, Begin, End, Free, Running, Complete,
        Content, clock, disk, loop, backup, bounds
<1>1. CASE Beside
  BY <1>1, BesideLeaves
<1>2. CASE NextDay
  BY <1>2 DEF NextDay
<1>3. CASE OpenArchive \/ CopyDb \/ CloseArchive
  BY <1>3 DEF OpenArchive, CopyDb, CloseArchive
<1>4. CASE BeginPrune
  BY <1>4 DEF BeginPrune
<1>5. CASE \E n \in Archives : Unlink(n)
  BY <1>5 DEF Unlink
<1>6. CASE EndPrune
  BY <1>6 DEF EndPrune
<1>7. CASE AuditBackup \/ NoSpace \/ Fault \/ Crash
  BY <1>7 DEF AuditBackup, NoSpace, Fault, Crash, BackupRaises
<1>8. CASE \E n \in Archives : BringBack(n)
  BY <1>8 DEF BringBack
<1>9. CASE UNCHANGED vars
  BY <1>9 DEF vars
<1> QED
  BY <1>1, <1>2, <1>3, <1>4, <1>5, <1>6, <1>7, <1>8, <1>9, NextSplit

----------------------------------------------------------------------------
(* The audit rows.                                                          *)

LEMMA RowsPreserved ==
    Base /\ Base' /\ Kept /\ RowsTrue /\ DaysTrue /\ [Next]_vars => RowsTrue'
<1> SUFFICES ASSUME Base, Base', Kept, RowsTrue, DaysTrue, [Next]_vars PROVE RowsTrue'
  OBVIOUS
<1> USE ArchiveFacts, MaintenanceAssumption
    DEF Base, TypeOK, Control, Steps, Kept, RowsTrue, Goto, Begin, End, Free,
        Running, Complete, Content, clock, disk, loop, backup, bounds
<1>1. CASE Beside
  BY <1>1, BesideLeaves
<1>2. CASE NextDay
  BY <1>2 DEF NextDay
<1>3. CASE OpenArchive
  <2>1. PICK i \in 1..PerDay :
            /\ dir' = [dir EXCEPT ![<<day, i>>] = "empty"]
            /\ dir[<<day, i>>] = "none"
    BY <1>3 DEF OpenArchive
  <2>2. logged' = logged /\ day' = day
    BY <1>3 DEF OpenArchive
  <2>3. <<day, i>> \notin logged
    BY <2>1
  <2> QED
    BY <2>1, <2>2, <2>3
<1>4. CASE CopyDb \/ CloseArchive
  <2>1. file \in Archives /\ ~Settled(file[1]) /\ file[1] \in Days
    BY <1>4 DEF CopyDb, CloseArchive, Settled
  <2>2. file \notin logged
    BY <2>1 DEF DaysTrue, Named
  <2>3. CASE CopyDb
    BY <2>2, <2>3 DEF CopyDb
  <2>4. CASE CloseArchive
    BY <2>2, <2>4 DEF CloseArchive
  <2> QED
    BY <1>4, <2>3, <2>4
<1>5. CASE BeginPrune \/ EndPrune
  BY <1>5 DEF BeginPrune, EndPrune
<1>6. CASE \E n \in Archives : Unlink(n)
  BY <1>6 DEF Unlink
<1>7. CASE AuditBackup
  BY <1>7 DEF AuditBackup
<1>8. CASE NoSpace \/ Fault
  BY <1>8 DEF NoSpace, Fault, BackupRaises
<1>9. CASE \E n \in Archives : BringBack(n)
  BY <1>9 DEF BringBack
<1>10. CASE Crash
  BY <1>10 DEF Crash
<1>11. CASE UNCHANGED vars
  BY <1>11 DEF vars
<1> QED
  BY <1>1, <1>2, <1>3, <1>4, <1>5, <1>6, <1>7, <1>8, <1>9, <1>10, <1>11, NextSplit

\* A step settles no day, or one: that day gets its row or its excuse, and not both.
SameDays ==
    excused' = excused /\ Named' = Named /\ \A d \in Days : Settled(d)' = Settled(d)

Settles(e) ==
    /\ ~Settled(e) /\ Settled(e)'
    /\ \A d \in Days \ {e} : Settled(d)' = Settled(d)
    /\ \/ excused' = excused \cup {e} /\ Named' = Named
       \/ excused' = excused /\ Named' = Named \cup {e}

LEMMA NoneSettled == DaysTrue /\ SameDays => DaysTrue'
BY DEF DaysTrue, SameDays

LEMMA OneSettled == ASSUME NEW e \in Days, DaysTrue, Settles(e) PROVE DaysTrue'
BY DEF DaysTrue, Settles

LEMMA BackupSettles ==
    ASSUME Base, job = "backup", job' # "backup", clock' = clock, DaysTrue,
           \/ excused' = excused \cup {file[1]} /\ logged' = logged
           \/ excused' = excused /\ logged' = logged \cup {file}
    PROVE  DaysTrue'
<1> USE ArchiveFacts DEF Base, TypeOK, Control, clock
<1>1. file \in Archives /\ file[1] \in Days
  OBVIOUS
<1>2. PICK e \in Days : e = file[1]
  BY <1>1
<1>3. ~Settled(e) /\ Settled(e)'
  BY <1>1, <1>2 DEF Settled
<1>4. ASSUME NEW d \in Days \ {e} PROVE Settled(d)' = Settled(d)
  BY <1>2, <1>4 DEF Settled
<1>5. \/ excused' = excused \cup {e} /\ Named' = Named
      \/ excused' = excused /\ Named' = Named \cup {e}
  BY <1>2 DEF Named
<1>6. Settles(e)
  BY <1>3, <1>4, <1>5 DEF Settles
<1> QED
  BY <1>6, OneSettled

LEMMA DaysPreserved == Base /\ Base' /\ DaysTrue /\ [Next]_vars => DaysTrue'
<1> SUFFICES ASSUME Base, Base', DaysTrue, [Next]_vars PROVE DaysTrue'
  OBVIOUS
<1> USE ArchiveFacts
    DEF Base, TypeOK, Control, Goto, Begin, End, Free, Running, clock, disk, loop, backup,
        bounds
<1>1. CASE Misfire
  <2>1. PICK e \in Days : e = day
    OBVIOUS
  <2>2. ~Settled(e) /\ Settled(e)' /\ \A d \in Days \ {e} : Settled(d)' = Settled(d)
    BY <1>1, <2>1 DEF Misfire, Settled
  <2>3. Settles(e)
    BY <1>1, <2>1, <2>2 DEF Misfire, Settles, Named
  <2> QED
    BY <2>3, OneSettled
<1>2. CASE Beside /\ ~Misfire
  <2>1. excused' = excused /\ ticked' = ticked /\ logged' = logged
    BY <1>2 DEF Beside, ScriptCommits, Ingest, Ingested, CheckDisk, PostAlert, AuditAlert,
                RunVacuum, AuditVacuum, FreeSpace, AuditFault, Stop, Boot
  <2>2. day' = day /\ file' = file /\ ((job = "backup") <=> (job' = "backup"))
    BY <1>2, BesideLeaves
  <2>3. SameDays
    BY <2>1, <2>2 DEF SameDays, Named, Settled
  <2> QED
    BY <2>3, NoneSettled
<1>3. CASE NextDay
  <2>1. \A d \in Days : Settled(d)' = Settled(d)
    BY <1>3 DEF NextDay, Settled, Days
  <2>2. SameDays
    BY <1>3, <2>1 DEF NextDay, SameDays, Named
  <2> QED
    BY <2>2, NoneSettled
<1>4. CASE OpenArchive
  <2>1. PICK i \in 1..PerDay : file' = <<day, i>>
    BY <1>4 DEF OpenArchive
  <2>2. file'[1] = day /\ job' = "backup" /\ ~ticked /\ ticked' = TRUE /\ day' = day
    BY <1>4, <2>1 DEF OpenArchive
  <2>3. job # "backup"
    BY <1>4 DEF OpenArchive
  <2>4. \A d \in Days : Settled(d)' = Settled(d)
    BY <2>2, <2>3 DEF Settled
  <2>5. SameDays
    BY <1>4, <2>4 DEF OpenArchive, SameDays, Named
  <2> QED
    BY <2>5, NoneSettled
<1>5. CASE \/ CopyDb \/ CloseArchive \/ BeginPrune \/ EndPrune
           \/ (\E n \in Archives : Unlink(n)) \/ (\E n \in Archives : BringBack(n))
           \/ UNCHANGED vars
  <2>1. excused' = excused /\ ticked' = ticked /\ logged' = logged /\ day' = day
        /\ file' = file /\ job' = job
    BY <1>5 DEF CopyDb, CloseArchive, BeginPrune, EndPrune, Unlink, BringBack, vars
  <2>2. SameDays
    BY <2>1 DEF SameDays, Named, Settled
  <2> QED
    BY <2>2, NoneSettled
<1>6. CASE AuditBackup
  BY <1>6, BackupSettles DEF AuditBackup
<1>7. CASE NoSpace
  BY <1>7, BackupSettles DEF NoSpace, BackupRaises
<1>8. CASE Fault
  BY <1>8, BackupSettles DEF Fault, BackupRaises
<1>9. CASE Crash
  <2>1. CASE job = "backup"
    BY <1>9, <2>1, BackupSettles DEF Crash
  <2>2. CASE job # "backup"
    <3>1. SameDays
      BY <1>9, <2>2 DEF Crash, SameDays, Named, Settled
    <3> QED
      BY <3>1, NoneSettled
  <2> QED
    BY <2>1, <2>2
<1> QED
  BY <1>1, <1>2, <1>3, <1>4, <1>5, <1>6, <1>7, <1>8, <1>9, NextSplit

----------------------------------------------------------------------------
(* Torn archives.                                                           *)

LEMMA FilesFinite == IsFiniteSet(Files)
<1>1. IsFiniteSet(Days) /\ IsFiniteSet(1..PerDay)
  BY FS_Interval, MaintenanceAssumption DEF Days
<1>2. IsFiniteSet(Archives)
  BY <1>1, FS_Product DEF Archives
<1> QED
  BY <1>2, FS_Union, MaintenanceAssumption DEF Files

\* No file is torn that was not: there are no more of them.
LEMMA NoMoreTorn ==
    ASSUME \A n \in Files : dir'[n] = "torn" => dir[n] = "torn"
    PROVE  /\ Cardinality(Torn) \in Nat /\ Cardinality(Torn') \in Nat
           /\ Cardinality(Torn') <= Cardinality(Torn)
<1>1. IsFiniteSet(Torn) /\ IsFiniteSet(Torn')
  BY FilesFinite, FS_Subset DEF Torn
<1>2. Torn' \in SUBSET Torn
  BY DEF Torn
<1> QED
  BY <1>1, <1>2, FS_Subset, FS_CardinalityType

LEMMA OneMoreTorn ==
    ASSUME NEW f, \A n \in Files \ {f} : dir'[n] = "torn" => dir[n] = "torn"
    PROVE  /\ Cardinality(Torn) \in Nat /\ Cardinality(Torn') \in Nat
           /\ Cardinality(Torn') <= Cardinality(Torn) + 1
<1>1. IsFiniteSet(Torn) /\ IsFiniteSet(Torn') /\ IsFiniteSet(Torn \cup {f})
  BY FilesFinite, FS_Subset, FS_AddElement DEF Torn
<1>2. Torn' \in SUBSET (Torn \cup {f})
  BY DEF Torn
<1>3. Cardinality(Torn') <= Cardinality(Torn \cup {f})
  BY <1>1, <1>2, FS_Subset
<1>4. Cardinality(Torn \cup {f}) \in {Cardinality(Torn), Cardinality(Torn) + 1}
  BY <1>1, FS_AddElement
<1> QED
  BY <1>1, <1>3, <1>4, FS_CardinalityType

LEMMA TearsPreserved == Base /\ Base' /\ Tears /\ [Next]_vars => Tears'
<1> SUFFICES ASSUME Base, Base', Tears, [Next]_vars PROVE Tears'
  OBVIOUS
<1> USE ArchiveFacts
    DEF Base, TypeOK, Control, Steps, Tears, Owed, Goto, Begin, End, Free, Running,
        Content, Complete, clock, disk, loop, backup, bounds
<1>1. CASE CloseArchive
  <2>1. CASE copy = "lost"
    <3>1. \A n \in Files \ {file} : dir'[n] = "torn" => dir[n] = "torn"
      BY <1>1 DEF CloseArchive
    <3>2. scripted' = scripted /\ copy' = "none"
      BY <1>1 DEF CloseArchive
    <3> QED
      BY <2>1, <3>1, <3>2, OneMoreTorn
  <2>2. CASE copy # "lost"
    <3>1. \A n \in Files : dir'[n] = "torn" => dir[n] = "torn"
      BY <1>1, <2>2 DEF CloseArchive
    <3>2. scripted' = scripted /\ copy' = "none"
      BY <1>1 DEF CloseArchive
    <3> QED
      BY <2>2, <3>1, <3>2, NoMoreTorn
  <2> QED
    BY <2>1, <2>2
<1>2. CASE Beside
  <2>1. \A n \in Files : dir'[n] = "torn" => dir[n] = "torn"
    BY <1>2, BesideLeaves
  <2>2. CASE ScriptCommits
    BY <2>1, <2>2, ScriptLeaves, NoMoreTorn
  <2>3. CASE ~ScriptCommits
    BY <1>2, <2>1, <2>3, BesideLeaves, NoMoreTorn
  <2> QED
    BY <2>2, <2>3
<1>3. CASE ~CloseArchive /\ ~Beside
  <2>1. \A n \in Files : dir'[n] = "torn" => dir[n] = "torn"
    <3>1. CASE OpenArchive
      <4>1. PICK i \in 1..PerDay : dir' = [dir EXCEPT ![<<day, i>>] = "empty"]
        BY <3>1 DEF OpenArchive
      <4> QED
        BY <4>1
    <3>2. CASE CopyDb
      BY <3>2 DEF CopyDb
    <3>3. CASE \E n \in Archives : Unlink(n)
      BY <3>3 DEF Unlink
    <3>4. CASE \E n \in Archives : BringBack(n)
      BY <3>4 DEF BringBack
    <3>5. CASE NextDay \/ BeginPrune \/ EndPrune \/ AuditBackup \/ NoSpace \/ Fault \/ Crash
      BY <3>5 DEF NextDay, BeginPrune, EndPrune, AuditBackup, NoSpace, Fault, Crash, BackupRaises
    <3>6. CASE UNCHANGED vars
      BY <3>6 DEF vars
    <3> QED
      BY <1>3, <3>1, <3>2, <3>3, <3>4, <3>5, <3>6, NextSplit
  <2>2. scripted' = scripted /\ (copy' = copy \/ copy' \in {"none", "fresh"})
    <3>1. CASE OpenArchive \/ CopyDb
      BY <3>1 DEF OpenArchive, CopyDb
    <3>2. CASE \E n \in Archives : Unlink(n)
      BY <3>2 DEF Unlink
    <3>3. CASE \E n \in Archives : BringBack(n)
      BY <3>3 DEF BringBack
    <3>4. CASE NextDay \/ BeginPrune \/ EndPrune
      BY <3>4 DEF NextDay, BeginPrune, EndPrune
    <3>5. CASE AuditBackup
      BY <3>5 DEF AuditBackup, Commit
    <3>6. CASE NoSpace \/ Fault \/ Crash
      BY <3>6 DEF NoSpace, Fault, Crash, BackupRaises
    <3>7. CASE UNCHANGED vars
      BY <3>7 DEF vars
    <3> QED
      BY <1>3, <3>1, <3>2, <3>3, <3>4, <3>5, <3>6, <3>7, NextSplit
  <2> QED
    BY <2>1, <2>2, NoMoreTorn
<1> QED
  BY <1>1, <1>2, <1>3

----------------------------------------------------------------------------
(* The theorems.                                                            *)

LEMMA InitIInv == Init => IInv
<1> SUFFICES ASSUME Init PROVE IInv
  OBVIOUS
<1>1. Base
  BY InitBase
<1>2. Kept /\ Windowed
  BY DEF Init, Kept, Windowed
<1>3. RowsTrue /\ DaysTrue
  BY ArchiveFacts DEF Init, RowsTrue, DaysTrue, Named, Settled, Days
<1>4. Torn = {}
  BY DEF Init, Torn
<1>5. Tears
  BY <1>4, FS_EmptySet DEF Init, Tears, Owed
<1> QED
  BY <1>1, <1>2, <1>3, <1>5 DEF IInv

LEMMA IInvPreserved == IInv /\ [Next]_vars => IInv'
BY BasePreserved, KeptPreserved, WindowedPreserved, RowsPreserved, DaysPreserved,
   TearsPreserved
   DEF IInv

LEMMA Inductive == Spec => []IInv
BY InitIInv, IInvPreserved, PTL DEF Spec

\* Every variable of the maintenance jobs keeps its type.
THEOREM TypeCorrect == Spec => []TypeOK
<1>1. IInv => TypeOK
  BY DEF IInv, Base
<1> QED
  BY <1>1, Inductive, PTL

\* Fewer than two commits of the script leave no archive torn.
LEMMA NoneTorn ==
    ASSUME IInv, scripted < 2
    PROVE  Torn = {}
<1>1. IsFiniteSet(Torn)
  BY FilesFinite, FS_Subset DEF Torn
<1>2. Cardinality(Torn) \in Nat
  BY <1>1, FS_CardinalityType
<1>3. Cardinality(Torn) = 0
  BY <1>2 DEF IInv, Tears, Owed, Base, TypeOK
<1> QED
  BY <1>1, <1>3, FS_EmptySet

\* No retention, midnight, crash or full disk takes the last completed backup away.
THEOREM NewestIsKept == Spec => []NewestSurvives
<1>1. IInv => NewestSurvives
  <2> SUFFICES ASSUME IInv, newest # NoFile
               PROVE  /\ dir[newest] \in Complete
                      /\ scripted < 2 => dir[newest] = "whole"
    BY DEF NewestSurvives
  <2>1. dir[newest] \in Complete /\ newest \in Files
    BY ArchiveFacts DEF IInv, Kept, Base, TypeOK
  <2>2. scripted < 2 => dir[newest] # "torn"
    BY <2>1, NoneTorn DEF Torn
  <2> QED
    BY <2>1, <2>2 DEF Complete
<1> QED
  BY <1>1, Inductive, PTL

\* Retention unlinks nothing but expired archives, and only after a new one is written.
THEOREM RetentionUnlinksTheExpired == Spec => RetentionIsSafe
<1>1. ASSUME IInv, [Next]_vars
      PROVE  [\A n \in Files : dir[n] # "none" /\ dir'[n] = "none" =>
                 /\ n \in Archives /\ n[1] + Retain < day
                 /\ dir[file] \in Complete]_vars
  <2> SUFFICES ASSUME Next, NEW n \in Files, dir[n] # "none", dir'[n] = "none"
               PROVE  /\ n \in Archives /\ n[1] + Retain < day
                      /\ dir[file] \in Complete
    BY <1>1
  <2> USE DEF IInv, Base, TypeOK, Control, Content, Complete, Running, clock, disk
  <2>1. CASE \E m \in Archives : Unlink(m)
    BY <1>1, <2>1, ArchiveFacts DEF Unlink, Kept
  <2>2. CASE Beside
    BY <1>1, <2>2, BesideLeaves
  <2>3. CASE OpenArchive
    <3>1. PICK i \in 1..PerDay : dir' = [dir EXCEPT ![<<day, i>>] = "empty"]
      BY <2>3 DEF OpenArchive
    <3> QED
      BY <1>1, <3>1
  <2>4. CASE CopyDb \/ CloseArchive
    BY <1>1, <2>4 DEF CopyDb, CloseArchive
  <2>5. CASE \E m \in Archives : BringBack(m)
    BY <1>1, <2>5 DEF BringBack
  <2>6. CASE NextDay \/ BeginPrune \/ EndPrune \/ AuditBackup \/ NoSpace \/ Fault \/ Crash
    BY <2>6 DEF NextDay, BeginPrune, EndPrune, AuditBackup, NoSpace, Fault, Crash, BackupRaises
  <2> QED
    BY <2>1, <2>2, <2>3, <2>4, <2>5, <2>6, NextSplit
<1> QED
  BY <1>1, Inductive, PTL DEF Spec, RetentionIsSafe

\* A backup that gets to its audit row has left no expired file of its own behind.
THEOREM RetentionIsComplete == Spec => []ExpiredAreGone
<1>1. IInv => ExpiredAreGone
  BY DEF IInv, Base, Control, Windowed, ExpiredAreGone, Running
<1> QED
  BY <1>1, Inductive, PTL

\* Each settled day has one row of a completed archive, or was missed or failed.
THEOREM AuditRowsAreTrue == Spec => []AuditLogIsTrue
<1>1. IInv => AuditLogIsTrue
  <2> SUFFICES ASSUME IInv PROVE AuditLogIsTrue
    OBVIOUS
  <2>1. \A n \in logged : dir[n] \in Complete \cup {"none"}
    BY DEF IInv, RowsTrue
  <2>2. ASSUME NEW d \in Days, Settled(d)
        PROVE  (d \in excused) # (\E n \in logged : n[1] = d)
    <3>1. (d \in excused) # (d \in Named)
      BY <2>2 DEF IInv, DaysTrue
    <3>2. CASE d \in Named
      <4>1. d \notin excused
        BY <3>1, <3>2
      <4>2. \E n \in logged : n[1] = d
        BY <3>2 DEF Named
      <4> QED
        BY <4>1, <4>2
    <3>3. CASE d \notin Named
      <4>1. d \in excused
        BY <3>1, <3>3
      <4>2. ~ \E n \in logged : n[1] = d
        BY <3>3 DEF Named
      <4> QED
        BY <4>1, <4>2
    <3> QED
      BY <3>2, <3>3
  <2> QED
    BY <2>1, <2>2 DEF AuditLogIsTrue
<1> QED
  BY <1>1, Inductive, PTL

\* However the jobs interleave, a torn archive takes two commits of the script.
THEOREM TearingTakesTwoCommits == Spec => []TornTakesTwo
<1>1. IInv => TornTakesTwo
  <2> SUFFICES ASSUME IInv PROVE TornTakesTwo
    OBVIOUS
  <2>1. Cardinality(Torn) \in Nat
    BY FilesFinite, FS_Subset, FS_CardinalityType DEF Torn
  <2> QED
    BY <2>1 DEF IInv, Base, TypeOK, Tears, Owed, TornTakesTwo
<1> QED
  BY <1>1, Inductive, PTL

----------------------------------------------------------------------------
(* How long a job holds the event loop.                                     *)

\* The steps a job still has to take at most, one for each archive it may unlink.
Ahead == [idle |-> 0, ingest |-> 1, audit |-> 1, prune |-> 2, list |-> 3, wal |-> 4, db |-> 5]
Unlinks == IF pc = "prune" THEN Cardinality(pending)
           ELSE IF pc \in {"db", "wal", "list"} THEN Cardinality(Archives) ELSE 0
Left == Ahead[pc] + Unlinks

LeftBounded == Left \in 0..(5 + Cardinality(Archives))
JobsWindDown ==
    /\ []LeftBounded
    /\ [][/\ JobStep => Left' < Left
          /\ job # "none" => Left' <= Left]_vars

LEMMA PendingCounts ==
    ASSUME NEW P \in SUBSET Archives
    PROVE  /\ Cardinality(P) \in Nat /\ Cardinality(Archives) \in Nat
           /\ Cardinality(P) <= Cardinality(Archives)
           /\ \A n \in P : Cardinality(P \ {n}) = Cardinality(P) - 1
<1>1. IsFiniteSet(Archives)
  <2>1. Archives \subseteq Files
    BY DEF Files
  <2> QED
    BY <2>1, FilesFinite, FS_Subset
<1>2. IsFiniteSet(P) /\ Cardinality(P) <= Cardinality(Archives)
  BY <1>1, FS_Subset
<1> QED
  BY <1>1, <1>2, FS_CardinalityType, FS_RemoveElement

LEMMA LeftIsBounded == Base => LeftBounded
<1> SUFFICES ASSUME Base PROVE LeftBounded
  OBVIOUS
<1>1. /\ Cardinality(pending) \in Nat /\ Cardinality(Archives) \in Nat
      /\ Cardinality(pending) <= Cardinality(Archives)
  BY PendingCounts DEF Base, TypeOK
<1>2. pc \in {"idle", "ingest", "db", "wal", "list", "prune", "audit"}
  BY DEF Base, TypeOK
<1> QED
  BY <1>1, <1>2 DEF LeftBounded, Left, Unlinks, Ahead

\* A step to a later place brings the end nearer.
LEMMA MoveCounts ==
    ASSUME Base, Base', Ahead[pc'] < Ahead[pc]
    PROVE  Left' < Left
<1>1. /\ Cardinality(pending) \in Nat /\ Cardinality(Archives) \in Nat
      /\ Cardinality(pending') \in Nat /\ Cardinality(pending') <= Cardinality(Archives)
  BY PendingCounts DEF Base, TypeOK
<1>2. /\ pc \in {"idle", "ingest", "db", "wal", "list", "prune", "audit"}
      /\ pc' \in {"idle", "ingest", "db", "wal", "list", "prune", "audit"}
  BY DEF Base, TypeOK
<1> QED
  BY <1>1, <1>2 DEF Left, Unlinks, Ahead

LEMMA StepCounts ==
    ASSUME Base, Base', JobStep
    PROVE  Left' < Left
<1>1. CASE \E n \in Archives : Unlink(n)
  <2>1. PICK n \in pending : pending' = pending \ {n} /\ pc = "prune" /\ pc' = "prune"
    BY <1>1 DEF Unlink, Running, Goto
  <2>2. /\ Cardinality(pending) \in Nat
        /\ Cardinality(pending \ {n}) = Cardinality(pending) - 1
    BY PendingCounts DEF Base, TypeOK
  <2>3. Left = 2 + Cardinality(pending) /\ Left' = 2 + Cardinality(pending \ {n})
    BY <2>1 DEF Left, Unlinks, Ahead
  <2> QED
    BY <2>2, <2>3
<1>2. CASE CopyDb \/ CloseArchive \/ BeginPrune \/ EndPrune \/ AuditBackup
  BY <1>2, MoveCounts
     DEF CopyDb, CloseArchive, BeginPrune, EndPrune, AuditBackup, Running, Goto, End, Ahead
<1>3. CASE NoSpace \/ Ingested \/ AuditAlert \/ AuditVacuum
  BY <1>3, MoveCounts
     DEF NoSpace, BackupRaises, Ingested, AuditAlert, AuditVacuum, Running, End, Ahead
<1> QED
  BY <1>1, <1>2, <1>3 DEF JobStep, BackupStep

LEMMA NothingAddsSteps ==
    ASSUME Base, [Next]_vars, job # "none"
    PROVE  Left' <= Left
<1>1. Left \in Nat
  <2>1. Cardinality(Archives) \in Nat
    BY PendingCounts
  <2> QED
    BY <2>1, LeftIsBounded DEF LeftBounded
<1>2. Base'
  BY BasePreserved
<1>3. CASE JobStep
  <2>1. Left' < Left
    BY <1>2, <1>3, StepCounts
  <2>2. (Base => LeftBounded)'
    BY LeftIsBounded, PTL
  <2>3. Left' \in 0..(5 + Cardinality(Archives)) /\ Cardinality(Archives) \in Nat
    BY <1>2, <2>2, PendingCounts DEF LeftBounded
  <2> QED
    BY <1>1, <2>1, <2>3
<1>4. ASSUME pc' = pc, pending' = pending PROVE Left' <= Left
  BY <1>1, <1>4 DEF Left, Unlinks
<1>5. CASE \/ ScriptCommits \/ NextDay \/ Misfire \/ FreeSpace \/ Boot
           \/ \E n \in Archives : BringBack(n)
  BY <1>4, <1>5 DEF ScriptCommits, NextDay, Misfire, FreeSpace, Boot, BringBack, loop, backup
<1>6. CASE Fault \/ AuditFault \/ Crash
  <2>1. pc' = "idle"
    BY <1>6 DEF Fault, BackupRaises, AuditFault, Crash, End
  <2>2. Left' = 0
    BY <2>1 DEF Left, Unlinks, Ahead
  <2> QED
    BY <1>1, <2>2
<1>7. CASE UNCHANGED vars
  BY <1>4, <1>7 DEF vars, loop, backup
<1>8. ~(Ingest \/ OpenArchive \/ CheckDisk \/ PostAlert \/ RunVacuum \/ Stop)
  BY DEF Ingest, OpenArchive, CheckDisk, PostAlert, RunVacuum, Stop, Free
<1> QED
  BY <1>3, <1>5, <1>6, <1>7, <1>8 DEF Next, JobStep

\* A job that holds the event loop takes a bounded number of steps, whatever the script,
\* midnight and the operator do meanwhile: retention ends, and the loop is free again.
THEOREM JobsAreFinite == Spec => JobsWindDown
<1>1. Spec => []Base
  <2>1. IInv => Base
    BY DEF IInv
  <2> QED
    BY <2>1, Inductive, PTL
<1>2. Base /\ [Next]_vars =>
         [/\ JobStep => Left' < Left
          /\ job # "none" => Left' <= Left]_vars
  BY BasePreserved, StepCounts, NothingAddsSteps
<1> QED
  BY <1>1, <1>2, LeftIsBounded, PTL DEF Spec, JobsWindDown
=============================================================================
