---------------------------- MODULE Inbox_proofs ----------------------------
(***************************************************************************)
(* Theorems about Inbox, for every set of files, contents, sort order and  *)
(* bound on faults.  The invariants are layered: types, then the sweep's   *)
(* control state, then where a file in hand can be, then the counters.     *)
(***************************************************************************)
EXTENDS Inbox, TLAPS

(* The entries of the files, and the entry in hand as one of them. *)
LEMMA SlotIntro ==
    ASSUME NEW f \in Files, NEW k \in DOMAIN Entries[f]
    PROVE  <<f, k>> \in Slots
BY DEF Slots

LEMMA SlotElim ==
    ASSUME NEW s \in Slots
    PROVE  /\ s[1] \in Files
           /\ s[2] \in 1..Len(Entries[s[1]])
           /\ s[2] \in Nat
           /\ s = <<s[1], s[2]>>
<1>1. PICK f \in Files : s \in {f} \X DOMAIN Entries[f]
  BY DEF Slots
<1>2. Entries[f] \in Seq({"image", "text"})
  BY InboxAssumption
<1> QED
  BY <1>1, <1>2

(* The control state: outside a file the sweep holds none, inside it holds *)
(* an entry of that file, of the kind the step is about, and none of the   *)
(* files still to be taken.                                               *)
Control ==
    /\ file = NoFile <=> pc \in {"down", "idle", "next"}
    /\ file \in Files => entry \in 1..Len(Entries[file])
    /\ file \notin batch
    /\ pc \in {"parse", "save", "addtext"} => file \notin Screenshots
    /\ pc \in {"save", "ingest", "add", "embed"} => Entries[file][entry] = "image"
    /\ pc = "addtext" => Entries[file][entry] = "text"
    /\ pc = "parse" => entry = 1
    /\ pc = "quarantine" => file \in Screenshots \cup Rejected
    /\ file \in Rejected => pc \in {"parse", "quarantine", "report", "notify"}
    /\ pc = "move" => entry = Len(Entries[file])
    /\ pc \in {"down", "idle"} => batch = {}

(* What the assumption says of the contents of a file. *)
LEMMA EntriesFacts ==
    /\ \A f \in Files : Entries[f] \in Seq({"image", "text"}) /\ 1 \in 1..Len(Entries[f])
    /\ \A f \in Files : \A k \in 1..Len(Entries[f]) : Entries[f][k] \in {"image", "text"}
    /\ \A f \in Screenshots : Len(Entries[f]) = 1 /\ Entries[f][1] = "image"
<1>1. ASSUME NEW f \in Files
      PROVE  Entries[f] \in Seq({"image", "text"}) /\ Len(Entries[f]) > 0
  BY InboxAssumption
<1>2. ASSUME NEW f \in Screenshots
      PROVE  Len(Entries[f]) = 1 /\ Entries[f][1] = "image"
  <2>1. Entries[f] = <<"image">>
    BY InboxAssumption
  <2> QED
    BY <2>1
<1> QED
  BY <1>1, <1>2

LEMMA FileFacts ==
    /\ NoFile \notin Files
    /\ Screenshots \subseteq Files
    /\ Rejected \subseteq Files \ Screenshots
BY InboxAssumption

USE FileFacts

LEMMA InitTyped == Init => TypeOK /\ Control
BY DEF Init, TypeOK, Control, Places, Steps

LEMMA TypePreserved ==
    ASSUME TypeOK, Control, [Next]_vars
    PROVE  TypeOK'
<1> USE DEF TypeOK, Control, Places, Steps, durable, counts
<1>0. file \in Files => Here \in Slots
  BY SlotIntro DEF Here
<1>1. CASE \E f \in Files : Drop(f) \/ Settle(f) \/ Withdraw(f) \/ Take(f)
  <2>1. CASE \E f \in Files : Drop(f) \/ Settle(f) \/ Withdraw(f)
    BY <2>1 DEF Drop, Settle, Withdraw
  <2>2. CASE \E f \in Files : Take(f)
    BY <2>2 DEF Take
  <2> QED
    BY <1>1, <2>1, <2>2
<1>2. CASE Tick \/ SweepDone \/ Boot \/ Crash \/ StorageFault \/ ParseRaises \/ MoveRaises
  BY <1>2 DEF Tick, SweepDone, Boot, Crash, StorageFault, ParseRaises, MoveRaises, Abort
<1>3. CASE ParseItems \/ ParseRejected \/ SaveRaw \/ Ingest \/ IngestFails
  <2>1. pc' \in Steps
    BY <1>3 DEF ParseItems, ParseRejected, SaveRaw, Ingest, IngestFails, Goto, FirstStep,
                HandlerOf
  <2>2. UNCHANGED <<place, rows, vectors, ingested, failures, batch, file, entry, faults>>
    BY <1>3 DEF ParseItems, ParseRejected, SaveRaw, Ingest, IngestFails, Goto
  <2> QED
    BY <2>1, <2>2
<1>4. CASE AddRow \/ AddTextRow \/ SetEmbedding \/ AuditIngested \/ AuditFailed
  <2>1. Here \in Slots
    BY <1>4, <1>0 DEF AddRow, AddTextRow, SetEmbedding, AuditIngested, AuditFailed
  <2>2. pc' \in Steps /\ UNCHANGED <<place, batch, file, entry, faults>>
    BY <1>4 DEF AddRow, AddTextRow, SetEmbedding, AuditIngested, AuditFailed, Goto
  <2>3. \A f \in [Slots -> Nat] : Bump(f, Here) \in [Slots -> Nat]
    BY <2>1 DEF Bump
  <2>4. /\ rows' \in [Slots -> Nat] /\ vectors' \in [Slots -> Nat]
        /\ ingested' \in [Slots -> Nat] /\ failures' \in [Slots -> Nat]
    BY <1>4, <2>3 DEF AddRow, AddTextRow, SetEmbedding, AuditIngested, AuditFailed
  <2> QED
    BY <2>2, <2>4
<1>5. CASE MoveToProcessed \/ MoveToFailed
  <2>1. place' \in [Files -> Places]
    BY <1>5 DEF MoveToProcessed, MoveToFailed
  <2>2. pc' \in Steps /\ file' \in Files \cup {NoFile} /\ entry' \in Nat
    BY <1>5 DEF MoveToProcessed, MoveToFailed, Goto, Release
  <2>3. UNCHANGED <<rows, vectors, ingested, failures, batch, faults>>
    BY <1>5 DEF MoveToProcessed, MoveToFailed, Goto, Release
  <2> QED
    BY <2>1, <2>2, <2>3
<1>6. CASE Notify
  BY <1>6 DEF Notify, EntryDone, FirstStep, Goto, Release
<1>7. CASE UNCHANGED vars
  BY <1>7 DEF vars
<1> QED
  BY <1>1, <1>2, <1>3, <1>4, <1>5, <1>6, <1>7 DEF Next, SweepStep

LEMMA ControlPreserved ==
    ASSUME TypeOK, Control, [Next]_vars
    PROVE  Control'
<1> USE DEF TypeOK, Control, Places, Steps
<1>a. \A f \in Files : Entries[f] \in Seq({"image", "text"}) /\ 1 \in 1..Len(Entries[f])
  BY EntriesFacts
<1>b. \A f \in Files : \A k \in 1..Len(Entries[f]) : Entries[f][k] \in {"image", "text"}
  BY EntriesFacts
<1>c. \A f \in Screenshots : Len(Entries[f]) = 1 /\ Entries[f][1] = "image"
  BY EntriesFacts
<1>1. CASE \E f \in Files : Drop(f) \/ Settle(f) \/ Withdraw(f)
  BY <1>1 DEF Drop, Settle, Withdraw
<1>2. ASSUME NEW f \in Files, Take(f) PROVE Control'
  BY <1>2, <1>a, <1>c DEF Take
<1>3. CASE Tick \/ SweepDone \/ Boot
  BY <1>3 DEF Tick, SweepDone, Boot
<1>4. CASE Crash \/ StorageFault \/ ParseRaises \/ MoveRaises
  BY <1>4 DEF Crash, StorageFault, ParseRaises, MoveRaises, Abort
<1>5. CASE ParseItems
  BY <1>5, <1>a, <1>b DEF ParseItems, Goto, FirstStep
<1>6. CASE ParseRejected \/ SaveRaw \/ Ingest \/ IngestFails
  BY <1>6, <1>c DEF ParseRejected, SaveRaw, Ingest, IngestFails, Goto, HandlerOf
<1>7. CASE AddRow \/ AddTextRow \/ AuditIngested \/ AuditFailed
  BY <1>7, <1>c DEF AddRow, AddTextRow, AuditIngested, AuditFailed, Goto
<1>8. CASE SetEmbedding
  <2>1. CASE file \in Screenshots
    <3>1. entry \in 1..Len(Entries[file]) /\ Len(Entries[file]) = 1
      BY <2>1, <1>c
    <3> QED
      BY <1>8, <2>1, <3>1 DEF SetEmbedding, Goto
  <2>2. CASE file \notin Screenshots
    BY <1>8, <2>2 DEF SetEmbedding, Goto
  <2> QED
    BY <2>1, <2>2
<1>9. CASE MoveToProcessed
  <2>1. CASE file \in Screenshots
    BY <1>9, <2>1, <1>c DEF MoveToProcessed, Goto
  <2>2. CASE file \notin Screenshots
    BY <1>9, <2>2 DEF MoveToProcessed, Release
  <2> QED
    BY <2>1, <2>2
<1>10. CASE MoveToFailed
  BY <1>10 DEF MoveToFailed, Goto
<1>11. CASE Notify
  <2>1. CASE file \in Screenshots \cup Rejected
    BY <1>11, <2>1 DEF Notify, EntryDone, Release
  <2>2. CASE file \notin Screenshots \cup Rejected /\ entry < Len(Entries[file])
    <3>1. entry + 1 \in 1..Len(Entries[file]) /\ file \in Files
      BY <1>11, <2>2, <1>a DEF Notify
    <3> QED
      BY <1>11, <2>2, <3>1, <1>b DEF Notify, EntryDone, FirstStep
  <2>3. CASE file \notin Screenshots \cup Rejected /\ ~(entry < Len(Entries[file]))
    BY <1>11, <2>3, <1>a DEF Notify, EntryDone, Goto
  <2> QED
    BY <2>1, <2>2, <2>3
<1>12. CASE UNCHANGED vars
  BY <1>12 DEF vars
<1> QED
  BY <1>1, <1>2, <1>3, <1>4, <1>5, <1>6, <1>7, <1>8, <1>9, <1>10, <1>11, <1>12
  DEF Next, SweepStep

----------------------------------------------------------------------------
(* Where a file is while the sweep still has it on its list or in hand.  *)
Placement ==
    /\ \A f \in batch : place[f] \in {"inbox", "withdrawn"}
    /\ pc \in {"parse", "save", "ingest", "add", "embed", "addtext", "move", "quarantine"}
          => place[file] \in {"inbox", "withdrawn"}
    /\ file \in Files \ (Screenshots \cup Rejected) => place[file] \in {"inbox", "withdrawn"}
    /\ pc = "audit" /\ file \in Screenshots => place[file] = "processed"
    /\ pc = "report" /\ file \in Screenshots \cup Rejected => place[file] = "failed"
    /\ pc = "notify" /\ file \in Screenshots => place[file] \in {"processed", "failed"}
    /\ pc = "notify" /\ file \in Rejected => place[file] = "failed"

LEMMA PlacementPreserved ==
    ASSUME TypeOK, Control, Placement, [Next]_vars
    PROVE  Placement'
<1> USE DEF TypeOK, Control, Placement, Places, Steps, durable, counts
<1>1. ASSUME NEW f \in Files, Drop(f) \/ Settle(f) \/ Withdraw(f) PROVE Placement'
  <2>1. UNCHANGED <<batch, file, pc>>
    BY <1>1 DEF Drop, Settle, Withdraw
  <2>2. place[f] \in {"absent", "settling", "inbox"} /\ place' \in [Files -> Places]
    BY <1>1 DEF Drop, Settle, Withdraw
  <2>3. \A g \in Files : g # f => place'[g] = place[g]
    BY <1>1 DEF Drop, Settle, Withdraw
  <2>4. place[f] = "inbox" => place'[f] = "withdrawn"
    BY <1>1 DEF Drop, Settle, Withdraw
  <2> QED
    BY <2>1, <2>2, <2>3, <2>4
<1>2. ASSUME NEW f \in Files, Take(f) PROVE Placement'
  BY <1>2 DEF Take
<1>3. CASE Tick \/ SweepDone \/ Boot
  BY <1>3 DEF Tick, SweepDone, Boot
<1>4. CASE Crash \/ StorageFault \/ ParseRaises \/ MoveRaises
  BY <1>4 DEF Crash, StorageFault, ParseRaises, MoveRaises, Abort
<1>5. CASE ParseItems \/ ParseRejected \/ SaveRaw \/ Ingest
  BY <1>5 DEF ParseItems, ParseRejected, SaveRaw, Ingest, Goto, FirstStep
<1>6. CASE IngestFails
  BY <1>6 DEF IngestFails, Goto, HandlerOf
<1>7. CASE AddRow \/ AddTextRow \/ SetEmbedding
  BY <1>7 DEF AddRow, AddTextRow, SetEmbedding, Goto
<1>8. CASE AuditIngested \/ AuditFailed
  BY <1>8 DEF AuditIngested, AuditFailed, Goto
<1>9. CASE MoveToProcessed
  <2>1. CASE file \in Screenshots
    BY <1>9, <2>1 DEF MoveToProcessed, Goto
  <2>2. CASE file \notin Screenshots
    BY <1>9, <2>2 DEF MoveToProcessed, Release
  <2> QED
    BY <2>1, <2>2
<1>10. CASE MoveToFailed
  BY <1>10 DEF MoveToFailed, Goto
<1>11. CASE Notify
  BY <1>11 DEF Notify, EntryDone, FirstStep, Goto, Release
<1>12. CASE UNCHANGED vars
  BY <1>12 DEF vars
<1> QED
  BY <1>1, <1>2, <1>3, <1>4, <1>5, <1>6, <1>7, <1>8, <1>9, <1>10, <1>11, <1>12
  DEF Next, SweepStep

----------------------------------------------------------------------------
(* An entry is fresh until the sweep has committed its row in the attempt  *)
(* under way: each earlier attempt at it ended in a fault.                 *)
Fresh(s) ==
    \/ file # s[1] /\ (place[s[1]] \in {"absent", "settling", "inbox"} \/ s[1] \in batch)
    \/ file = s[1] /\ entry < s[2]
    \/ file = s[1] /\ entry = s[2] /\ pc \in {"parse", "save", "ingest", "add", "addtext"}

Duplicates ==
    \A s \in Slots : rows[s] <= faults + 1 /\ (Fresh(s) => rows[s] <= faults)

(* A step commits a row for the entry in hand, or none. *)
LEMMA RowStep ==
    ASSUME TypeOK, Control, [Next]_vars
    PROVE  \/ rows' = rows
           \/ (AddRow \/ AddTextRow) /\ rows' = Bump(rows, Here)
BY DEF Next, SweepStep, vars, durable, counts, Drop, Settle, Withdraw, Take, Tick, SweepDone,
       Boot, Crash, StorageFault, ParseRaises, MoveRaises, ParseItems, ParseRejected, SaveRaw,
       Ingest, IngestFails, AddRow, AddTextRow, SetEmbedding, AuditIngested, AuditFailed,
       MoveToProcessed, MoveToFailed, Notify

(* No step makes an entry fresh again, except by a fault. *)
LEMMA FreshStep ==
    ASSUME TypeOK, Control, Placement, [Next]_vars, NEW s \in Slots, Fresh(s)'
    PROVE  \/ faults' = faults + 1 /\ rows' = rows
           \/ faults' = faults /\ Fresh(s) /\ ~((AddRow \/ AddTextRow) /\ s = Here)
<1> USE DEF TypeOK, Control, Placement, Places, Steps, durable, counts, Here
<1>s. s[1] \in Files /\ s[2] \in Nat /\ s[2] \in 1..Len(Entries[s[1]])
  BY SlotElim
<1>1. ASSUME NEW f \in Files, Drop(f) \/ Settle(f) \/ Withdraw(f)
      PROVE  faults' = faults /\ Fresh(s) /\ ~((AddRow \/ AddTextRow) /\ s = Here)
  BY <1>1, <1>s DEF Drop, Settle, Withdraw, AddRow, AddTextRow, Goto, Fresh
<1>2. ASSUME NEW f \in Files, Take(f)
      PROVE  faults' = faults /\ Fresh(s) /\ ~(AddRow \/ AddTextRow)
  BY <1>2, <1>s DEF Take, Fresh, AddRow, AddTextRow
<1>3. CASE Tick \/ SweepDone \/ Boot
  BY <1>3, <1>s DEF Tick, SweepDone, Boot, Fresh, AddRow, AddTextRow
<1>4. CASE Crash \/ StorageFault
  BY <1>4 DEF Crash, StorageFault
<1>5. CASE ParseRaises \/ MoveRaises
  BY <1>5, <1>s DEF ParseRaises, MoveRaises, Abort, Fresh, AddRow, AddTextRow
<1>6. CASE ParseItems \/ ParseRejected \/ SaveRaw \/ Ingest \/ IngestFails
  BY <1>6, <1>s DEF ParseItems, ParseRejected, SaveRaw, Ingest, IngestFails, Goto, FirstStep,
                    HandlerOf, Fresh, AddRow, AddTextRow
<1>7. CASE AddRow \/ AddTextRow
  BY <1>7, <1>s DEF AddRow, AddTextRow, Goto, Fresh
<1>8. CASE SetEmbedding \/ AuditIngested \/ AuditFailed
  BY <1>8, <1>s DEF SetEmbedding, AuditIngested, AuditFailed, Goto, Fresh, AddRow, AddTextRow
<1>9. CASE MoveToProcessed
  <2>1. CASE file \in Screenshots
    BY <1>9, <1>s, <2>1 DEF MoveToProcessed, Goto, Fresh, AddRow, AddTextRow
  <2>2. CASE file \notin Screenshots
    BY <1>9, <1>s, <2>2 DEF MoveToProcessed, Release, Fresh, AddRow, AddTextRow
  <2> QED
    BY <2>1, <2>2
<1>10. CASE MoveToFailed
  BY <1>10, <1>s DEF MoveToFailed, Goto, Fresh, AddRow, AddTextRow
<1>11. CASE Notify
  <2>1. CASE file \in Screenshots \cup Rejected
    BY <1>11, <1>s, <2>1 DEF Notify, EntryDone, Release, Fresh, AddRow, AddTextRow
  <2>2. CASE file \notin Screenshots \cup Rejected /\ entry < Len(Entries[file])
    BY <1>11, <1>s, <2>2 DEF Notify, EntryDone, Fresh, AddRow, AddTextRow
  <2>3. CASE file \notin Screenshots \cup Rejected /\ ~(entry < Len(Entries[file]))
    BY <1>11, <1>s, <2>3 DEF Notify, EntryDone, Goto, Fresh, AddRow, AddTextRow
  <2> QED
    BY <2>1, <2>2, <2>3
<1>12. CASE UNCHANGED vars
  BY <1>12, <1>s DEF vars, Fresh, AddRow, AddTextRow, Goto
<1> QED
  BY <1>1, <1>2, <1>3, <1>4, <1>5, <1>6, <1>7, <1>8, <1>9, <1>10, <1>11, <1>12
  DEF Next, SweepStep

LEMMA DuplicatesPreserved ==
    ASSUME TypeOK, Control, Placement, Duplicates, [Next]_vars
    PROVE  Duplicates'
<1> SUFFICES ASSUME NEW s \in Slots
             PROVE  rows'[s] <= faults' + 1 /\ (Fresh(s)' => rows'[s] <= faults')
  BY DEF Duplicates
<1>1. rows \in [Slots -> Nat] /\ faults \in Nat
  BY DEF TypeOK
<1>2. faults' \in {faults, faults + 1}
  BY DEF Next, SweepStep, vars, Drop, Settle, Withdraw, Take, Tick, SweepDone, Boot, Crash,
         StorageFault, ParseRaises, MoveRaises, ParseItems, ParseRejected, SaveRaw, Ingest,
         IngestFails, AddRow, AddTextRow, SetEmbedding, AuditIngested, AuditFailed, Goto,
         Release, EntryDone, MoveToProcessed, MoveToFailed, Notify
<1>3. rows[s] <= faults + 1 /\ (Fresh(s) => rows[s] <= faults)
  BY DEF Duplicates
<1>4. CASE rows' = rows
  BY <1>1, <1>2, <1>3, <1>4, FreshStep
<1>5. CASE (AddRow \/ AddTextRow) /\ rows' = Bump(rows, Here)
  <2>1. CASE s = Here
    <3>1. Fresh(s) /\ file \in Files
      BY <1>5, <2>1, SlotElim DEF Fresh, AddRow, AddTextRow, Here, Control, TypeOK
    <3>2. rows'[s] = rows[s] + 1
      BY <1>1, <1>5, <2>1 DEF Bump
    <3>3. ~Fresh(s)' \/ rows' = rows
      BY <1>5, <2>1, FreshStep
    <3> QED
      BY <1>1, <1>2, <1>3, <3>1, <3>2, <3>3
  <2>2. CASE s # Here
    <3>1. rows'[s] = rows[s]
      BY <1>1, <1>5, <2>2 DEF Bump
    <3> QED
      BY <1>1, <1>2, <1>3, <3>1, FreshStep
  <2> QED
    BY <2>1, <2>2
<1> QED
  BY <1>4, <1>5, RowStep

----------------------------------------------------------------------------
(* The audit log against the tables, entry by entry. *)
AtHand(s) == file = s[1] /\ entry = s[2]

(* The row of the attempt under way is committed, its embedding too, but not *)
(* yet its audit row.                                                       *)
Owed(s) == pc = "audit" \/ (pc = "move" /\ file \in Screenshots)
RowOwed(s) == AtHand(s) /\ (pc = "embed" \/ Owed(s))
VectorOwed(s) == AtHand(s) /\ Owed(s)

LedgerAt(s) ==
    /\ ingested[s] <= rows[s]
    /\ RowOwed(s) => ingested[s] < rows[s]
    /\ Entries[s[1]][s[2]] = "image" =>
          ingested[s] <= vectors[s] /\ (VectorOwed(s) => ingested[s] < vectors[s])
Ledger == \A s \in Slots : LedgerAt(s)

(* Every row but the latest is covered by an audit row or a fault; the    *)
(* latest may still be owed, or lost with a screenshot taken away.        *)
Slack(s) ==
    \/ AtHand(s) /\ (pc \in {"embed", "report", "quarantine"} \/ Owed(s))
    \/ file # s[1] /\ s[1] \notin batch /\ place[s[1]] = "withdrawn"
CoveredAt(s) ==
    /\ rows[s] <= ingested[s] + failures[s] + faults + 1
    /\ ~Slack(s) => rows[s] <= ingested[s] + failures[s] + faults
Covered == \A s \in Slots : CoveredAt(s)

(* What the sweep has done for a file it is about to file as processed.  *)
Filing(s) == file = s[1] /\ file \in Screenshots /\ pc = "move"
Filed(s) == rows[s] > 0 \/ failures[s] > 0
Behind(s) ==
    /\ file = s[1] /\ file \notin Screenshots \cup Rejected
    /\ s[2] < entry \/ (s[2] = entry /\ pc \in {"embed", "audit", "notify", "move"})
AccountedAt(s) ==
    /\ place[s[1]] = "processed" =>
          IF s[1] \in Screenshots THEN vectors[s] > 0 ELSE Filed(s)
    /\ Behind(s) => Filed(s)
    /\ Filing(s) => vectors[s] > 0
Accounted == \A s \in Slots : AccountedAt(s)

(* The embeddings of a screenshot that is still to be moved, or was moved *)
(* to .failed: each is left over from a fault, but the one committed last *)
(* before the move.                                                      *)
Unmoved(s) ==
    s[1] \in Screenshots /\ place[s[1]] \notin {"processed", "withdrawn"}
QuarantinedAt(s) ==
    Unmoved(s) => /\ vectors[s] <= faults + 1
                  /\ ~Filing(s) => vectors[s] <= faults
Quarantined == \A s \in Slots : QuarantinedAt(s)

(* What one step does to the counters of one entry. *)
LEMMA CountStep ==
    ASSUME TypeOK, Control, [Next]_vars, NEW s \in Slots
    PROVE  /\ rows'[s] = IF (AddRow \/ AddTextRow) /\ AtHand(s) THEN rows[s] + 1 ELSE rows[s]
           /\ vectors'[s] = IF SetEmbedding /\ AtHand(s) THEN vectors[s] + 1 ELSE vectors[s]
           /\ ingested'[s] = IF AuditIngested /\ AtHand(s) THEN ingested[s] + 1 ELSE ingested[s]
           /\ failures'[s] = IF AuditFailed /\ AtHand(s) THEN failures[s] + 1 ELSE failures[s]
<1>1. s = Here <=> AtHand(s)
  BY SlotElim DEF AtHand, Here
<1>2. \A f \in [Slots -> Nat] : Bump(f, Here)[s] = IF s = Here THEN f[s] + 1 ELSE f[s]
  BY DEF Bump
<1>3. /\ rows \in [Slots -> Nat] /\ vectors \in [Slots -> Nat]
      /\ ingested \in [Slots -> Nat] /\ failures \in [Slots -> Nat]
  BY DEF TypeOK
<1>4. CASE AddRow \/ AddTextRow
  BY <1>1, <1>2, <1>3, <1>4
  DEF AddRow, AddTextRow, SetEmbedding, AuditIngested, AuditFailed
<1>5. CASE SetEmbedding
  BY <1>1, <1>2, <1>3, <1>5
  DEF AddRow, AddTextRow, SetEmbedding, AuditIngested, AuditFailed
<1>6. CASE AuditIngested \/ AuditFailed
  BY <1>1, <1>2, <1>3, <1>6
  DEF AddRow, AddTextRow, SetEmbedding, AuditIngested, AuditFailed
<1>7. CASE ~(AddRow \/ AddTextRow \/ SetEmbedding \/ AuditIngested \/ AuditFailed)
  <2>1. UNCHANGED counts
    BY <1>7 DEF Next, SweepStep, vars, durable, counts, Drop, Settle, Withdraw, Take, Tick,
       SweepDone, Boot, Crash, StorageFault, ParseRaises, MoveRaises, ParseItems, ParseRejected,
       SaveRaw, Ingest, IngestFails, MoveToProcessed, MoveToFailed, Notify
  <2> QED
    BY <1>7, <2>1 DEF counts
<1> QED
  BY <1>4, <1>5, <1>6, <1>7

(* No other step than the commit of a row, or of an embedding, makes it    *)
(* owed, and the audit row settles it.                                    *)
LEMMA OwedStep ==
    ASSUME TypeOK, Control, [Next]_vars, NEW s \in Slots
    PROVE  /\ RowOwed(s)' => RowOwed(s) \/ ((AddRow \/ AddTextRow) /\ AtHand(s))
           /\ VectorOwed(s)' => \/ VectorOwed(s) \/ (SetEmbedding /\ AtHand(s))
                                \/ Entries[s[1]][s[2]] = "text"
           /\ AuditIngested /\ AtHand(s) =>
                 RowOwed(s) /\ VectorOwed(s) /\ ~RowOwed(s)' /\ ~VectorOwed(s)'
<1> USE DEF TypeOK, Control, Places, Steps, durable, counts, RowOwed, VectorOwed, Owed, AtHand
<1>s. s[1] \in Files /\ s[2] \in Nat /\ s[2] \in 1..Len(Entries[s[1]])
  BY SlotElim
<1>1. CASE \E f \in Files : Drop(f) \/ Settle(f) \/ Withdraw(f) \/ Take(f)
  BY <1>1, <1>s DEF Drop, Settle, Withdraw, Take, AuditIngested, Goto
<1>2. CASE Tick \/ SweepDone \/ Boot \/ Crash \/ StorageFault \/ ParseRaises \/ MoveRaises
  BY <1>2, <1>s DEF Tick, SweepDone, Boot, Crash, StorageFault, ParseRaises, MoveRaises, Abort,
                    AuditIngested
<1>3. CASE ParseItems \/ ParseRejected \/ SaveRaw \/ Ingest \/ IngestFails
  BY <1>3, <1>s DEF ParseItems, ParseRejected, SaveRaw, Ingest, IngestFails, Goto, FirstStep,
                    HandlerOf, AuditIngested
<1>4. CASE AddRow \/ AddTextRow
  BY <1>4, <1>s DEF AddRow, AddTextRow, Goto, AuditIngested
<1>5. CASE SetEmbedding
  BY <1>5, <1>s DEF SetEmbedding, Goto, AuditIngested
<1>6. CASE AuditIngested \/ AuditFailed
  BY <1>6, <1>s DEF AuditIngested, AuditFailed, Goto
<1>7. CASE MoveToProcessed
  <2>1. CASE file \in Screenshots
    BY <1>7, <1>s, <2>1 DEF MoveToProcessed, Goto, AuditIngested
  <2>2. CASE file \notin Screenshots
    BY <1>7, <1>s, <2>2 DEF MoveToProcessed, Release, AuditIngested
  <2> QED
    BY <2>1, <2>2
<1>8. CASE MoveToFailed
  BY <1>8, <1>s DEF MoveToFailed, Goto, AuditIngested
<1>9. CASE Notify
  BY <1>9, <1>s DEF Notify, EntryDone, FirstStep, Goto, Release, AuditIngested
<1>10. CASE UNCHANGED vars
  BY <1>10, <1>s DEF vars, AuditIngested, Goto
<1> QED
  BY <1>1, <1>2, <1>3, <1>4, <1>5, <1>6, <1>7, <1>8, <1>9, <1>10 DEF Next, SweepStep

LEMMA LedgerPreserved ==
    ASSUME TypeOK, Control, Ledger, [Next]_vars
    PROVE  Ledger'
<1> SUFFICES ASSUME NEW s \in Slots PROVE LedgerAt(s)'
  BY DEF Ledger
<1>1. LedgerAt(s) /\ rows[s] \in Nat /\ vectors[s] \in Nat /\ ingested[s] \in Nat
  BY DEF Ledger, TypeOK
<1>2. ~(AuditIngested /\ (AddRow \/ AddTextRow \/ SetEmbedding))
  BY DEF AuditIngested, AddRow, AddTextRow, SetEmbedding
<1> QED
  BY <1>1, <1>2, CountStep, OwedStep DEF LedgerAt

(* The slack of an entry is opened by the commit of its row, and given up *)
(* for an audit row or a fault only.                                      *)
LEMMA SlackStep ==
    ASSUME TypeOK, Control, Placement, [Next]_vars, NEW s \in Slots
    PROVE  /\ faults' = faults \/ (faults' = faults + 1 /\ ~(AddRow \/ AddTextRow))
           /\ (AddRow \/ AddTextRow) /\ AtHand(s) => ~Slack(s) /\ Slack(s)'
           /\ ~Slack(s)' => \/ ~Slack(s) \/ faults' = faults + 1
                            \/ (AuditIngested \/ AuditFailed) /\ AtHand(s)
<1> USE DEF TypeOK, Control, Placement, Places, Steps, durable, counts
<1>s. s[1] \in Files /\ s[2] \in Nat
  BY SlotElim
<1>1. CASE \E f \in Files : Drop(f) \/ Settle(f) \/ Withdraw(f)
  BY <1>1, <1>s DEF Drop, Settle, Withdraw, AddRow, AddTextRow, Slack, Owed, AtHand
<1>2. CASE \E f \in Files : Take(f)
  BY <1>2, <1>s DEF Take, AddRow, AddTextRow, Slack, Owed, AtHand
<1>3. CASE Tick \/ SweepDone \/ Boot
  BY <1>3, <1>s DEF Tick, SweepDone, Boot, AddRow, AddTextRow, Slack, Owed, AtHand
<1>4. CASE Crash \/ StorageFault \/ ParseRaises \/ MoveRaises
  <2>1. CASE Crash \/ StorageFault
    BY <2>1 DEF Crash, StorageFault, AddRow, AddTextRow, Goto
  <2>2. CASE ParseRaises \/ MoveRaises
    BY <2>2, <1>s DEF ParseRaises, MoveRaises, Abort, AddRow, AddTextRow, Slack, Owed, AtHand
  <2> QED
    BY <1>4, <2>1, <2>2
<1>5. CASE ParseItems \/ ParseRejected \/ SaveRaw \/ Ingest \/ IngestFails
  BY <1>5, <1>s DEF ParseItems, ParseRejected, SaveRaw, Ingest, IngestFails, Goto, FirstStep,
                    HandlerOf, AddRow, AddTextRow, Slack, Owed, AtHand
<1>6. CASE AddRow \/ AddTextRow \/ SetEmbedding
  BY <1>6, <1>s DEF AddRow, AddTextRow, SetEmbedding, Goto, Slack, Owed, AtHand
<1>7. CASE AuditIngested \/ AuditFailed
  BY <1>7, <1>s DEF AuditIngested, AuditFailed, Goto, AddRow, AddTextRow, Slack, Owed, AtHand
<1>8. CASE MoveToProcessed
  <2>1. CASE file \in Screenshots
    BY <1>8, <1>s, <2>1 DEF MoveToProcessed, Goto, AddRow, AddTextRow, Slack, Owed, AtHand
  <2>2. CASE file \notin Screenshots
    BY <1>8, <1>s, <2>2 DEF MoveToProcessed, Release, AddRow, AddTextRow, Slack, Owed, AtHand
  <2> QED
    BY <2>1, <2>2
<1>9. CASE MoveToFailed
  BY <1>9, <1>s DEF MoveToFailed, Goto, AddRow, AddTextRow, Slack, Owed, AtHand
<1>10. CASE Notify
  BY <1>10, <1>s DEF Notify, EntryDone, FirstStep, Goto, Release, AddRow, AddTextRow, Slack, Owed, AtHand
<1>11. CASE UNCHANGED vars
  BY <1>11, <1>s DEF vars, Goto, AddRow, AddTextRow, Slack, Owed, AtHand
<1> QED
  BY <1>1, <1>2, <1>3, <1>4, <1>5, <1>6, <1>7, <1>8, <1>9, <1>10, <1>11 DEF Next, SweepStep

LEMMA CoveredPreserved ==
    ASSUME TypeOK, Control, Placement, Covered, [Next]_vars
    PROVE  Covered'
<1> SUFFICES ASSUME NEW s \in Slots PROVE CoveredAt(s)'
  BY DEF Covered
<1>1. /\ CoveredAt(s) /\ faults \in Nat
      /\ rows[s] \in Nat /\ ingested[s] \in Nat /\ failures[s] \in Nat
  BY DEF Covered, TypeOK
<1>2. ~((AuditIngested \/ AuditFailed) /\ (AddRow \/ AddTextRow)) /\ ~(AuditIngested /\ AuditFailed)
  BY DEF AuditIngested, AuditFailed, AddRow, AddTextRow
<1> QED
  BY <1>1, <1>2, CountStep, SlackStep DEF CoveredAt

(* An entry comes to be behind the sweep by its row or its report, and a  *)
(* file is filed as processed with all its entries behind the sweep.      *)

LEMMA BehindStep ==
    ASSUME TypeOK, Control, [Next]_vars, NEW s \in Slots
    PROVE  /\ Behind(s)' => \/ Behind(s)
                            \/ AtHand(s) /\ (AddRow \/ AddTextRow \/ AuditFailed)
           /\ Filing(s)' => Filing(s) \/ (AtHand(s) /\ SetEmbedding)
           /\ place'[s[1]] = "processed" =>
                 place[s[1]] = "processed" \/ Behind(s) \/ Filing(s)
<1> USE DEF TypeOK, Control, Places, Steps, durable, counts
<1>s. /\ s[1] \in Files /\ s[2] \in Nat /\ s[2] \in 1..Len(Entries[s[1]])
      /\ s[1] \in Screenshots => Len(Entries[s[1]]) = 1
  BY SlotElim, EntriesFacts
<1>1. CASE \E f \in Files : Drop(f) \/ Settle(f) \/ Withdraw(f)
  BY <1>1, <1>s DEF Drop, Settle, Withdraw, Behind, Filing, AtHand
<1>2. CASE \E f \in Files : Take(f)
  BY <1>2, <1>s DEF Take, Behind, Filing, AtHand
<1>3. CASE Tick \/ SweepDone \/ Boot
  BY <1>3, <1>s DEF Tick, SweepDone, Boot, Behind, Filing, AtHand
<1>4. CASE Crash \/ StorageFault \/ ParseRaises \/ MoveRaises
  BY <1>4, <1>s DEF Crash, StorageFault, ParseRaises, MoveRaises, Abort, Behind, Filing, AtHand
<1>5. CASE ParseItems \/ ParseRejected \/ SaveRaw \/ Ingest \/ IngestFails
  BY <1>5, <1>s DEF ParseItems, ParseRejected, SaveRaw, Ingest, IngestFails, Goto, FirstStep,
                    HandlerOf, Behind, Filing, AtHand
<1>6. CASE AddRow \/ AddTextRow \/ SetEmbedding
  <2>1. CASE AddRow \/ AddTextRow
    BY <2>1, <1>s DEF AddRow, AddTextRow, SetEmbedding, Goto, Behind, Filing, AtHand
  <2>2. CASE SetEmbedding
    <3>1. CASE file \in Screenshots
      <4>1. /\ pc' = "move" /\ UNCHANGED <<file, entry, place>>
            /\ pc = "embed" /\ file \in Files /\ entry \in 1..Len(Entries[file])
        BY <2>2, <3>1 DEF SetEmbedding, Goto
      <4>2. file = s[1] => entry \in 1..1 /\ s[2] \in 1..1
        BY <4>1, <3>1, <1>s
      <4> QED
        BY <2>2, <3>1, <4>1, <4>2 DEF Behind, Filing, AtHand
    <3>2. CASE file \notin Screenshots
      BY <2>2, <3>2, <1>s DEF SetEmbedding, Goto, Behind, Filing, AtHand
    <3> QED
      BY <3>1, <3>2
  <2> QED
    BY <1>6, <2>1, <2>2
<1>7. CASE AuditIngested \/ AuditFailed
  BY <1>7, <1>s DEF AuditIngested, AuditFailed, Goto, Behind, Filing, AtHand
<1>8. CASE MoveToProcessed
  <2>1. CASE file \in Screenshots
    BY <1>8, <1>s, <2>1 DEF MoveToProcessed, Goto, Behind, Filing, AtHand
  <2>2. CASE file \notin Screenshots
    BY <1>8, <1>s, <2>2 DEF MoveToProcessed, Release, Behind, Filing, AtHand
  <2> QED
    BY <2>1, <2>2
<1>9. CASE MoveToFailed
  BY <1>9, <1>s DEF MoveToFailed, Goto, Behind, Filing, AtHand
<1>10. CASE Notify
  BY <1>10, <1>s DEF Notify, EntryDone, FirstStep, Goto, Release, Behind, Filing, AtHand
<1>11. CASE UNCHANGED vars
  BY <1>11, <1>s DEF vars, Goto, Behind, Filing, AtHand
<1> QED
  BY <1>1, <1>2, <1>3, <1>4, <1>5, <1>6, <1>7, <1>8, <1>9, <1>10, <1>11 DEF Next, SweepStep

LEMMA AccountedPreserved ==
    ASSUME TypeOK, Control, Accounted, [Next]_vars
    PROVE  Accounted'
<1> SUFFICES ASSUME NEW s \in Slots PROVE AccountedAt(s)'
  BY DEF Accounted
<1>1. /\ AccountedAt(s) /\ rows[s] \in Nat /\ vectors[s] \in Nat /\ failures[s] \in Nat
  BY DEF Accounted, TypeOK
<1>2. Behind(s) => s[1] \notin Screenshots
  BY DEF Behind
<1> QED
  BY <1>1, <1>2, CountStep, BehindStep DEF AccountedAt, Filing, Filed

(* A screenshot's embedding is committed on the way to .processed.        *)
LEMMA UnmovedStep ==
    ASSUME TypeOK, Control, Placement, [Next]_vars, NEW s \in Slots
    PROVE  /\ faults' = faults \/ faults' = faults + 1
           /\ Unmoved(s)' => Unmoved(s)
           /\ Unmoved(s) /\ SetEmbedding /\ AtHand(s) =>
                 Filing(s)' /\ ~Filing(s) /\ faults' = faults
           /\ Unmoved(s)' /\ Filing(s) => Filing(s)' \/ faults' = faults + 1
<1> USE DEF TypeOK, Control, Placement, Places, Steps, durable, counts
<1>s. s[1] \in Files
  BY SlotElim
<1>1. CASE \E f \in Files : Drop(f) \/ Settle(f) \/ Withdraw(f)
  BY <1>1, <1>s DEF Drop, Settle, Withdraw, Unmoved, Filing, AtHand, SetEmbedding
<1>2. CASE \E f \in Files : Take(f)
  BY <1>2, <1>s DEF Take, Unmoved, Filing, AtHand, SetEmbedding
<1>3. CASE Tick \/ SweepDone \/ Boot
  BY <1>3, <1>s DEF Tick, SweepDone, Boot, Unmoved, Filing, AtHand, SetEmbedding
<1>4. CASE Crash \/ StorageFault \/ ParseRaises \/ MoveRaises
  <2>1. CASE Crash \/ StorageFault
    BY <2>1, <1>s DEF Crash, StorageFault, Abort, Unmoved, Filing, SetEmbedding, Goto
  <2>2. CASE ParseRaises \/ MoveRaises
    BY <2>2, <1>s DEF ParseRaises, MoveRaises, Abort, Unmoved, Filing, SetEmbedding
  <2> QED
    BY <1>4, <2>1, <2>2
<1>5. CASE ParseItems \/ ParseRejected \/ SaveRaw \/ Ingest \/ IngestFails
  BY <1>5, <1>s DEF ParseItems, ParseRejected, SaveRaw, Ingest, IngestFails, Goto, FirstStep,
                    HandlerOf, Unmoved, Filing, AtHand, SetEmbedding
<1>6. CASE AddRow \/ AddTextRow \/ SetEmbedding
  BY <1>6, <1>s DEF AddRow, AddTextRow, SetEmbedding, Goto, Unmoved, Filing, AtHand
<1>7. CASE AuditIngested \/ AuditFailed
  BY <1>7, <1>s DEF AuditIngested, AuditFailed, Goto, Unmoved, Filing, AtHand, SetEmbedding
<1>8. CASE MoveToProcessed
  <2>1. CASE file \in Screenshots
    BY <1>8, <1>s, <2>1 DEF MoveToProcessed, Goto, Unmoved, Filing, AtHand, SetEmbedding
  <2>2. CASE file \notin Screenshots
    BY <1>8, <1>s, <2>2 DEF MoveToProcessed, Release, Unmoved, Filing, AtHand, SetEmbedding
  <2> QED
    BY <2>1, <2>2
<1>9. CASE MoveToFailed
  BY <1>9, <1>s DEF MoveToFailed, Goto, Unmoved, Filing, AtHand, SetEmbedding
<1>10. CASE Notify
  BY <1>10, <1>s DEF Notify, EntryDone, FirstStep, Goto, Release, Unmoved, Filing, AtHand, SetEmbedding
<1>11. CASE UNCHANGED vars
  BY <1>11, <1>s DEF vars, Goto, Unmoved, Filing, AtHand, SetEmbedding
<1> QED
  BY <1>1, <1>2, <1>3, <1>4, <1>5, <1>6, <1>7, <1>8, <1>9, <1>10, <1>11 DEF Next, SweepStep

LEMMA QuarantinedPreserved ==
    ASSUME TypeOK, Control, Placement, Quarantined, [Next]_vars
    PROVE  Quarantined'
<1> SUFFICES ASSUME NEW s \in Slots PROVE QuarantinedAt(s)'
  BY DEF Quarantined
<1>1. QuarantinedAt(s) /\ vectors[s] \in Nat /\ faults \in Nat
  BY DEF Quarantined, TypeOK
<1> QED
  BY <1>1, CountStep, UnmovedStep DEF QuarantinedAt

----------------------------------------------------------------------------
(* The inductive invariant, and what it gives. *)
IInv ==
    /\ TypeOK /\ Control /\ Placement
    /\ Duplicates /\ Ledger /\ Covered /\ Accounted /\ Quarantined

LEMMA InitIInv == Init => IInv
<1> SUFFICES ASSUME Init PROVE IInv
  OBVIOUS
<1>1. TypeOK /\ Control
  BY InitTyped
<1>2. Placement
  BY DEF Init, Placement
<1>3. \A s \in Slots : /\ s[1] \in Files /\ place[s[1]] = "absent"
                       /\ rows[s] = 0 /\ vectors[s] = 0 /\ ingested[s] = 0 /\ failures[s] = 0
  BY SlotElim DEF Init
<1>4. Duplicates /\ Ledger /\ Covered /\ Accounted /\ Quarantined
  BY <1>3 DEF Init, Duplicates, Ledger, LedgerAt, RowOwed, VectorOwed, Owed, AtHand,
     Covered, CoveredAt, Accounted, AccountedAt, Behind, Filing, Quarantined, QuarantinedAt
<1> QED
  BY <1>1, <1>2, <1>4 DEF IInv

LEMMA IInvPreserved == IInv /\ [Next]_vars => IInv'
BY TypePreserved, ControlPreserved, PlacementPreserved, DuplicatesPreserved, LedgerPreserved,
   CoveredPreserved, AccountedPreserved, QuarantinedPreserved DEF IInv

LEMMA Invariance == Spec => []IInv
BY InitIInv, IInvPreserved, PTL DEF Spec

(* The state of the watcher is always well typed. *)
THEOREM TypeCorrect == Spec => []TypeOK
<1>1. IInv => TypeOK
  BY DEF IInv
<1> QED
  BY <1>1, Invariance, PTL

(* No file reaches .processed with an entry that is neither in the wardrobe *)
(* nor in the audit log as failed, however crashes, storage faults and the  *)
(* operator interleave with process_one and process_email.                  *)
THEOREM ProcessedFilesAreAccounted == Spec => []ProcessedIsAccounted
<1>1. IInv => ProcessedIsAccounted
  BY DEF IInv, Accounted, AccountedAt, Filed, ProcessedIsAccounted
<1> QED
  BY <1>1, Invariance, PTL

(* An entry is ingested at most once more than there were faults. *)
THEOREM DuplicatesAreBounded == Spec => []BoundedDuplicates
<1>1. IInv => BoundedDuplicates
  <2> SUFFICES ASSUME IInv, NEW s \in Slots PROVE rows[s] <= 1 + faults
    BY DEF BoundedDuplicates
  <2> QED
    BY DEF IInv, Duplicates, TypeOK
<1> QED
  BY <1>1, Invariance, PTL

(* The audit log never claims an ingestion that the tables do not hold. *)
THEOREM AuditIsTruthful == Spec => []AuditTruthful
<1>1. IInv => AuditTruthful
  BY DEF IInv, Ledger, LedgerAt, AuditTruthful
<1> QED
  BY <1>1, Invariance, PTL

(* Every row is in the audit log, but for one per fault and the one in hand *)
(* or lost with a screenshot that was taken away.                           *)
THEOREM RowsAreAudited == Spec => []NoSilentRows
<1>1. IInv => NoSilentRows
  <2> SUFFICES ASSUME IInv, NEW s \in Slots
               PROVE  rows[s] <= ingested[s] + failures[s] + faults
                         + (IF InHand(s) \/ place[s[1]] = "withdrawn" THEN 1 ELSE 0)
    BY DEF NoSilentRows
  <2>1. /\ CoveredAt(s) /\ faults \in Nat
        /\ rows[s] \in Nat /\ ingested[s] \in Nat /\ failures[s] \in Nat
    BY DEF IInv, Covered, TypeOK
  <2>2. Slack(s) => InHand(s) \/ place[s[1]] = "withdrawn"
    BY DEF Slack, AtHand, InHand
  <2> QED
    BY <2>1, <2>2 DEF CoveredAt
<1> QED
  BY <1>1, Invariance, PTL

(* A quarantined screenshot is in the wardrobe with its embedding at most as *)
(* often as faults struck.                                                   *)
THEOREM QuarantineIsHonest == Spec => []QuarantinedNotIngested
<1>1. IInv => QuarantinedNotIngested
  <2> SUFFICES ASSUME IInv, NEW s \in Slots,
                      s[1] \in Screenshots, place[s[1]] = "failed"
               PROVE  vectors[s] <= faults
    BY DEF QuarantinedNotIngested
  <2>1. QuarantinedAt(s) /\ Unmoved(s)
    BY DEF IInv, Quarantined, Unmoved
  <2>2. ~Filing(s)
    BY DEF IInv, Placement, Filing
  <2> QED
    BY <2>1, <2>2 DEF QuarantinedAt
<1> QED
  BY <1>1, Invariance, PTL

----------------------------------------------------------------------------
(* The watcher implements the contract of the drop folder. *)
Status == [f \in Files |-> StatusOf(place[f])]
Recorded == {s \in Slots : rows[s] > 0}
Reported == {s \in Slots : failures[s] > 0}

(* What a contract step means for the mapped state. *)
LEMMA SlotsOfFile ==
    ASSUME NEW f \in Files
    PROVE  /\ \A s \in Contract!SlotsOf(f) : s \in Slots /\ s[1] = f
           /\ \A k \in DOMAIN Entries[f] : <<f, k>> \in Contract!SlotsOf(f)
BY SlotIntro DEF Contract!SlotsOf

(* A step that leaves the files where they are, and the counters of rows and *)
(* failures alone, is a stuttering step of the contract.                     *)
LEMMA ContractStutter ==
    ASSUME UNCHANGED <<place, rows, failures>>
    PROVE  UNCHANGED Contract!vars
BY DEF Contract!vars

LEMMA ContractInit == Init => Contract!Init
<1> SUFFICES ASSUME Init PROVE Contract!Init
  OBVIOUS
<1>1. Status = [f \in Files |-> "absent"]
  BY DEF Status, StatusOf, Init
<1>2. Recorded = {} /\ Reported = {}
  BY DEF Recorded, Reported, Init
<1> QED
  BY <1>1, <1>2 DEF Contract!Init, Status, Recorded, Reported

(* Moving one file changes its status only. *)
LEMMA StatusStep ==
    ASSUME TypeOK, NEW f \in Files, NEW p \in Places, place' = [place EXCEPT ![f] = p]
    PROVE  Status' = [Status EXCEPT ![f] = StatusOf(p)]
BY DEF Status, TypeOK

(* One more row, or one more report, adds the entry to the mapped set. *)
LEMMA BumpStep ==
    ASSUME NEW n \in [Slots -> Nat], NEW x \in Slots
    PROVE  {s \in Slots : Bump(n, x)[s] > 0} = {s \in Slots : n[s] > 0} \cup {x}
BY DEF Bump

LEMMA ContractStep == IInv /\ [Next]_vars => [Contract!Next]_(Contract!vars)
<1> SUFFICES ASSUME IInv, [Next]_vars PROVE [Contract!Next]_(Contract!vars)
  OBVIOUS
<1> USE DEF counts, durable
<1>t. TypeOK /\ Control /\ Placement /\ Ledger /\ Accounted
  BY DEF IInv
<1>s. /\ Status = [f \in Files |-> StatusOf(place[f])]
      /\ \A f \in Files : Status[f] = StatusOf(place[f])
  BY DEF Status
<1>h. file \in Files => Here \in Slots /\ Here \in Contract!SlotsOf(file)
  BY <1>t, SlotsOfFile, SlotIntro, EntriesFacts DEF Here, Control
<1>1. ASSUME NEW f \in Files, Drop(f) PROVE UNCHANGED Contract!vars
  <2>1. Status' = Status
    BY <1>1, <1>t DEF Drop, Status, StatusOf, TypeOK
  <2> QED
    BY <1>1, <2>1 DEF Drop, Status, Contract!vars
<1>2. ASSUME NEW f \in Files, Settle(f) PROVE Contract!Arrive(f)
  BY <1>2, <1>t, <1>s, StatusStep DEF Settle, Contract!Arrive, Status, StatusOf, Places
<1>3. ASSUME NEW f \in Files, Withdraw(f) PROVE Contract!TakeBack(f)
  BY <1>3, <1>t, <1>s, StatusStep DEF Withdraw, Contract!TakeBack, Status, StatusOf, Places
<1>4. CASE AddRow \/ AddTextRow
  <2>1. /\ file \in Files /\ place[file] \in {"inbox", "withdrawn"}
        /\ rows' = Bump(rows, Here) /\ UNCHANGED <<place, failures>>
    BY <1>4, <1>t DEF AddRow, AddTextRow, Control, Placement, TypeOK
  <2>2. Recorded' = Recorded \cup {Here}
    BY <2>1, <1>t, <1>h, BumpStep DEF Recorded, TypeOK
  <2> QED
    BY <2>1, <2>2, <1>h, <1>s DEF Contract!Next, Contract!Record, Status, StatusOf, Recorded
<1>5. CASE AuditFailed
  <2>1. /\ file \in Files /\ place[file] \in {"inbox", "withdrawn", "failed"}
        /\ failures' = Bump(failures, Here) /\ UNCHANGED <<place, rows>>
    BY <1>5, <1>t DEF AuditFailed, Control, Placement, TypeOK
  <2>2. Reported' = Reported \cup {Here}
    BY <2>1, <1>t, <1>h, BumpStep DEF Reported, TypeOK
  <2> QED
    BY <2>1, <2>2, <1>h, <1>s DEF Contract!Next, Contract!Report, Status, StatusOf, Reported
<1>6. CASE MoveToProcessed
  <2>1. file \in Files /\ entry = Len(Entries[file]) /\ file \notin Rejected
    BY <1>6, <1>t DEF MoveToProcessed, Control, TypeOK
  <2>2. ASSUME NEW s \in Contract!SlotsOf(file) PROVE rows[s] > 0 \/ failures[s] > 0
    <3>1. s \in Slots /\ s[1] = file /\ s[2] \in 1..entry
      BY <2>1, SlotsOfFile, SlotElim
    <3>2. CASE file \in Screenshots
      <4>1. RowOwed(s)
        BY <1>6, <2>1, <3>1, <3>2, EntriesFacts DEF RowOwed, AtHand, Owed, MoveToProcessed
      <4> QED
        BY <3>1, <4>1, <1>t DEF Ledger, LedgerAt, TypeOK
    <3>3. CASE file \notin Screenshots
      BY <1>6, <2>1, <3>1, <3>3, <1>t
      DEF Accounted, AccountedAt, Behind, Filed, MoveToProcessed, TypeOK
    <3> QED
      BY <3>2, <3>3
  <2>3. Contract!SlotsOf(file) \subseteq Recorded \cup Reported
    BY <2>1, <2>2, SlotsOfFile DEF Recorded, Reported
  <2>4. Contract!Complete(file)
    BY <1>6, <2>1, <2>3, <1>t, <1>s, StatusStep
    DEF MoveToProcessed, Contract!Complete, Status, StatusOf, Places, Recorded, Reported
  <2> QED
    BY <2>1, <2>4 DEF Contract!Next
<1>7. CASE MoveToFailed
  <2>1. file \in Files
    BY <1>7, <1>t DEF MoveToFailed, Control, TypeOK
  <2>2. Contract!Quarantine(file)
    BY <1>7, <2>1, <1>t, <1>s, StatusStep
    DEF MoveToFailed, Contract!Quarantine, Status, StatusOf, Places
  <2> QED
    BY <2>1, <2>2 DEF Contract!Next
<1>8. CASE \/ Tick \/ (\E f \in Files : Take(f)) \/ SweepDone \/ ParseItems \/ ParseRejected
           \/ ParseRaises \/ SaveRaw \/ Ingest \/ SetEmbedding \/ IngestFails \/ MoveRaises
           \/ AuditIngested \/ Notify \/ StorageFault \/ Crash \/ Boot \/ UNCHANGED vars
  <2>1. UNCHANGED <<place, rows, failures>>
    BY <1>8 DEF Tick, Take, SweepDone, ParseItems, ParseRejected, ParseRaises, SaveRaw, Ingest,
       SetEmbedding, IngestFails, MoveRaises, AuditIngested, Notify, StorageFault, Crash, Boot, vars
  <2> QED
    BY <2>1, ContractStutter
<1> QED
  BY <1>1, <1>2, <1>3, <1>4, <1>5, <1>6, <1>7, <1>8 DEF Next, SweepStep, Contract!Next

(* Every behaviour of the watcher is allowed by the contract. *)
THEOREM WatcherImplementsContract == Spec => ImplementsContract
<1>1. Spec => Contract!Spec
  BY ContractInit, ContractStep, Invariance, PTL DEF Spec, Contract!Spec
<1> QED
  BY <1>1 DEF ImplementsContract

----------------------------------------------------------------------------
(* How long a sweep takes. *)

(* The steps still to be taken for the entry in hand, at most.  An email    *)
(* is moved after its last entry was posted, a screenshot before it is.     *)
Ahead ==
    IF pc = "move" THEN (IF file \in Screenshots THEN 5 ELSE 2)
    ELSE [down |-> 0, idle |-> 0, next |-> 1, notify |-> 3, audit |-> 4, report |-> 4,
          quarantine |-> 5, embed |-> 6, addtext |-> 6, add |-> 7, ingest |-> 8,
          save |-> 9, parse |-> 10][pc]

(* Those for the file in hand; an entry takes less than ten. *)
Left == Ahead + IF file \in Files THEN 10 * (Len(Entries[file]) - entry) ELSE 0

(* First the list of the sweep gets shorter, then the file in hand is done. *)
Fewer == batch' \subseteq batch /\ batch' # batch
Closer == Fewer \/ (batch' = batch /\ Left' < Left)

SweepsWindDown ==
    /\ [](Left \in Nat)
    /\ [][/\ SweepStep /\ pc # "idle" => Closer
          /\ pc # "idle" => Fewer \/ (batch' = batch /\ Left' <= Left)
          /\ SweepStep /\ file \in Files /\ file' # file
                => place'[file] # "inbox" \/ file \in Poison]_vars

LEMMA LeftFacts ==
    ASSUME TypeOK, Control
    PROVE  /\ Left \in Nat
           /\ file \in Files => entry \in 1..Len(Entries[file]) /\ Len(Entries[file]) \in Nat
                                /\ Left >= 10 * (Len(Entries[file]) - entry) + 2
                                /\ Left = Ahead + 10 * (Len(Entries[file]) - entry)
           /\ Ahead \in 0..10
<1>1. Ahead \in 0..10
  BY DEF Ahead, TypeOK, Steps
<1>2. CASE file \notin Files
  BY <1>1, <1>2 DEF Left
<1>3. CASE file \in Files
  <2>1. entry \in 1..Len(Entries[file]) /\ Len(Entries[file]) \in Nat
    BY <1>3, EntriesFacts DEF Control
  <2>2. Ahead >= 2
    BY <1>3 DEF Ahead, TypeOK, Steps, Control
  <2> QED
    BY <1>1, <1>3, <2>1, <2>2 DEF Left
<1> QED
  BY <1>2, <1>3

(* Three ways of coming closer: within an entry, to the next one, to the    *)
(* end of a file.                                                           *)
LEMMA OnTheEntry ==
    ASSUME TypeOK, Control, file \in Files, UNCHANGED <<batch, file, entry>>,
           Ahead' < Ahead, Ahead' \in Nat
    PROVE  Closer
<1>1. Left = Ahead + 10 * (Len(Entries[file]) - entry)
  BY DEF Left
<1>2. Left' = Ahead' + 10 * (Len(Entries[file]) - entry)
  BY DEF Left
<1>3. Ahead \in 0..10 /\ entry \in Nat /\ Len(Entries[file]) \in Nat
  BY LeftFacts DEF TypeOK
<1> QED
  BY <1>1, <1>2, <1>3 DEF Closer

LEMMA OffTheFile ==
    ASSUME TypeOK, Control, file \in Files, file' = NoFile, pc' \in {"next", "idle", "down"},
           batch' \subseteq batch
    PROVE  Closer
<1>1. Left' \in {0, 1}
  BY DEF Left, Ahead
<1>2. Left >= 2 /\ Left \in Nat
  BY LeftFacts
<1> QED
  BY <1>1, <1>2 DEF Closer, Fewer

LEMMA StepComesCloser ==
    ASSUME TypeOK, Control, SweepStep, pc # "idle"
    PROVE  Closer
<1>0. pc \notin {"next", "down"} => file \in Files
  BY DEF TypeOK, Control
<1>1. ASSUME NEW f \in Files, Take(f) PROVE Closer
  BY <1>1 DEF Take, Closer, Fewer
<1>2. CASE SweepDone
  <2>1. Left' = 0 /\ Left = 1 /\ batch' = batch
    BY <1>2 DEF SweepDone, Left, Ahead, Control
  <2> QED
    BY <2>1 DEF Closer
<1>3. CASE ParseRaises \/ MoveRaises
  BY <1>0, <1>3, OffTheFile DEF ParseRaises, MoveRaises, Abort
<1>4. CASE ParseItems \/ ParseRejected \/ SaveRaw \/ Ingest \/ IngestFails
  <2>1. UNCHANGED <<batch, file, entry>> /\ pc \notin {"next", "down"}
    BY <1>4 DEF ParseItems, ParseRejected, SaveRaw, Ingest, IngestFails, Goto
  <2>2. Ahead' < Ahead /\ Ahead' \in Nat
    BY <1>4, <2>1 DEF ParseItems, ParseRejected, SaveRaw, Ingest, IngestFails, Goto, FirstStep,
                      HandlerOf, Ahead
  <2> QED
    BY <1>0, <2>1, <2>2, OnTheEntry
<1>5. CASE AddRow \/ SetEmbedding \/ AddTextRow \/ AuditIngested \/ AuditFailed \/ MoveToFailed
  <2>1. UNCHANGED <<batch, file, entry>> /\ pc \notin {"next", "down"}
    BY <1>5 DEF AddRow, SetEmbedding, AddTextRow, AuditIngested, AuditFailed, MoveToFailed, Goto
  <2>2. Ahead' < Ahead /\ Ahead' \in Nat
    BY <1>5, <2>1 DEF AddRow, SetEmbedding, AddTextRow, AuditIngested, AuditFailed,
                      MoveToFailed, Goto, Ahead
  <2> QED
    BY <1>0, <2>1, <2>2, OnTheEntry
<1>6. CASE MoveToProcessed
  <2>1. CASE file \in Screenshots
    <3>1. UNCHANGED <<batch, file, entry>> /\ Ahead' = 4 /\ Ahead = 5
      BY <1>6, <2>1 DEF MoveToProcessed, Goto, Ahead
    <3> QED
      BY <2>1, <3>1, FileFacts, OnTheEntry
  <2>2. CASE file \notin Screenshots
    BY <1>0, <1>6, <2>2, OffTheFile DEF MoveToProcessed, Release
  <2> QED
    BY <2>1, <2>2
<1>7. CASE Notify
  <2>0. file \in Files /\ pc = "notify"
    BY <1>0, <1>7 DEF Notify
  <2>1. CASE file \in Screenshots \cup Rejected
    BY <1>7, <2>0, <2>1, OffTheFile DEF Notify, EntryDone, Release
  <2>2. CASE file \notin Screenshots \cup Rejected /\ entry < Len(Entries[file])
    <3>1. /\ pc' \in {"save", "addtext"} /\ entry' = entry + 1
          /\ UNCHANGED <<batch, file>>
      BY <1>7, <2>2 DEF Notify, EntryDone, FirstStep
    <3>2. /\ Left = 3 + 10 * (Len(Entries[file]) - entry)
          /\ Left' = Ahead' + 10 * (Len(Entries[file]) - (entry + 1))
      BY <2>0, <3>1 DEF Left, Ahead
    <3>3. Ahead' \in 0..9 /\ entry \in Nat /\ Len(Entries[file]) \in Nat
      BY <2>0, <3>1, LeftFacts DEF Ahead, TypeOK
    <3> QED
      BY <3>1, <3>2, <3>3 DEF Closer
  <2>3. CASE file \notin Screenshots \cup Rejected /\ ~(entry < Len(Entries[file]))
    <3>1. UNCHANGED <<batch, file, entry>> /\ Ahead' = 2 /\ Ahead = 3
      BY <1>7, <2>0, <2>3 DEF Notify, EntryDone, Goto, Ahead
    <3> QED
      BY <2>0, <3>1, OnTheEntry
  <2> QED
    BY <2>1, <2>2, <2>3
<1>8. ~Tick
  BY DEF Tick
<1> QED
  BY <1>1, <1>2, <1>3, <1>4, <1>5, <1>6, <1>7, <1>8 DEF SweepStep

LEMMA NothingAddsSteps ==
    ASSUME TypeOK, Control, [Next]_vars, pc # "idle"
    PROVE  Fewer \/ (batch' = batch /\ Left' <= Left)
<1>0. Left \in Nat
  BY LeftFacts
<1>1. ASSUME UNCHANGED <<pc, batch, file, entry>> PROVE batch' = batch /\ Left' = Left
  BY <1>1 DEF Left, Ahead
<1>2. CASE SweepStep
  <2>1. Closer /\ TypeOK' /\ Control'
    BY <1>2, StepComesCloser, TypePreserved, ControlPreserved
  <2>2. (TypeOK /\ Control => Left \in Nat)'
    BY LeftFacts, PTL
  <2> QED
    BY <1>0, <2>1, <2>2 DEF Closer
<1>3. CASE StorageFault \/ Crash
  <2>1. batch' = {} /\ Left' = 0
    BY <1>3 DEF StorageFault, Crash, Abort, Left, Ahead
  <2> QED
    BY <1>0, <2>1 DEF Fewer
<1>4. CASE Boot
  <2>1. batch' = batch /\ Left' = 0
    BY <1>4 DEF Boot, Left, Ahead, Control
  <2> QED
    BY <1>0, <2>1
<1>5. CASE (\E f \in Files : Drop(f) \/ Settle(f) \/ Withdraw(f)) \/ UNCHANGED vars
  BY <1>0, <1>1, <1>5 DEF Drop, Settle, Withdraw, vars
<1> QED
  BY <1>2, <1>3, <1>4, <1>5 DEF Next

LEMMA LetGoIsHandled ==
    ASSUME TypeOK, Control, Placement, SweepStep, file \in Files, file' # file
    PROVE  place'[file] # "inbox" \/ file \in Poison
<1>0. pc \notin {"down", "idle", "next"}
  BY DEF Control
<1>1. CASE ParseRaises \/ MoveRaises
  BY <1>1 DEF ParseRaises, MoveRaises, durable
<1>2. CASE MoveToProcessed
  BY <1>2 DEF MoveToProcessed, TypeOK
<1>3. CASE Notify
  <2>1. file \in Screenshots \cup Rejected /\ place' = place /\ pc = "notify"
    BY <1>3 DEF Notify, EntryDone, Goto, durable
  <2> QED
    BY <2>1 DEF Placement
<1>4. CASE \/ ParseItems \/ ParseRejected \/ SaveRaw \/ Ingest \/ AddRow \/ SetEmbedding
           \/ IngestFails \/ AddTextRow \/ MoveToFailed \/ AuditIngested \/ AuditFailed
  BY <1>4 DEF ParseItems, ParseRejected, SaveRaw, Ingest, AddRow, SetEmbedding, IngestFails,
              AddTextRow, MoveToFailed, AuditIngested, AuditFailed, Goto
<1> QED
  BY <1>0, <1>1, <1>2, <1>3, <1>4 DEF SweepStep, Tick, Take, SweepDone

(* The safety half of EventuallyHandled.  Every step of a sweep shortens    *)
(* its list or brings the file in hand nearer to its end, and nothing puts  *)
(* that off: not the operator, not the clock, not a fault.  A file that the *)
(* sweep lets go of, whatever failed on the way, has left the inbox, but    *)
(* for one that parse_eml chokes on.                                        *)
THEOREM SweepsAreFinite == Spec => SweepsWindDown
<1>1. Spec => [](TypeOK /\ Control /\ Placement)
  <2>1. IInv => TypeOK /\ Control /\ Placement
    BY DEF IInv
  <2> QED
    BY <2>1, Invariance, PTL
<1>2. TypeOK /\ Control => Left \in Nat
  BY LeftFacts
<1>3. TypeOK /\ Control /\ Placement /\ [Next]_vars =>
         [/\ SweepStep /\ pc # "idle" => Closer
          /\ pc # "idle" => Fewer \/ (batch' = batch /\ Left' <= Left)
          /\ SweepStep /\ file \in Files /\ file' # file
                => place'[file] # "inbox" \/ file \in Poison]_vars
  BY StepComesCloser, NothingAddsSteps, LetGoIsHandled
<1> QED
  BY <1>1, <1>2, <1>3, PTL DEF Spec, SweepsWindDown
=============================================================================
