------------------------------- MODULE Inbox -------------------------------
(***************************************************************************)
(* The drop-folder watcher (inbox/watcher.py): a periodic sweep takes the   *)
(* settled files in order of modification time, turns each into wardrobe   *)
(* rows, and moves it to .processed or .failed.  One action per durable    *)
(* effect (a database commit, a file written or moved) or await, so that a *)
(* crash, a storage fault or the operator can come between any two.        *)
(***************************************************************************)
EXTENDS Naturals, Sequences

CONSTANTS
    Files,        \* every file the operator may drop
    Screenshots,  \* those dropped into screenshots/; the others are emails
    Rank,         \* the (mtime, name) order in which discover() sorts them
    Entries,      \* the products in a file, "image" or "text" each
    Rejected,     \* emails of an unknown retailer, or with no product found
    Poison,       \* emails on which parse_eml raises anything else
    NoFile,       \* the sweep holds no file
    MaxFaults     \* bound on the crashes and storage faults of a behaviour

(* A rejected email has no products; its one failure is kept under slot 1. *)
ASSUME InboxAssumption ==
    /\ NoFile \notin Files
    /\ Screenshots \subseteq Files
    /\ Rejected \subseteq Files \ Screenshots
    /\ Poison \subseteq Files \ (Screenshots \cup Rejected)
    /\ Rank \in [Files -> Nat]
    /\ Entries \in [Files -> Seq({"image", "text"})]
    /\ \A f \in Files : Len(Entries[f]) > 0
    /\ \A f \in Screenshots : Entries[f] = <<"image">>
    /\ MaxFaults \in Nat

VARIABLES
    place,     \* durable: where each file is
    rows,      \* durable: wardrobe rows inserted for each entry
    vectors,   \* durable: how many of those rows have an embedding
    ingested,  \* durable: inbox_ingested(_no_image) audit rows per entry
    failures,  \* durable: inbox_failed audit rows per entry
    pc,        \* the sweep's next step; "down" when the process is not up
    batch,     \* the discovered files the sweep has still to take
    file,      \* the file it is working on
    entry,     \* and the entry of that file
    faults     \* history: crashes and storage faults so far

durable == <<place, rows, vectors, ingested, failures>>
counts == <<rows, vectors, ingested, failures>>
vars == <<durable, pc, batch, file, entry, faults>>

Slots == UNION {{f} \X DOMAIN Entries[f] : f \in Files}

Places == {"absent", "settling", "inbox", "processed", "failed", "withdrawn"}
Steps == {"down", "idle", "next", "parse", "save", "ingest", "add", "embed",
          "addtext", "move", "quarantine", "audit", "report", "notify"}

Init ==
    /\ place = [f \in Files |-> "absent"]
    /\ rows = [s \in Slots |-> 0]
    /\ vectors = [s \in Slots |-> 0]
    /\ ingested = [s \in Slots |-> 0]
    /\ failures = [s \in Slots |-> 0]
    /\ pc = "idle" /\ batch = {} /\ file = NoFile /\ entry = 0
    /\ faults = 0

----------------------------------------------------------------------------
(* Helpers of the sweep. *)

Goto(step) == pc' = step /\ UNCHANGED <<batch, file, entry, faults>>
Bump(f, s) == [f EXCEPT ![s] = @ + 1]
Here == <<file, entry>>

(* The loop of sweep() goes on to the next discovered file. *)
Release == pc' = "next" /\ file' = NoFile /\ entry' = 0 /\ UNCHANGED <<batch, faults>>

(* An exception leaves sweep(): the scheduler logs it and ticks again. *)
Abort == pc' = "idle" /\ batch' = {} /\ file' = NoFile /\ entry' = 0

(* How _process_email_item begins with the k-th entry. *)
FirstStep(f, k) == IF Entries[f][k] = "image" THEN "save" ELSE "addtext"

(* Where the handler resumes after the outcome of an entry was posted. *)
MutEntryDoneEarly ==
    IF file \in Screenshots \cup Rejected THEN Release ELSE Goto("move")
EntryDone ==
    IF file \in Screenshots \cup Rejected THEN Release
    ELSE IF entry < Len(Entries[file])
         THEN /\ pc' = FirstStep(file, entry + 1) /\ entry' = entry + 1
              /\ UNCHANGED <<batch, file, faults>>
         ELSE Goto("move")

----------------------------------------------------------------------------
(* The operator and the clock. *)

Drop(f) ==
    /\ place[f] = "absent"
    /\ place' = [place EXCEPT ![f] = "settling"]
    /\ UNCHANGED <<counts, pc, batch, file, entry, faults>>

(* Five seconds without a write: discover() lists the file from now on. *)
Settle(f) ==
    /\ place[f] = "settling"
    /\ place' = [place EXCEPT ![f] = "inbox"]
    /\ UNCHANGED <<counts, pc, batch, file, entry, faults>>

(* The operator takes a file back (one taken before it settled never came). *)
Withdraw(f) ==
    /\ place[f] = "inbox"
    /\ place' = [place EXCEPT ![f] = "withdrawn"]
    /\ UNCHANGED <<counts, pc, batch, file, entry, faults>>

----------------------------------------------------------------------------
(* sweep() *)

(* The scheduler starts at most one sweep; discover() is a snapshot. *)
Tick ==
    /\ pc = "idle"
    /\ batch' = {f \in Files : place[f] = "inbox"}
    /\ pc' = "next"
    /\ UNCHANGED <<durable, file, entry, faults>>

Take(f) ==
    /\ pc = "next" /\ f \in batch
    /\ \A g \in batch : Rank[f] <= Rank[g]
    /\ file' = f /\ entry' = 1 /\ batch' = batch \ {f}
    /\ pc' = IF f \in Screenshots THEN "ingest" ELSE "parse"
    /\ UNCHANGED <<durable, faults>>

SweepDone ==
    /\ pc = "next" /\ batch = {}
    /\ pc' = "idle"
    /\ UNCHANGED <<durable, batch, file, entry, faults>>

(* parse_eml returned products, a quarantining error, or raised. *)
ParseItems ==
    /\ pc = "parse" /\ place[file] = "inbox" /\ file \notin Rejected \cup Poison
    /\ Goto(FirstStep(file, 1))
    /\ UNCHANGED durable

MutParseRejectedSkips ==
    /\ pc = "parse" /\ place[file] = "inbox" /\ file \in Rejected
    /\ Release
    /\ UNCHANGED durable
ParseRejected ==
    /\ pc = "parse" /\ place[file] = "inbox" /\ file \in Rejected
    /\ Goto("quarantine")
    /\ UNCHANGED durable

(* parse_eml raises what process_email does not catch: no handler runs. *)
ParseRaises ==
    /\ pc = "parse" /\ (file \in Poison \/ place[file] # "inbox")
    /\ Abort
    /\ UNCHANGED <<durable, faults>>

(* _persist_image_item copies the picture to images/raw/ first. *)
SaveRaw ==
    /\ pc = "save"
    /\ Goto("ingest")
    /\ UNCHANGED durable

Ingest ==
    /\ pc = "ingest"
    /\ file \in Screenshots => place[file] = "inbox"
    /\ Goto("add")
    /\ UNCHANGED durable

AddRow ==
    /\ pc = "add"
    /\ rows' = Bump(rows, Here)
    /\ Goto("embed")
    /\ UNCHANGED <<place, vectors, ingested, failures>>

SetEmbedding ==
    /\ pc = "embed"
    /\ vectors' = Bump(vectors, Here)
    /\ Goto(IF file \in Screenshots THEN "move" ELSE "audit")
    /\ UNCHANGED <<place, rows, ingested, failures>>

(* An exception between ingest() and set_embedding() is handled: a file  *)
(* is quarantined, an entry of an email is skipped.  A row that add() has *)
(* committed stays.                                                      *)
HandlerOf(f) == IF f \in Screenshots THEN "quarantine" ELSE "report"

MutIngestFailsRollsBack ==
    /\ pc \in {"ingest", "add", "embed"}
    /\ rows' = [rows EXCEPT ![Here] = @ - 1]
    /\ Goto(HandlerOf(file))
    /\ UNCHANGED <<place, vectors, ingested, failures>>
MutIngestFailsIgnored ==
    /\ pc \in {"ingest", "add", "embed"}
    /\ Goto(IF file \in Screenshots THEN "move" ELSE "audit")
    /\ UNCHANGED durable
MutIngestFailsLate ==
    /\ pc = "embed"
    /\ vectors' = Bump(vectors, Here)
    /\ Goto(HandlerOf(file))
    /\ UNCHANGED <<place, rows, ingested, failures>>
IngestFails ==
    /\ pc \in {"ingest", "add", "embed"}
    /\ Goto(HandlerOf(file))
    /\ UNCHANGED durable

AddTextRow ==
    /\ pc = "addtext"
    /\ rows' = Bump(rows, Here)
    /\ Goto("audit")
    /\ UNCHANGED <<place, vectors, ingested, failures>>

(* A screenshot is audited after it was moved, an email after its entries. *)
MutMoveCopies ==
    /\ pc = "move" /\ place[file] = "inbox"
    /\ IF file \in Screenshots THEN Goto("audit") ELSE Release
    /\ UNCHANGED durable
MoveToProcessed ==
    /\ pc = "move" /\ place[file] = "inbox"
    /\ place' = [place EXCEPT ![file] = "processed"]
    /\ IF file \in Screenshots THEN Goto("audit") ELSE Release
    /\ UNCHANGED counts

MoveToFailed ==
    /\ pc = "quarantine" /\ place[file] = "inbox"
    /\ place' = [place EXCEPT ![file] = "failed"]
    /\ Goto("report")
    /\ UNCHANGED counts

(* shutil.move raises when the operator took the file away meanwhile. *)
MoveRaises ==
    /\ pc \in {"move", "quarantine"} /\ place[file] # "inbox"
    /\ Abort
    /\ UNCHANGED <<durable, faults>>

MutAuditSkipped ==
    /\ pc = "audit"
    /\ Goto("notify")
    /\ UNCHANGED durable
AuditIngested ==
    /\ pc = "audit"
    /\ ingested' = Bump(ingested, Here)
    /\ Goto("notify")
    /\ UNCHANGED <<place, rows, vectors, failures>>

AuditFailed ==
    /\ pc = "report"
    /\ failures' = Bump(failures, Here)
    /\ Goto("notify")
    /\ UNCHANGED <<place, rows, vectors, ingested>>

(* The await on the channel: delivered or dropped, it never raises. *)
Notify ==
    /\ pc = "notify"
    /\ EntryDone
    /\ UNCHANGED durable

SweepStep ==
    \/ Tick \/ (\E f \in Files : Take(f)) \/ SweepDone
    \/ ParseItems \/ ParseRejected \/ ParseRaises
    \/ SaveRaw \/ Ingest \/ AddRow \/ SetEmbedding \/ IngestFails \/ AddTextRow
    \/ MoveToProcessed \/ MoveToFailed \/ MoveRaises
    \/ AuditIngested \/ AuditFailed \/ Notify

----------------------------------------------------------------------------
(* Faults, MaxFaults of them at most. *)

(* A full disk or a locked database where no handler catches it. *)
StorageFault ==
    /\ pc \in {"save", "addtext", "move", "quarantine", "audit", "report"}
    /\ faults < MaxFaults
    /\ faults' = faults + 1
    /\ Abort
    /\ UNCHANGED durable

(* The process dies, or a shutdown cancels the task at its await. *)
Crash ==
    /\ pc # "down"
    /\ faults < MaxFaults
    /\ faults' = faults + 1
    /\ pc' = "down" /\ batch' = {} /\ file' = NoFile /\ entry' = 0
    /\ UNCHANGED durable

(* The container restarts it (restart: unless-stopped). *)
Boot ==
    /\ pc = "down"
    /\ pc' = "idle"
    /\ UNCHANGED <<durable, batch, file, entry, faults>>

Next ==
    \/ SweepStep
    \/ (\E f \in Files : Drop(f)) \/ (\E f \in Files : Settle(f))
    \/ (\E f \in Files : Withdraw(f))
    \/ StorageFault \/ Crash \/ Boot

Spec == Init /\ [][Next]_vars

(* The event loop runs the sweep on, the container comes back, time passes. *)
Fairness ==
    /\ WF_vars(SweepStep)
    /\ WF_vars(Boot)
    /\ \A f \in Files : WF_vars(Settle(f))

FairSpec == Spec /\ Fairness

----------------------------------------------------------------------------
(* Properties. *)

TypeOK ==
    /\ place \in [Files -> Places]
    /\ rows \in [Slots -> Nat]
    /\ vectors \in [Slots -> Nat]
    /\ ingested \in [Slots -> Nat]
    /\ failures \in [Slots -> Nat]
    /\ pc \in Steps
    /\ batch \subseteq Files
    /\ file \in Files \cup {NoFile}
    /\ entry \in Nat
    /\ faults \in Nat

(* A file filed under .processed has been dealt with to the last entry: a *)
(* screenshot has a row with an embedding, each product of an email has a *)
(* row or an inbox_failed audit row.                                      *)
ProcessedIsAccounted ==
    \A s \in Slots : place[s[1]] = "processed" =>
        IF s[1] \in Screenshots THEN vectors[s] > 0
        ELSE rows[s] > 0 \/ failures[s] > 0

(* Ingestion is at least once, and more than once only after a fault: an *)
(* entry never has more rows than one plus the faults that interrupted a  *)
(* sweep before it could move the file.                                  *)
BoundedDuplicates ==
    \A s \in Slots : rows[s] <= 1 + faults

(* The audit log never claims more than the tables hold: an entry has as *)
(* many rows, and a pictured one as many embeddings, as inbox_ingested    *)
(* audit rows.                                                           *)
AuditTruthful ==
    \A s \in Slots :
        /\ ingested[s] <= rows[s]
        /\ Entries[s[1]][s[2]] = "image" => ingested[s] <= vectors[s]

(* Nothing enters the wardrobe silently: a row without an audit row is in *)
(* the hands of the sweep, was cut off by a fault, or its screenshot was  *)
(* taken away before the move.                                           *)
InHand(s) == file = s[1] /\ entry = s[2]
NoSilentRows ==
    \A s \in Slots :
        rows[s] <= ingested[s] + failures[s] + faults
                   + (IF InHand(s) \/ place[s[1]] = "withdrawn" THEN 1 ELSE 0)

(* A quarantined screenshot, which the operator is told to drop again, is *)
(* not in the wardrobe complete with its embedding, unless a fault cut an *)
(* earlier attempt off after the row and before the move.                 *)
QuarantinedNotIngested ==
    \A s \in Slots :
        s[1] \in Screenshots /\ place[s[1]] = "failed" => vectors[s] <= faults

(* Once settled, a file leaves the inbox, however often the process is    *)
(* restarted meanwhile, as long as no email that parse_eml chokes on      *)
(* sorts before it.                                                      *)
Blocked(f) == \E p \in Poison : Rank[p] <= Rank[f]
EventuallyHandled ==
    \A f \in Files : ~Blocked(f) => (place[f] = "inbox" ~> place[f] # "inbox")

(* README.md:16 says that a malformed email degrades to a logged warning: *)
(* every file but the malformed one is still handled.                     *)
MalformedEmailHarmless ==
    \A f \in Files \ Poison : place[f] = "inbox" ~> place[f] # "inbox"

(* tests/inbox/test_process_one.py:8 says of a failure: no half-written   *)
(* DB rows.  A screenshot quarantined by a sweep that nothing interrupted *)
(* has left no row.                                                      *)
NoHalfWrittenRows ==
    \A s \in Slots :
        s[1] \in Screenshots /\ place[s[1]] = "failed" /\ faults = 0 => rows[s] = 0

----------------------------------------------------------------------------
(* The watcher implements the contract of the drop folder. *)

StatusOf(p) ==
    CASE p \in {"absent", "settling"} -> "absent"
      [] p = "inbox" -> "pending"
      [] p = "processed" -> "done"
      [] p = "failed" -> "quarantined"
      [] OTHER -> "taken"

Contract == INSTANCE InboxContract WITH
    status <- [f \in Files |-> StatusOf(place[f])],
    recorded <- {s \in Slots : rows[s] > 0},
    reported <- {s \in Slots : failures[s] > 0}

(* Every behaviour of the watcher is one the contract allows: an entry is *)
(* recorded only while its file is pending, reported only before the file *)
(* is done, and the file is done only when every entry is one of the two. *)
ImplementsContract == Contract!Spec
=============================================================================
