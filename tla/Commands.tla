------------------------------- MODULE Commands -------------------------------
(***************************************************************************)
(* The slash commands that read and write the wardrobe and the profile     *)
(* (discord/cogs/items.py, wardrobe.py and profile.py behind the whitelist *)
(* of discord/bot.py), and the bootstrap script, which writes the profile  *)
(* from a process of its own.                                              *)
(*                                                                         *)
(* All handlers run in one event loop: from one await to the next nothing  *)
(* else of the bot runs, but every repository call commits a transaction   *)
(* of its own, so a crash or a database error falls between any two of     *)
(* them.  What a handler raises is logged by discord.py and never answered.*)
(* Discord drops an interaction nobody acknowledged in three seconds, which*)
(* a picture in the pipeline easily takes: the operator sees a failure and *)
(* repeats the command, while the first one is still waiting for the loop. *)
(***************************************************************************)
EXTENDS Naturals, FiniteSets

CONSTANTS
    Tasks,          \* what the users are after
    Wish,           \* what each task says, a record of WishType
    Operator,       \* the whitelisted user
    MaxIssued,      \* bound: commands issued, repetitions included
    MaxFaults,      \* bound: crashes, database errors, lost calls, expiries
    Ids,            \* item ids, the uuids still to be drawn included
    Wardrobe,       \* the ids in the wardrobe to begin with
    Worn,           \* those of them that an outfit refers to
    Matching,       \* name |-> the ids that begin with it (a full id: only itself)
    Fields, Values, \* of the profile
    Unset,          \* the value of a field never set, and a field a task leaves alone
    NoItem, NoTask

Kinds == {"add", "edit", "forget", "list", "set", "bootstrap"}

\* "bad" is refused by the validation, "oversize" passes it and SQLite rejects
\* it: an integer of more than 64 bits, a YAML list in a text field.
Quality == {"good", "bad", "oversize"}

\* A task names the item it means by an id or a prefix; an edit carries the new
\* id when it edits the id, profile tasks the fields they write.
WishType ==
    [by : {Operator, "stranger"}, kind : Kinds,
     name : DOMAIN Matching \cup {NoItem}, item : Ids \cup {NoItem},
     field : {"none", "text", "id", "deleted_at"}, newId : Ids \cup {NoItem},
     quality : Quality, writes : [Fields -> Values \cup {Unset}]]

Attempts == 1 .. MaxIssued

ASSUME BoundsAssumption ==
    MaxIssued \in Nat /\ MaxFaults \in Nat

ASSUME TasksAssumption ==
    /\ Wish \in [Tasks -> WishType]
    /\ NoTask \notin Tasks
    /\ \A t \in Tasks : Wish[t].kind \in {"edit", "forget"} =>
          /\ Wish[t].item \in Wardrobe
          /\ Wish[t].name \in DOMAIN Matching
          /\ Wish[t].item \in Matching[Wish[t].name]
          /\ Wish[t].field = "id" => Wish[t].newId \in Ids

ASSUME IdsAssumption ==
    /\ Worn \subseteq Wardrobe
    /\ Wardrobe \subseteq Ids
    /\ IsFiniteSet(Ids)
    /\ NoItem \notin Ids
    /\ Unset \notin Values
    /\ \A n \in DOMAIN Matching : Matching[n] \subseteq Ids

VARIABLES
    rows,       \* wardrobe_items: id |-> "free" (no row), "active" or "hidden"
    embedded,   \* the ids in wardrobe_items_vec
    profile,    \* the row of user_profile
    audit,      \* the attempts that have their row in audit_log
    task,       \* what each attempt is for
    pc,         \* where each attempt is
    target,     \* the local item_id or resolved of each attempt
    dead,       \* attempts whose interaction expired before it was acknowledged
    faults,     \* how often something went wrong so far
    changed     \* attempts whose change of rows or profile is committed (history)

vars == <<rows, embedded, profile, audit, task, pc, target, dead, faults, changed>>
db   == <<rows, embedded, profile, audit, changed>>

\* Stages between two awaits of the bot, and stages in which it awaits Discord.
Running  == {"resolved", "ingested", "added", "written"}
Waiting  == {"queued", "deferred", "replying", "refusing"}
Answered == {"yes", "no"}
Stages   == {"idle", "lost"} \cup Running \cup Waiting \cup Answered

Active    == {i \in Ids : rows[i] = "active"}
Want(a)   == Wish[task[a]]
InBot(a)  == Want(a).kind # "bootstrap"
Deferring(a) == Want(a).kind \in {"add", "list"}

\* The event loop is free for a, or a has it already.  The script needs none.
HasLoop(a) == InBot(a) => \A b \in Attempts \ {a} : pc[b] \in Running => ~InBot(b)

To(a, stage) == pc' = [pc EXCEPT ![a] = stage] /\ UNCHANGED task

Init ==
    /\ rows = [i \in Ids |-> IF i \in Wardrobe THEN "active" ELSE "free"]
    /\ embedded = Wardrobe
    /\ profile = [f \in Fields |-> Unset]
    /\ audit = {}
    /\ task = [a \in Attempts |-> NoTask]
    /\ pc = [a \in Attempts |-> "idle"]
    /\ target = [a \in Attempts |-> NoItem]
    /\ dead = {}
    /\ faults = 0
    /\ changed = {}

-----------------------------------------------------------------------------
(* The users.                                                              *)

\* Commands are numbered as they are issued.  A task is tried again when every try
\* before failed for all its user can see.
Issue(a, t) ==
    /\ pc[a] = "idle"
    /\ \A b \in 1 .. (a - 1) : pc[b] # "idle"
    /\ \A b \in Attempts : task[b] = t => pc[b] \in {"lost", "no"} \/ b \in dead
    /\ pc' = [pc EXCEPT ![a] = "queued"]
    /\ task' = [task EXCEPT ![a] = t]
    /\ UNCHANGED <<db, target, dead, faults>>

-----------------------------------------------------------------------------
(* The gate in front of every command, bot.py.                             *)

is_whitelisted(a) == Want(a).by = Operator

\* reject_unauthorized: the audit row comes before the reply.
reject_unauthorized(a) ==
    /\ pc[a] = "queued" /\ InBot(a) /\ ~is_whitelisted(a)
    /\ HasLoop(a)
    /\ audit' = audit \cup {a}
    /\ To(a, "refusing")
    /\ UNCHANGED <<rows, embedded, profile, changed, target, dead, faults>>

\* The handler may begin.
Admitted(a) ==
    /\ pc[a] = "queued"
    /\ InBot(a) => is_whitelisted(a)
    /\ HasLoop(a)

\* response.defer(): raises when the interaction is gone, and nothing was done.
Defer(a) ==
    /\ Admitted(a) /\ Deferring(a)
    /\ To(a, IF a \in dead THEN "lost" ELSE "deferred")
    /\ UNCHANGED <<db, target, dead, faults>>

\* response.send_message, or followup.send after a defer.
Send(a) ==
    /\ pc[a] \in {"replying", "refusing"}
    /\ HasLoop(a)
    /\ To(a, IF a \in dead THEN "lost" ELSE IF pc[a] = "replying" THEN "yes" ELSE "no")
    /\ UNCHANGED <<db, target, dead, faults>>

-----------------------------------------------------------------------------
(* /add_item, items.py.                                                    *)

\* Mutant: only the operator's log learns of the failure.
MutIngestFailsSilently(a) ==
    /\ pc[a] = "deferred" /\ Want(a).kind = "add" /\ HasLoop(a)
    /\ To(a, "lost")
    /\ UNCHANGED <<db, target, dead, faults>>

IngestFails(a) ==
    /\ pc[a] = "deferred" /\ Want(a).kind = "add" /\ HasLoop(a)
    /\ To(a, "refusing")
    /\ UNCHANGED <<db, target, dead, faults>>

Ingest(a) ==
    /\ pc[a] = "deferred" /\ Want(a).kind = "add" /\ HasLoop(a)
    /\ To(a, "ingested")
    /\ UNCHANGED <<db, target, dead, faults>>

\* ItemsRepo.add under a new uuid: one that no row, embedding or handler knows.
Fresh == {i \in Ids : /\ rows[i] = "free"
                      /\ i \notin embedded
                      /\ \A a \in Attempts : target[a] # i
                      /\ \A t \in Tasks : Wish[t].newId # i}

\* Mutant: add does not hand out the id it generated.
MutAddReturnsNothing(a) ==
    /\ pc[a] = "ingested"
    /\ \E i \in Fresh : rows' = [rows EXCEPT ![i] = "active"]
    /\ changed' = changed \cup {a}
    /\ To(a, "added")
    /\ UNCHANGED <<embedded, profile, audit, target, dead, faults>>

\* Mutant: the embedding is forgotten.
MutAddWithoutEmbedding(a) ==
    /\ pc[a] = "ingested"
    /\ \E i \in Fresh :
          /\ rows' = [rows EXCEPT ![i] = "active"]
          /\ target' = [target EXCEPT ![a] = i]
    /\ changed' = changed \cup {a}
    /\ To(a, "written")
    /\ UNCHANGED <<embedded, profile, audit, dead, faults>>

AddRow(a) ==
    /\ pc[a] = "ingested"
    /\ \E i \in Fresh :
          /\ rows' = [rows EXCEPT ![i] = "active"]
          /\ target' = [target EXCEPT ![a] = i]
    /\ changed' = changed \cup {a}
    /\ To(a, "added")
    /\ UNCHANGED <<embedded, profile, audit, dead, faults>>

\* Mutant: an error of set_embedding is answered like one of the pipeline.
MutSetEmbeddingRefuses(a) ==
    /\ pc[a] = "added"
    /\ \/ embedded' = embedded \cup {target[a]} /\ To(a, "written")
       \/ To(a, "refusing") /\ UNCHANGED embedded
    /\ UNCHANGED <<rows, profile, audit, changed, target, dead, faults>>

SetEmbedding(a) ==
    /\ pc[a] = "added"
    /\ embedded' = embedded \cup {target[a]}
    /\ To(a, "written")
    /\ UNCHANGED <<rows, profile, audit, changed, target, dead, faults>>

-----------------------------------------------------------------------------
(* /edit_item and /forget_item, items.py.                                  *)

\* The active items the given name matches; the handlers need exactly one.
resolve_short_id(a) == {i \in Active : i \in Matching[Want(a).name]}

\* Mutant: the first match is taken.
MutRefusable(a) ==
    \/ resolve_short_id(a) = {}
    \/ Want(a).kind = "edit" /\ (Want(a).field = "none" \/ Want(a).quality = "bad")

Refusable(a) ==
    \/ Cardinality(resolve_short_id(a)) # 1
    \/ Want(a).kind = "edit" /\ (Want(a).field = "none" \/ Want(a).quality = "bad")

RefuseItem(a) ==
    /\ Admitted(a) /\ Want(a).kind \in {"edit", "forget"}
    /\ Refusable(a)
    /\ To(a, "refusing")
    /\ UNCHANGED <<db, target, dead, faults>>

Resolve(a) ==
    /\ Admitted(a) /\ Want(a).kind \in {"edit", "forget"}
    /\ ~Refusable(a)
    /\ \E i \in resolve_short_id(a) : target' = [target EXCEPT ![a] = i]
    /\ To(a, "resolved")
    /\ UNCHANGED <<db, dead, faults>>

\* What SQLite refuses: a value it cannot hold, an id that is taken, and a new id
\* for an item that an outfit refers to.
UpdateRaises(a) ==
    \/ Want(a).quality = "oversize"
    \/ /\ Want(a).field = "id"
       /\ Want(a).newId # target[a]
       /\ rows[Want(a).newId] # "free" \/ target[a] \in Worn

\* ItemsRepo.update.  The embedding is not part of the row and keeps the old id.
Update(a) ==
    /\ pc[a] = "resolved" /\ Want(a).kind = "edit"
    /\ ~UpdateRaises(a)
    /\ rows' = CASE Want(a).field = "id" ->
                        [rows EXCEPT ![target[a]] = "free", ![Want(a).newId] = "active"]
                 [] Want(a).field = "deleted_at" -> [rows EXCEPT ![target[a]] = "hidden"]
                 [] OTHER -> rows
    /\ changed' = changed \cup {a}
    /\ To(a, "written")
    /\ UNCHANGED <<embedded, profile, audit, target, dead, faults>>

\* Mutant: the error is swallowed and the success reported.
MutUpdateFails(a) ==
    /\ pc[a] = "resolved" /\ Want(a).kind = "edit"
    /\ UpdateRaises(a)
    /\ To(a, "written")
    /\ UNCHANGED <<db, target, dead, faults>>

UpdateFails(a) ==
    /\ pc[a] = "resolved" /\ Want(a).kind = "edit"
    /\ UpdateRaises(a)
    /\ To(a, "lost")
    /\ UNCHANGED <<db, target, dead, faults>>

\* Mutant: nothing is logged.
MutSoftDeleteUnlogged(a) ==
    /\ pc[a] = "resolved" /\ Want(a).kind = "forget"
    /\ rows' = [rows EXCEPT ![target[a]] = "hidden"]
    /\ changed' = changed \cup {a}
    /\ To(a, "replying")
    /\ UNCHANGED <<embedded, profile, audit, target, dead, faults>>

\* ItemsRepo.soft_delete.
SoftDelete(a) ==
    /\ pc[a] = "resolved" /\ Want(a).kind = "forget"
    /\ rows' = [rows EXCEPT ![target[a]] = "hidden"]
    /\ changed' = changed \cup {a}
    /\ To(a, "written")
    /\ UNCHANGED <<embedded, profile, audit, target, dead, faults>>

-----------------------------------------------------------------------------
(* /profile set and the bootstrap script, profile.py: set_field is set_many *)
(* of one field.  Validation comes first and looks at every field.          *)

ProfileTask(a) == Want(a).kind \in {"set", "bootstrap"}

\* A bootstrap file in which nothing is set: a success, with no update and no audit row.
Blank(a) ==
    /\ Want(a).kind = "bootstrap" /\ Want(a).quality = "good"
    /\ \A f \in Fields : Want(a).writes[f] = Unset

Validate(a) ==
    /\ Admitted(a) /\ ProfileTask(a)
    /\ To(a, IF Blank(a) THEN "replying"
             ELSE IF Want(a).quality = "bad" THEN "refusing" ELSE "resolved")
    /\ UNCHANGED <<db, target, dead, faults>>

\* The profile once the fields of a task are written over it.
Applied(a) == [f \in Fields |-> IF Want(a).writes[f] = Unset THEN profile[f] ELSE Want(a).writes[f]]

\* Mutant: a transaction per field.
MutSetManyFieldwise(a) ==
    /\ pc[a] = "resolved" /\ ProfileTask(a)
    /\ Want(a).quality # "oversize"
    /\ \E f \in Fields : profile' = [profile EXCEPT ![f] = Applied(a)[f]]
    /\ IF profile' = Applied(a)
       THEN changed' = changed \cup {a} /\ To(a, "written")
       ELSE UNCHANGED <<changed, pc, task>>
    /\ UNCHANGED <<rows, embedded, audit, target, dead, faults>>

set_many(a) ==
    /\ pc[a] = "resolved" /\ ProfileTask(a)
    /\ IF Want(a).quality = "oversize"
       THEN To(a, "lost") /\ UNCHANGED <<profile, changed>>
       ELSE /\ profile' = Applied(a)
            /\ changed' = changed \cup {a}
            /\ To(a, "written")
    /\ UNCHANGED <<rows, embedded, audit, target, dead, faults>>

-----------------------------------------------------------------------------
(* What the commands share.                                                *)

\* audit.write, and the reply is on its way: the handlers end here.
WriteAudit(a) ==
    /\ pc[a] = "written"
    /\ audit' = audit \cup {a}
    /\ To(a, "replying")
    /\ UNCHANGED <<rows, embedded, profile, changed, target, dead, faults>>

\* /wardrobe only reads; an unknown category is refused.
Read(a) ==
    /\ pc[a] = "deferred" /\ Want(a).kind = "list" /\ HasLoop(a)
    /\ To(a, IF Want(a).quality = "bad" THEN "refusing" ELSE "replying")
    /\ UNCHANGED <<db, target, dead, faults>>

-----------------------------------------------------------------------------
(* What goes wrong.                                                        *)

Fault == faults < MaxFaults /\ faults' = faults + 1

\* Discord gives up on a command nobody acknowledged.
Expire(a) ==
    /\ Fault
    /\ pc[a] = "queued" /\ InBot(a) /\ a \notin dead
    /\ dead' = dead \cup {a}
    /\ UNCHANGED <<db, task, pc, target>>

\* A transaction raises, a picture cannot be fetched, a reply does not get through.
\* Nothing catches it: the handler ends where it is.
CallRaises(a) ==
    /\ Fault
    /\ pc[a] \in (Running \cup Waiting) /\ HasLoop(a)
    /\ To(a, "lost")
    /\ UNCHANGED <<db, target, dead>>

\* The bot dies and is restarted: its interactions are forgotten.
Crash ==
    /\ Fault
    /\ pc' = [a \in Attempts |-> IF pc[a] \in (Running \cup Waiting) /\ InBot(a)
                                 THEN "lost" ELSE pc[a]]
    /\ UNCHANGED <<db, task, target, dead>>

-----------------------------------------------------------------------------
Handle(a) ==
    \/ reject_unauthorized(a) \/ Defer(a) \/ Send(a) \/ Read(a)
    \/ Ingest(a) \/ IngestFails(a) \/ AddRow(a) \/ SetEmbedding(a)
    \/ RefuseItem(a) \/ Resolve(a) \/ Update(a) \/ UpdateFails(a) \/ SoftDelete(a)
    \/ Validate(a) \/ set_many(a) \/ WriteAudit(a)

Next ==
    \/ \E a \in Attempts, t \in Tasks : Issue(a, t)
    \/ \E a \in Attempts : Handle(a) \/ Expire(a) \/ CallRaises(a)
    \/ Crash

Work == \E a \in Attempts : Handle(a)

\* The event loop runs while a handler is ready, and so does the script; as commands
\* are finitely many and every handler is finite, none of them is kept waiting.
Spec == Init /\ [][Next]_vars /\ WF_vars(Work)

-----------------------------------------------------------------------------
TypeOK ==
    /\ rows \in [Ids -> {"free", "active", "hidden"}]
    /\ embedded \subseteq Ids
    /\ profile \in [Fields -> Values \cup {Unset}]
    /\ audit \subseteq Attempts
    /\ task \in [Attempts -> Tasks \cup {NoTask}]
    /\ pc \in [Attempts -> Stages]
    /\ target \in [Attempts -> Ids \cup {NoItem}]
    /\ dead \subseteq Attempts
    /\ faults \in 0 .. MaxFaults
    /\ changed \subseteq Attempts

\* Success means an effect, except to read and to apply a file that sets nothing.
Writes(a) == Want(a).kind \in {"add", "edit", "forget", "set", "bootstrap"} /\ ~Blank(a)

\* What the operator is told is so.  A command answered with success has committed
\* its change and its audit row, an added item also its embedding; one answered
\* with a refusal changed nothing, and is in the audit log only if the gate of
\* bot.py turned it away.  Nobody but the operator changes anything.
AnswersAreTrue ==
    \A a \in Attempts :
        /\ pc[a] = "yes" /\ Writes(a) => a \in changed \cap audit
        /\ pc[a] = "yes" /\ Want(a).kind = "add" => target[a] \in embedded
        /\ pc[a] = "no" => a \notin changed /\ (a \in audit <=> InBot(a) /\ ~is_whitelisted(a))
        /\ a \in changed /\ InBot(a) => is_whitelisted(a)

\* The audit log against the data: it never claims a change that was not made, and
\* of the changes it misses, those still on their way to it aside, each took a
\* crash or an error between its two transactions.
AuditFollowsChange ==
    /\ \A a \in audit : a \in changed \/ (InBot(a) /\ ~is_whitelisted(a))
    /\ Cardinality({a \in changed \ audit : pc[a] = "lost"}) <= faults
    /\ \A a \in changed \ audit : pc[a] \in {"added", "written", "lost"}

\* Commands that take an item out of reach of its name.
Hides(a) ==
    \/ Want(a).kind = "forget"
    \/ Want(a).kind = "edit" /\ Want(a).field \in {"id", "deleted_at"}

\* resolve_short_id refuses a name that two active items share, so /edit_item and
\* /forget_item change the item that was meant, unless an earlier command already
\* took that one away: then the same name finds its twin.
OnlyTheItemMeant ==
    \A a \in changed :
        Want(a).kind \in {"edit", "forget"} /\ target[a] # Want(a).item =>
            \E b \in changed \ {a} : Hides(b) /\ target[b] = Want(a).item

Renamed(i)   == \E a \in changed : Want(a).kind = "edit" /\ Want(a).field = "id" /\ Want(a).newId = i
RenamedAway(i) ==
    \E a \in changed : Want(a).kind = "edit" /\ Want(a).field = "id" /\ target[a] = i

\* Items and embeddings, two tables written in two transactions: an item without an
\* embedding is being added, was given up by a fault in between, or got its id by
\* /edit_item; an embedding without an item lost its item to /edit_item.
EmbeddingsMatchItems ==
    /\ \A i \in Ids : rows[i] # "free" /\ i \notin embedded =>
          \/ Renamed(i)
          \/ \E a \in changed : /\ Want(a).kind = "add" /\ target[a] = i
                                /\ \/ pc[a] = "added"
                                   \/ pc[a] = "lost" /\ faults > 0
    /\ \A i \in embedded : rows[i] = "free" => RenamedAway(i)

\* A photo is in the wardrobe once, and once more at most per fault: /add_item is
\* repeated only by an operator who was not told of its success.
AddedOnce ==
    \A a \in changed :
        Want(a).kind = "add" => Cardinality({b \in changed : task[b] = task[a]}) <= 1 + faults

\* The profile holds, field by field, what some completed command wrote there, and
\* none of the fields of a set_many without the others: the bot and the bootstrap
\* script never leave a file half applied, whatever crashes.
ProfileIsWhatWasWritten ==
    \A f \in Fields :
        LET writers == {a \in changed : ProfileTask(a) /\ Want(a).writes[f] # Unset}
        IN  IF writers = {} THEN profile[f] = Unset
            ELSE \E a \in writers : profile[f] = Want(a).writes[f]

\* Where an attempt is for the users: its effect is there or it is not.
StageOf(a) ==
    IF pc[a] \in {"idle", "lost"} \cup Answered THEN pc[a]
    ELSE IF a \in changed THEN "done" ELSE "open"

Contract == INSTANCE CommandsContract WITH stage <- [a \in Attempts |-> StageOf(a)]

\* However handlers, crashes and the script take turns, each command looks as if it
\* had happened at one instant, to the one item its name fitted at that instant and
\* to all profile fields at once, and was logged and answered accordingly.
ImplementsContract == Contract!Spec

\* Edits that SQLite itself can turn down, see UpdateRaises, and oversized values.
Unstorable(a) == Want(a).quality = "oversize" \/ Want(a).field = "id"

\* Of the commands issued, all end, and each whose value can be stored ends with an
\* answer as long as nothing failed.
CommandsAreAnswered ==
    <>[] \A a \in Attempts :
            \/ pc[a] \in {"idle"} \cup Answered
            \/ pc[a] = "lost" /\ (faults > 0 \/ Unstorable(a))
===============================================================================
