# A TLA+ model of FashionAgent

FashionAgent ("clawbot", `src/src/clawbot/`) is a single-user wardrobe assistant: a Discord bot,
a drop folder and a scheduler in one Python process, one SQLite database, and an LLM server
beside it. This directory holds its model: the modules, the instances TLC checks, and proofs for
TLAPS. Paths such as `inbox/watcher.py` are relative to `src/src/clawbot/`.

## 1. Inventory

| Component | State it keeps | Operations | What makes it correct |
|---|---|---|---|
| Inbox watcher `inbox/watcher.py` | files in `inbox/`, `.processed/`, `.failed/`; wardrobe rows, embeddings, audit rows | `discover`, `sweep`, `process_one`, `process_email` and its two per-item paths | every file dropped is dealt with, nothing lost or doubled, the audit log tells the truth |
| Email parser `inbox/email_parser.py` | none | `parse_eml` and a parser per retailer | one email gives its products or a quarantining error |
| Channel notifier `inbox/notify.py` | none | `post`, `post_image` | never raises into a job |
| Daily push `outfits/daily.py` | outfits, audit rows, the channel | `run_daily_outfit` | history, audit log, channel and answer agree; forgotten items stay hidden; variety |
| LLM picker `outfits/llm.py`, `llm_schema.py` | none | `pick_best_outfit`, `build_fallback_choice` | bounded retries, then the best score |
| Outfit history `outfits/persist.py` | `outfits`, `outfit_items` | `save`, `recently_worn_ids` | all or nothing; the window of the duplicate penalty |
| Candidates and scoring `outfits/candidates.py`, `score.py`, `compatibility.py`, `adapter.py` | none | `generate_candidates`, `score_outfit` | every outfit there is and no other up to the cap; scores in their range, rising and falling with what speaks for and against an outfit; a curated list counts for the pieces it names by their whole ids, and for nothing else |
| Collage `outfits/collage.py` | picture files | `build_collage` | every piece has a tile of its own; failure is contained |
| Migrations `db/migrate.py`, `db/migrations/` | the schema, `schema_migrations` | `run_migrations` | no serving on half a schema, versions once and in order |
| Repositories `db/repo.py`, `db/connection.py` | all tables | add, update, soft delete, embeddings, search, audit | each call is one transaction |
| Wardrobe commands `discord/cogs/items.py`, `wardrobe.py`, `discord/images.py` | through the repository | `/add_item`, `/edit_item`, `/forget_item`, `/wardrobe` | each command is answered, does what it says to the item that was meant, and is audited |
| Health commands `discord/cogs/health.py` | none | `/run_outfit`, `/health` | the answer tells what happened |
| Profile `profile.py`, `discord/cogs/profile.py`, `scripts/bootstrap_profile.py` | `user_profile` | validated updates, YAML bootstrap | all or nothing, audited |
| Scheduler `scheduler.py` | job table | five jobs, one instance of each | no overlap of a job with itself |
| Maintenance `maintenance/`, `inbox/disk_check.py` | archives, database file | backup, retention, vacuum, disk alert | always a good archive, expired ones gone, a full disk reported |
| Vision `vision/` | cutouts, cached models | `ingest_image` | succeeds or raises |
| Lifecycle `main.py`, `docker/docker-compose.yml` | the process | start, SIGTERM, crash, restart | nothing durable depends on a clean exit |
| Whitelist, configuration, secrets `discord/bot.py`, `config.py`, `discord_secrets.py` | none that changes | one check per command | |

How they interact. One asyncio event loop runs everything: a task keeps the loop from one
`await` to the next, so other tasks come in only at awaits (the LLM call, Discord sends). All
share one SQLite connection in autocommit, and every repository call is a transaction of its own,
so a sequence such as *insert row, insert embedding, move file, write audit row* has a crash
window after each. The operator acts from outside at any time, through commands and through the
file system. Other processes (the bootstrap script) share the database only.

What is hard here: a crash or a storage fault between two durable effects of one handler; state
read before an await and used after it; the 07:00 job overlapping `/run_outfit`; retries of an
LLM that times out or answers nonsense; files that change under the sweep; migrations that two
processes run at once; a backup of a live database on a disk that fills up, around midnight; a
ranking cut off at a cap. `PROJECT.json` lists the hazards with their lines.

## 2. Modules

| Module | Models | Checked by | Proved in |
|---|---|---|---|
| `InboxContract` | what the drop folder promises, without saying how | `inbox` (refinement) | `Inbox_proofs` |
| `Inbox` | `inbox/watcher.py` with the operator, the clock, faults and restarts | `inbox`, `inbox_malformed`, `inbox_half_written` | `Inbox_proofs` |
| `PushContract` | what the daily push promises, without ranking, rendering or waiting | `daily` (refinement) | `DailyOutfit_proofs` |
| `DailyOutfit` | `outfits/daily.py`, `llm.py`, `persist.py`, `/run_outfit` and the job | `daily`, `daily_forgotten`, `daily_window`, `daily_raises` | `DailyOutfit_proofs` |
| `Ranking` | what `DailyOutfit` and `Outfits` agree on: a cap, and the share of the duplicate penalty | `daily` | `Ranking_proofs` |
| `MigrationsContract` | what the migration runners promise together: a counter of versions and statements | `migrations` (refinement) | `Migrations_proofs` |
| `Migrations` | `db/migrate.py` as run by the bot and the bootstrap script | `migrations`, `migrations_partial` | `Migrations_proofs` |
| `CommandsContract` | what the commands promise: each takes effect at one instant, or not at all | `commands` (refinement) | `Commands_proofs` |
| `Commands` | the slash commands on wardrobe and profile behind the whitelist, and the bootstrap script beside them | `commands` | `Commands_proofs` |
| `Maintenance` | `maintenance/backup.py`, `vacuum.py`, `inbox/disk_check.py` and their jobs, on a disk of limited size | `maintenance` | `Maintenance_proofs` |
| `Outfits` | `outfits/candidates.py`, `score.py`, `compatibility.py`, `adapter.py` and the layout of `collage.py`, over a wardrobe that is edited | `outfits` | `Outfits_proofs`, `Candidates_proofs` |

The `MC...` modules give the constants their values.

### Inbox

`place[f]` is the directory a file is in, `rows`, `vectors`, `ingested` and `failures` count the
durable rows per *entry* (a product of a file), `pc`, `batch`, `file` and `entry` are where
`sweep()` is. Each action is one durable effect or one await of the source: `Ingest` is the call
of the vision pipeline, `AddRow` and `SetEmbedding` the two commits, `IngestFails` the jump into
the `except` branch from any of the three, `MoveToProcessed`, `MoveToFailed` the moves,
`AuditIngested`, `AuditFailed` the audit rows, `Notify` the await. `Release` is the loop of
`sweep()` going on, `Abort` an exception that leaves it. `StorageFault` is an error in a step that
no handler of the source covers, `Crash` the death of the process at any step, `Boot` its
restart. The order differs between the paths exactly as in the source: a screenshot is moved
before it is audited, an email after all of its products are.

`discover()` is a snapshot (`Tick`), sorted by modification time (`Rank`); `Settle` is the five
seconds without a write. What an email parses to is a property of the file: `Rejected` ones raise
the two quarantining errors, `Poison` ones anything else.

`InboxContract` keeps a status per file and the sets of recorded and reported entries. `Inbox`
implements it under the mapping at the end of the module.

### DailyOutfit

A run is a task of the event loop: the job or a command. `holder` is the run that keeps the loop
between two awaits; only then are its steps not interleaved with others, but a crash may still
come between them. A run's `plan` is what `run_daily_outfit` holds in its local variables: the
snapshot, the ranked candidates, the pick. `Begin...` is everything up to the first await:
`BeginEmpty` (nothing to wear), `BeginSingle` (one candidate, no LLM call), `BeginMany`. `Picked`,
`Retry`, `Fallback` and `LlmRaises` are the outcomes of an LLM call, `Render` and `RenderFails`
those of the collage, `Save` and `Audit` the two transactions, `Post` and `Warn` the channel,
`Finish` the answer to the command. `Add`, `Forget` and `Rename` are the operator changing the
wardrobe: /add_item and the inbox, /forget_item, and /edit_item of an id, which the foreign key of
`outfit_items` refuses once an outfit refers to it. The same key refuses an outfit one of whose
items lost its id while its run was waiting (`SaveRefused`): the run fails after its collage is
rendered.

Scores are integers from a constant function `Base` less the duplicate penalty; ties and the order
in which candidates are generated, truncated and returned by the database are left open
(`UpTo`, `Top`, `RecentlyWorn` are sets of possible results), so the properties hold for each.
`Combos` maps a wardrobe to its plausible outfits. It is a function and not a fixed set that the
wardrobe filters, because one item may rule out another's outfits: with a coat that fits, the
source makes no outfits without one. Season, occasion and the columns of the items are constant in
it. `Ranking_proofs` justifies what is assumed of it, see section 5.

`PushContract` knows the wardrobe, the history, audit log, channel and answers, and which outfits
a run may still record (`offer`): some that could be worn when it began, none once it recorded
one. What it says of an answer is exact: "posted" only of an audited outfit, "nothing" only when
nothing was recorded, "failed" only when nothing was certified.

### Migrations

A migration is a sequence of statements, and each takes effect on its own: `executescript` runs
on a connection in autocommit and the file has no `BEGIN`. `Scan` is the check for missing files
and the computation of the pending list; `Statement`, `StatementRaises` and `Record` are the loop.
None of the statements can be repeated, so one that took effect raises. `Deploy` installs another
image, newer or older, while nothing runs.

`MigrationsContract` has one runner: the number of versions recorded, the number of statements of
the next one in effect, and who serves. The mapping finds the position the database stands at
(`Position`); that there is always one is part of `ImplementsContract`. A crash is invisible there,
which is why the contract does not say that the bot comes up.

### Commands

A *task* is what a user is after (`Wish`), an *attempt* one issue of a command for it: `pc[a]` is
where the handler of attempt `a` is, `target[a]` its local `item_id` or `resolved`. `rows`,
`embedded`, `profile` and `audit` are the tables, `changed` (history) the attempts whose change is
committed. `reject_unauthorized` and `Admitted` are the gate of `discord/bot.py`; `Defer` and
`Send` the awaits of Discord, `Ingest` and `IngestFails` the vision pipeline under its `try`;
`AddRow`, `SetEmbedding`, `Update`, `SoftDelete`, `set_many` and `WriteAudit` one transaction each.
`HasLoop` makes a handler keep the event loop from one await to the next; the bootstrap script
(`kind = "bootstrap"`) is a process of its own and comes between any two steps. `Resolve` and
`RefuseItem` are `resolve_short_id` with the other refusals, `Validate` the validation of the
profile fields, `UpdateFails` what SQLite turns down after the handler's own checks. `Blank` is a
bootstrap file without a value: it succeeds without an update or an audit row, as `set_many` returns
for an empty dictionary before either.

`Issue` tries a task again when every try before failed as far as its user can see: it was refused
or lost, or its interaction expired (`Expire`, `dead`) although the handler is still to run. The
order in which waiting handlers get the loop is left open.

In `CommandsContract` a command is open, then its effect is there, then it is logged and answered;
the effect is a single step on what the tables hold at that instant (the item is the only one its
name fits, all profile fields are written at once), and whatever fails cuts commands off as they
stand. The embeddings, the loop, the awaits and the transactions are not in it: `StageOf` maps a
handler's position and the history variable `changed` to a stage.

### Maintenance

`dir` is `backups_dir`: what each file holds, an archive being named by its day and suffix as in
`_build_filename`. It is `empty` when opened, `truncated` until it is closed, and then `whole`, or
`torn` when its `clawbot.db` and its `clawbot.db-wal` do not belong together; `Manual` are files
that do not match the naming scheme. `job` and `pc` say which job holds the event loop and where:
`OpenArchive`, `CopyDb`, `CloseArchive`, `BeginPrune`, `Unlink`, `EndPrune`, `AuditBackup` are the
nightly backup, `CheckDisk`, `PostAlert`, `AuditAlert` the disk check around its await, `RunVacuum`,
`AuditVacuum` the weekly job. `NoSpace` and `Fault` are exceptions, after which the archive stays as
it is (`BackupRaises`). `Misfire` is the cron tick that passes while the process is down or its
loop busy. `NextDay` is midnight, which may come between any two steps, so that `prune_old_backups`
asks for another date than `create_backup` did. It does not come so often that a backup lasts
longer than the retention: `retain_days` is at least one and a backup takes minutes.

`Commit` is the WAL: a commit may leave it checkpointed in full (`started`), and the next one
then overwrites it from its start. `copy` follows the copied `clawbot.db` against that log: it is
`behind` once a checkpoint moved pages into the live file, and what it lacks is `lost` once the
log started over. While a backup runs only the bootstrap script commits. The disk is counted in
units: one for each archive with content, `data` for the database and the pictures.

### Outfits

The state is what the push reads: `closet` the columns of the items, `rows` the active ones in the
order of `list_by_category`, `month`, `worn`, and the three profile fields the scorer knows. The
steps are the edits of these between two rankings, by commands and by earlier pushes. The lists
`pairs_well_with` and `avoid_pairing_with` hold `Texts`, since `handle_edit_item` stores them as they
were typed: whole ids, and also short ones and anything else, which `Partners` never has. Everything
else is operators: `Bucket` numbers the wearable rows of a role from above, `product` is
`itertools.product` by position, `DressCombos` and `PieceCombos` are the two paths, `generate_candidates`
the chain with its cap, `style_match`, ..., `score_outfit` the score, `Layout` and `SlotBox` the tiles.

Scores are integers: 48ths of a point. An outfit has two, three or four pieces, so every share is
a whole number of twelfths and a tier a quarter of one; only the ratio of budget and price is
rounded, down to a 48th of a point, which turns no order round. `from_db_item` hands over no
embedding, so the cosine base is 1/2 and a boost or a penalty is counted in tenths.

Stated separately, as what an outfit is, and not computed: `Outfits` and `Precedes`, which
`CandidatesAreTheOutfits` compares with the walk over the products.

## 3. Runs

| Run | Instance | Shows |
|---|---|---|
| `inbox` | four files (a screenshot, an email with a pictured and a text-only product, one of an unknown retailer, a malformed one last in order), one crash or fault anywhere | six invariants, liveness and the contract |
| `inbox_malformed` | the malformed email comes first | a code/documentation divergence: later files starve |
| `inbox_half_written` | as `inbox` | a divergence: a failed screenshot leaves a row |
| `daily` | three garments, each an outfit, one added later or the new name of another; the job and a command, two LLM attempts, one crash or fault | five invariants, liveness and the contract |
| `daily_forgotten` | as `daily` | a divergence: a forgotten item is recommended |
| `daily_window` | as `daily`, three runs | a divergence: the window of the penalty |
| `daily_raises` | as `daily` | a divergence: the orchestrator raises |
| `migrations` | the bot and the script twice, three releases of 3, 1 and 2 statements, two crashes | three invariants, liveness and the contract |
| `migrations_partial` | as `migrations` | a divergence: partial application |
| `commands` | eleven wishes over three items, two of which share a prefix; three commands issued, one fault | six invariants, liveness and the contract |
| `maintenance` | three days, a retention of one, two names a day, a disk of four units, a file of the operator's, two commits of the script, one archive brought back, one crash or fault | the last backup survives; retention is safe and complete; a true audit log; what tears an archive; a critical disk is reported |
| `outfits` | three wardrobes of up to seven items, a cap of three, two edits; lists that name another piece, the item itself, an item not worn with it, and a piece by its short id | candidates against their definition; ranges of the score; what an edit and a curated list move it by; forgetting; tiles |

Why the bounds are enough. *Inbox*: every path through the handlers occurs (each of the four kinds
of file takes a different one), an email of two products has a first, a last and a change of
kind between them, and one fault is the first that any of the properties has to tolerate; the
properties that count faults are proved for every number of them. *DailyOutfit*: two runs are the
least that overlap, one garment is absent at first so that the wardrobe can grow, shrink and change
an id under a run; `Window` and `PerOutfit` are 1 and 2 for 14 and 6, so that the history exceeds the LIMIT
after three runs; `MaxCandidates` does not bite, the cut to `TopK` does. *Migrations*: three
processes, so that a second script can meet what a first one left; versions with one and with
several statements, so that the last statement is also the first; two crashes, one for each of
two processes or both in one migration. *Commands*: three commands are a first one, its
repetition and one that interferes with both; the wishes take the handlers through their
branches (a prefix that is ambiguous until its twin is gone, an edit of the id, of `deleted_at`, a
value SQLite refuses in an item, a stranger, a file the validation refuses, one without a value)
but for two: the edit of an item's text that succeeds, which differs from that of `deleted_at` in the
column only, and a profile value that SQLite refuses. The proofs cover these too. One fault of any kind is the
first the counting properties have to tell from none, and these are proved for every number.

*Maintenance*: three days are the least on which an archive is inside, at the edge of and outside
a window of one; two names a day, so that an archive brought back makes the nightly one take a
suffix (`PerDay` bounds the suffixes, which `_build_filename` does not); four units, so that a disk fills up with and without archives, at each step of a backup;
two commits, since one cannot tear an archive. *Outfits*: two wardrobes have as many outfits
as the cap, from both paths, and an added item or a new season takes them past it, one has fewer; a coat for some months, none, and one that is
forgotten; prices that are negative, zero and above the budget; clashes enough for both ends of the
clamp; lists by whole id and by short id; two edits, so that one can prepare what the other does. The ranges, the tiles and
what edits move a score by are proved for wardrobes of any size.

`MaxFaults`, `MaxRuns`, `MaxIssued`, `MaxDay`, `MaxScript`, `MaxCopies` and `MaxEdits` bound faults,
runs, commands, days, commits, copies and edits only. The runs of `DailyOutfit`, `Commands` and
`Outfits` set `CHECK_DEADLOCK FALSE` because an instance comes to rest once its runs, commands,
edits and faults are spent: the program would wait for the next morning, or for the next command.

Fairness. `WF(SweepStep)`, `WF(RunStep(r))`, `WF(Run(p))` and `WF(Work)`: the event loop and the operating
system run what can run; every await of the source either has a timeout (the LLM call) or returns
because `ChannelNotifier` swallows what Discord does. `WF(Boot)` and `WF(Start(Bot))`: the
container has `restart: unless-stopped`. `WF(Settle(f))`: time passes. Nothing else is fair: the
operator, crashes, faults and the outcome of the LLM are free. Weak fairness is enough because
each of these steps stays enabled until it is taken or the process dies; in `Commands` one condition
on the steps of all handlers together is enough, since finitely many handlers take finitely many.
In `Maintenance`, `WF(JobStep)`: a job that holds the loop goes on. `SF(CheckDisk \/ PostAlert)` is
an assumption on the environment. An alert that waits for the loop gets it, since asyncio runs its
ready tasks in turn. The check itself is a tick, which APScheduler drops when it is more than a second
late, as in `Misfire`; it comes back every hour, and the assumption is that the loop is not busy at
every single one of these ticks. Strong, because other jobs take the loop and give it back in
between. Midnight, misfires and the operator are not fair.

## 4. Findings

Each `violation` run states a sentence of the repository and finds a behaviour of the code that
contradicts it; `PROJECT.json` quotes them. In short: a malformed email starves the files behind
it; a screenshot whose embedding fails leaves a row although it is reported as failed; an item
forgotten during the LLM call is recommended; the duplicate penalty reaches back further than its
window; a reply that is no JSON object makes the orchestrator raise; a crash inside a migration
leaves it half applied, and the container restarts for ever.

## 5. Proofs

The theorems hold for every value of the constants that meets the module's `ASSUME`: any number
of files, products, runs, garments, processes, versions, statements, days, archives, retries and
faults.

* `Inbox_proofs`: type correctness, the five other invariants and the refinement
  `ImplementsContract`. The inductive invariant adds to the types: which steps the sweep can be at
  for the file it holds (`Control`), that the file it holds is not filed away yet (`Placement`),
  how rows, embeddings and audit rows of an entry relate at each step (`Duplicates`, `Ledger`,
  `Covered`), and that the entries before the current one are accounted for (`Accounted`).
  Without the last, `ProcessedIsAccounted` is not inductive: the move looks at no entry at all.
* `DailyOutfit_proofs`: type correctness, the four other invariants and the refinement. `Recorded`
  says which run holds the event loop at which step and that an outfit to be posted is already
  audited; `Answered` ties answer, step and `saved`; `Planned` says that a plan is a correct ranking
  of what was read. `FallbackAvoidsRepeats` needs the arithmetic of the penalty: an outfit all worn
  loses the whole penalty, one not worn at all loses nothing. The refinement needs two more:
  `OwnOutfit`, that no two runs record the same outfit and nobody else audits it, without which
  certifying once and answering "failed" could not be shown; and `Chosen`, that what is rendered and
  saved is a candidate. Two theorems that no run repeats: `ShownIsOnRecord`, the core of the
  contract as an invariant, and `HistoryRefersToItems`, that every item of the history keeps its row,
  from the two guards of the foreign key.
* `Migrations_proofs`: type correctness, the two other invariants, `VersionsAreInOrder` and the
  refinement. `Located` says how far a process is in the schema, `NothingSkipped` that what it does
  not have to apply is recorded, `Owned` that past the first statement nobody else is there and the
  version is not recorded. That a pending list has a least version is proved from the
  well-foundedness of `<`. For the refinement, `InSequence` says that the statements of a version
  took effect from the first one on; a set of numbers closed downwards is an interval
  (`ClosedIsPrefix`), so the database stands at a position (`StandsSomewhere`), and at no other
  (`PositionIsUnique`). Each statement then moves it by one (`AppliedVersion`).
* `Commands_proofs`: type correctness and the six other invariants. `InLoop` says that one handler
  of the bot at a time is between two awaits; `Progress` how change, audit row and answer of an
  attempt go with its stage; `Chosen` that what `resolve_short_id` read is still so when the item
  is written, which `InLoop` makes inductive; `KeptOrGone` that an item of the wardrobe is out of
  reach only by a committed command. The two properties that count are inductive with a counter
  of their own: a crash costs one missing audit row at most because of `InLoop`, and one row of a
  picture at most because a task has one try at a time that is not given up (`OneTry`,
  `DeadSilent`). The refinement (`CommandsImplementContract`) rests on `Progress` and on
  `Chosen`: the contract changes the item that the name fits at the instant of the change, the
  handler the one it fitted when it was resolved, and the two agree because of `InLoop`.
* `Maintenance_proofs`: type correctness and the five other safety properties. `Control` says
  which job is at which step, that the day of an archive under way is at most `Retain` days ago,
  and that its tick has passed; `Kept` what that archive holds at each step, that the newest one
  is complete and that what is about to be unlinked is expired; `Windowed` that past the listing an
  expired archive is on the list or was brought back; `RowsTrue` and `DaysTrue` relate audit rows,
  missed days and archives, the latter with its converse (an unsettled day has neither), without
  which it is not inductive; `Tears` counts the commits that torn archives and the copy under way
  have cost. `RetentionIsSafe` follows from `Kept` for the one action that unlinks.
* `JobsAreFinite` (there), `RunsAreFinite` (in `DailyOutfit_proofs`), `SweepsAreFinite` (in
  `Inbox_proofs`) and `HandlersAreFinite` (in `Commands_proofs`) are the safety half of the
  liveness properties: a number of steps a job, a run, a sweep or a command still has to take,
  which each of them lowers and nothing raises. That of a sweep is lexicographic, the list of files
  first and then the entries of the file in hand, and the theorem adds that a file is let go of
  only once it left the inbox, or when its parse fails each time. Together with fairness they are why each comes to its end.
* `Outfits_proofs`: `ScoresInRange` and the first half of `EditsMoveScores`, that nothing which speaks for an
  outfit lowers its score, go sub-score by sub-score. An outfit
  has two to four pieces of distinct roles (`Shape`, `Sizes`), so a sum over its roles is bounded
  by its size (`Part`) and grows with its terms (`Smaller`); the ratio of budget and price is bounded
  and monotone by lemmas on division (`DivRange`, `DivMono`). The second half says by how much a curated list moves which
  outfit: all other sub-scores stay (`CurationKeeps`); the pieces of an outfit are different items
  (`PiecesDiffer`), so a list is that of one piece and changes the count of liked or clashing pieces by
  one at most (`CountedOnceMore`), when it comes to name another piece by its whole id and only then
  (`CountedIfNames`); and one piece more is 2.5 points up or 5 down unless three clashes left nothing
  (`PointsMoved`). A scorer that ignored the lists, and one that took a short id for the item, would
  both contradict it. `CollageDrawsAll` is the arithmetic of
  the four boxes. The invariant is the types (`Typed`).
* `Candidates_proofs`: `CandidatesComplete` and `ForgettingIsLocal`. The invariant adds that no item has
  two rows (`Distinct`). A sequence is a `Listing` of a set in an order when it is onto and its pairs are
  in that order: a bucket is one (`BucketListing`, by the ranks of its rows), a product of two is one in
  lexicographic order (`ProductListing`, by quotient and remainder), an image and a chain are
  (`ImageListing`, `ChainListing`), hence both paths together (`ComboListing`), and a cap keeps the first
  ones (`CutListing`). For forgetting, what comes before an outfit afterwards did so before
  (`EarlierOutfit`, `EarlierOrder`), so its position cannot grow (`Placement`). Where an induction would
  be needed, the least number with the contrary property is taken, from the well-foundedness of `<`.

* `Ranking_proofs` connects the two modules that rank: what `DailyOutfit` takes for granted is what
  `Outfits` computes from rows. Since an item has one role, an outfit is known by its items
  (`KnownByItems`); with that the candidates, as sets of items, are an `UpTo` of all outfits at the
  cap, each a nonempty part of the active items (the assumption on `Combos`), and `duplicate_penalty`
  is `WornShare` of the items and the history (`RankingSeesItemSets`).

Proofs have corrected the model. A case distinction whose guards overlap (`Outcome` in `DailyOutfit`,
`Send` in `Commands`) gives a value TLC picks and the provers do not know: both are now decided one
condition after the other, as in the source. That the outfits of a smaller wardrobe are among
those of a larger one was an assumption on `Combos` that the source does not meet, see section 2.
And the contract of the push asks whether an item still exists when it is recorded, which brought
in `Rename` and `SaveRefused`.

Only model-checked: liveness (`EventuallyHandled`, `CommandsAreAnswered`, `BotGetsToServe`,
`CriticalIsAlerted`) and everything about fairness and ENABLED, which the prover does not do; and the violations.

## 6. Left out

* Data: names, messages, pictures, prompt texts. Vision is one step that succeeds or raises: its
  results come from neural networks and image arithmetic. So is the painting of a collage; its
  layout is in `Outfits`. In `DailyOutfit` a score before the duplicate penalty is a constant, in
  `Outfits` it is computed.
* In `Outfits`, prices and budgets are whole dollars, and floating point is exact. `_cosine` is left
  out: no caller passes an embedding.
* In `Maintenance`, the globs a backup excludes, the order of the pictures in it, and pictures that
  change while they are archived; the database is the only file with a state to tear.
* The configuration is read once and never written: its ranges are the assumptions on the
  constants. The model cache is a set of lazy singletons, each asked for one name. `find_similar`
  and `restore` have no caller. The YAML flattening is one pass over one file, and the email
  templates are text extraction.
* Where a picture is that a row's path names: nothing but the rendering reads it, and it draws a
  placeholder for one that is missing.
* Reads never fail; only writes, moves, rendering, the pipeline and the LLM do.
* In `DailyOutfit`, Discord's interaction tokens do not expire, and an edit changes the id of an item
  or none of its columns: season, category and the like are constant. In `Outfits` the ids
  are constant and the other columns change. In `Commands` an interaction expires only while its handler waits to begin: the 15 minutes of a
  deferred one are longer than any handler.
* In `Commands`: which pictures go with a reply, the category filter and the page of `/wardrobe`,
  `/profile show`, and where the text of a reply exceeds what Discord takes (a reply that fails is a
  fault). A raw picture whose ingestion fails stays on disk, and no table refers to it.
* The raw pictures, cutouts and collages a crash leaves behind are files no table refers to.
* The idle mode without Discord.

Disagreements between code and text that no run states, noticed on the way: `docs/commands.md:168-169`
and `:184` have the operator enter short ids, of eight characters, in `pairs_well_with` and
`avoid_pairing_with`, which `GUIDE.md:189` counts in the score, but `items.py:244-245` and `:283` store
them as they are and `compatibility.py:137-145` compares with whole ids, so the edit succeeds and moves
no score (`EditsActAsMeant` states what the code does: only a whole id counts); an occasion that is not
on the ladder scores neutral (`score.py:116`), where the comment at `score.py:50` says it counts as
casual; an item without seasons passes the filter as all-season (`candidates.py:41`) and scores 0
for the season (`score.py:99`); the weights and the cap in the `scoring` section of the
configuration are read by nobody; `GUIDE.md:786` says that the nightly job prunes whatever is
older than `retain_days`, which a full disk or an error in the archive prevents
(`scheduler.py:117` raises before line 123); `GUIDE.md:800` promises a `nightly_backup` row each
day, which a busy loop at 02:30 denies (`Misfire`); `config/clawbot.example.yaml:67` says that
ingestion halts on a critical disk, and nothing reads it.

## 7. Plan

Done: the inbox, the daily push, the migrations and the commands, each with its contract; the
maintenance jobs; the candidates with their scores and layout, and their connection with the push.
What is left, in order of what it would show:

1. An abstract specification of the maintenance jobs (a shelf of archives) that `Maintenance`
   implements.
2. A variant of the migration runners, as for runs, jobs, sweeps and commands.
3. The YAML flattening of the profile and the paths of pictures, with the moves that leave them
   dangling.
