---------------------------- MODULE DailyOutfit ----------------------------
(***************************************************************************)
(* The daily push (outfits/daily.py): a run snapshots the wardrobe and the *)
(* history, ranks candidates, lets the LLM pick one, renders it, saves it, *)
(* audits it and posts it.  The 07:00 job and /run_outfit commands are     *)
(* tasks of one event loop: a task holds the loop from one await to the    *)
(* next, and only a crash or a storage fault comes between the durable     *)
(* writes it does there.                                                   *)
(***************************************************************************)
EXTENDS Integers, Sequences, FiniteSets, Ranking

CONSTANTS
    Runs,           \* the tasks: the scheduled job, /run_outfit commands
    Manual,         \* those that answer a command
    Garments,       \* the wardrobe items there may ever be
    Owned,          \* those in the wardrobe already
    Combos,         \* wardrobe |-> the plausible outfits for season and occasion
    Base,           \* the score of each before the duplicate penalty
    Penalty,        \* the duplicate penalty of an outfit all recently worn
    Window,         \* recently_worn_ids: the number of outfits it is to span
    PerOutfit,      \* and the items per outfit it assumes
    MaxCandidates,  \* generate_candidates: cap on the candidates
    TopK,           \* the candidates the LLM chooses from
    MaxRetries,     \* LLM calls after the first
    Nobody,         \* no task holds the event loop
    MaxRuns,        \* bound on the runs of a behaviour
    MaxFaults       \* bound on its crashes and storage faults

ASSUME DailyAssumption ==
    /\ Manual \subseteq Runs
    /\ Nobody \notin Runs
    /\ IsFiniteSet(Garments) /\ Owned \subseteq Garments
    /\ Combos \in [SUBSET Garments -> SUBSET ((SUBSET Garments) \ {{}})]
    /\ \A A \in SUBSET Garments : \A c \in Combos[A] : c \subseteq A
    /\ Base \in [(SUBSET Garments) \ {{}} -> Int]
    /\ {Penalty, Window, PerOutfit, MaxCandidates, TopK} \subseteq Nat \ {0}
    /\ {MaxRetries, MaxRuns, MaxFaults} \subseteq Nat

VARIABLES
    garment,  \* durable: each item, absent from the table, active or forgotten
    outfits,  \* durable: the items of each outfit saved, oldest first
    shipped,  \* durable: the outfits with a daily_outfit_shipped audit row
    shown,    \* the outfits whose collage reached the channel
    up,       \* is the process up
    holder,   \* the run that holds the event loop between two awaits
    pc,       \* the next step of each run
    plan,     \* what each run read, ranked and picked, until it is saved
    attempt,  \* the LLM call it is waiting for, 1 elsewhere
    saved,    \* the outfit it saved, 0 if none yet
    answer,   \* what its command was answered
    started,  \* history: runs begun
    faults    \* history: crashes and storage faults

durable == <<garment, outfits, shipped, shown>>
history == <<started, faults>>
local == <<plan, attempt, saved, answer>>
vars == <<durable, up, holder, pc, local, history>>

Steps == {"idle", "warn", "llm", "render", "save", "audit", "post", "reply", "fail"}
Plans == [seen : Nat, hidden : SUBSET Garments, worn : SUBSET Garments,
          cands : SUBSET ((SUBSET Garments) \ {{}}),
          top : SUBSET ((SUBSET Garments) \ {{}}),
          pick : SUBSET Garments, fallback : BOOLEAN]
NoPlan == [seen |-> 0, hidden |-> {}, worn |-> {}, cands |-> {}, top |-> {},
           pick |-> {}, fallback |-> FALSE]

Init ==
    /\ garment = [g \in Garments |-> IF g \in Owned THEN "active" ELSE "absent"]
    /\ outfits = <<>> /\ shipped = {} /\ shown = {}
    /\ up = TRUE /\ holder = Nobody
    /\ pc = [r \in Runs |-> "idle"]
    /\ plan = [r \in Runs |-> NoPlan]
    /\ attempt = [r \in Runs |-> 1]
    /\ saved = [r \in Runs |-> 0]
    /\ answer = [r \in Runs |-> "unasked"]
    /\ started = 0 /\ faults = 0

----------------------------------------------------------------------------
(* Reading and ranking. *)

MutActive == {g \in Garments : garment[g] # "absent"}
Active == {g \in Garments : garment[g] = "active"}
Forgotten == {g \in Garments : garment[g] = "forgotten"}

WornIn(I) == UNION {outfits[i] : i \in I}

(* SELECT DISTINCT item_id ... ORDER BY generated_at DESC LIMIT limit * 6: *)
(* the limit counts items, and an item is sorted by any one of its outfits. *)
MutRecentlyWorn == {{}}
RecentlyWorn ==
    {W \in UpTo(WornIn(DOMAIN outfits), Window * PerOutfit) :
        \A a \in W, b \in WornIn(DOMAIN outfits) \ W :
            \E i, j \in DOMAIN outfits : j <= i /\ a \in outfits[i] /\ b \in outfits[j]}

DuplicatePenalty(c, worn) == WornShare(Penalty, c, worn)
Total(c, worn) == Base[c] - DuplicatePenalty(c, worn)

\* One item may rule out another's outfits: a coat those without a coat.
Candidates == UpTo(Combos[Active], MaxCandidates)

Top(cands, worn) ==
    {T \in UpTo(cands, TopK) :
        \A c \in T, d \in cands \ T : Total(d, worn) <= Total(c, worn)}

----------------------------------------------------------------------------
(* The operator. *)

Free == up /\ holder = Nobody

(* /add_item, the inbox, /forget_item and /edit_item of an id: each within *)
(* one turn of the loop.  The id of an added item is one nobody knows yet. *)
Add(g) ==
    /\ Free /\ garment[g] = "absent"
    /\ \A r \in Runs : g \notin UNION plan[r].cands
    /\ garment' = [garment EXCEPT ![g] = "active"]
    /\ UNCHANGED <<outfits, shipped, shown, up, holder, pc, local, history>>

Forget(g) ==
    /\ Free /\ garment[g] = "active"
    /\ garment' = [garment EXCEPT ![g] = "forgotten"]
    /\ UNCHANGED <<outfits, shipped, shown, up, holder, pc, local, history>>

(* An item that an outfit refers to keeps its id. *)
Rename(g, h) ==
    /\ Free /\ garment[g] = "active" /\ garment[h] = "absent"
    /\ g \notin WornIn(DOMAIN outfits)
    /\ garment' = [garment EXCEPT ![g] = "absent", ![h] = "active"]
    /\ UNCHANGED <<outfits, shipped, shown, up, holder, pc, local, history>>

----------------------------------------------------------------------------
(* A run. *)

Running(r, step) == up /\ holder \in {Nobody, r} /\ pc[r] = step
Goto(r, step) == pc' = [pc EXCEPT ![r] = step]
Keep == holder' = holder
Hold(r) == holder' = r
Yield == holder' = Nobody

(* The trigger and everything up to the first await. *)
Begin(r, worn, cands, top, pick) ==
    /\ Free /\ pc[r] = "idle" /\ started < MaxRuns
    /\ started' = started + 1
    /\ plan' = [plan EXCEPT ![r] =
                  [seen |-> Len(outfits), hidden |-> Forgotten, worn |-> worn,
                   cands |-> cands, top |-> top, pick |-> pick, fallback |-> FALSE]]
    /\ saved' = [saved EXCEPT ![r] = 0]
    /\ answer' = [answer EXCEPT ![r] = IF r \in Manual THEN "waiting" ELSE "unasked"]
    /\ UNCHANGED <<durable, up, attempt, faults>>

(* Nothing to wear: a warning is posted. *)
BeginEmpty(r) ==
    /\ {} \in Candidates
    /\ Begin(r, {}, {}, {}, {})
    /\ Goto(r, "warn") /\ Keep

(* A single candidate is taken without an LLM call, hence without an await. *)
BeginSingle(r) ==
    \E worn \in RecentlyWorn, cands \in Candidates : \E c \in cands :
        /\ {c} \in Top(cands, worn)
        /\ Begin(r, worn, cands, {c}, c)
        /\ Goto(r, "render") /\ Hold(r)

BeginMany(r) ==
    \E worn \in RecentlyWorn, cands \in Candidates : \E top \in Top(cands, worn) :
        /\ Cardinality(top) > 1
        /\ Begin(r, worn, cands, top, {})
        /\ Goto(r, "llm") /\ Keep

(* pick_best_outfit ends with a choice, and awaits the close of its client. *)
Choose(r, c, fallback) ==
    /\ plan' = [plan EXCEPT ![r].pick = c, ![r].fallback = fallback]
    /\ attempt' = [attempt EXCEPT ![r] = 1]
    /\ Goto(r, "render")
    /\ UNCHANGED <<durable, up, holder, saved, answer, history>>

(* The LLM answers in time with a valid index into the candidates. *)
Picked(r) ==
    /\ Running(r, "llm")
    /\ \E c \in plan[r].top : Choose(r, c, FALSE)

(* A timeout, an HTTP error, bad JSON or an index out of range: once more. *)
MutRetryOffByOne(r) ==
    /\ Running(r, "llm") /\ attempt[r] <= MaxRetries + 1
    /\ attempt' = [attempt EXCEPT ![r] = @ + 1]
    /\ UNCHANGED <<durable, up, holder, pc, plan, saved, answer, history>>
MutRetryForever(r) ==
    /\ Running(r, "llm")
    /\ attempt' = [attempt EXCEPT ![r] = IF @ <= MaxRetries THEN @ + 1 ELSE 1]
    /\ UNCHANGED <<durable, up, holder, pc, plan, saved, answer, history>>
Retry(r) ==
    /\ Running(r, "llm") /\ attempt[r] <= MaxRetries
    /\ attempt' = [attempt EXCEPT ![r] = @ + 1]
    /\ UNCHANGED <<durable, up, holder, pc, plan, saved, answer, history>>

(* build_fallback_choice: the highest score of the list. *)
Fallback(r) ==
    /\ Running(r, "llm") /\ attempt[r] = MaxRetries + 1
    /\ \E c \in plan[r].top :
        /\ \A d \in plan[r].top : Total(d, plan[r].worn) <= Total(c, plan[r].worn)
        /\ Choose(r, c, TRUE)

(* An answer that is not the expected JSON object raises what is not retried. *)
LlmRaises(r) ==
    /\ Running(r, "llm")
    /\ attempt' = [attempt EXCEPT ![r] = 1]
    /\ Goto(r, "fail")
    /\ UNCHANGED <<durable, up, holder, plan, saved, answer, history>>

Render(r) ==
    /\ Running(r, "render")
    /\ Goto(r, "save") /\ Hold(r)
    /\ UNCHANGED <<durable, up, local, history>>

(* Without a collage the choice is posted as text, not saved, not audited. *)
MutRenderFailsSaves(r) ==
    /\ Running(r, "render")
    /\ outfits' = Append(outfits, plan[r].pick)
    /\ saved' = [saved EXCEPT ![r] = Len(outfits) + 1]
    /\ Goto(r, "warn") /\ Yield
    /\ UNCHANGED <<garment, shipped, shown, up, plan, attempt, answer, history>>
RenderFails(r) ==
    /\ Running(r, "render")
    /\ Goto(r, "warn") /\ Yield
    /\ UNCHANGED <<durable, up, local, history>>

(* One transaction for the outfit and its items, which the foreign key of  *)
(* outfit_items refuses as a whole when one of them has lost its id.       *)
Known(c) == \A g \in c : garment[g] # "absent"

Save(r) ==
    /\ Running(r, "save") /\ Known(plan[r].pick)
    /\ outfits' = Append(outfits, plan[r].pick)
    /\ saved' = [saved EXCEPT ![r] = Len(outfits) + 1]
    /\ plan' = [plan EXCEPT ![r] = NoPlan]
    /\ Goto(r, "audit") /\ Keep
    /\ UNCHANGED <<garment, shipped, shown, up, attempt, answer, history>>

SaveRefused(r) ==
    /\ Running(r, "save") /\ ~Known(plan[r].pick)
    /\ Goto(r, "fail") /\ Yield
    /\ UNCHANGED <<durable, up, local, history>>

MutAuditSkipped(r) ==
    /\ Running(r, "audit")
    /\ Goto(r, "post") /\ Yield
    /\ UNCHANGED <<durable, up, local, history>>
Audit(r) ==
    /\ Running(r, "audit")
    /\ shipped' = shipped \cup {saved[r]}
    /\ Goto(r, "post") /\ Yield
    /\ UNCHANGED <<garment, outfits, shown, up, local, history>>

(* The channel takes the collage, or the notifier drops it and says nothing. *)
Post(r) ==
    /\ Running(r, "post")
    /\ shown' \in {shown, shown \cup {saved[r]}}
    /\ Goto(r, "reply")
    /\ UNCHANGED <<garment, outfits, shipped, up, holder, local, history>>

Warn(r) ==
    /\ Running(r, "warn")
    /\ Goto(r, "reply")
    /\ UNCHANGED <<durable, up, holder, local, history>>

(* The command is answered; the scheduler only logs an exception. *)
Outcome(r) ==
    IF pc[r] = "fail" THEN "failed" ELSE IF saved[r] = 0 THEN "nothing" ELSE "posted"

Finish(r) ==
    /\ Running(r, "reply") \/ Running(r, "fail")
    /\ answer' = [answer EXCEPT ![r] = IF r \in Manual THEN Outcome(r) ELSE @]
    /\ plan' = [plan EXCEPT ![r] = NoPlan]
    /\ Goto(r, "idle")
    /\ UNCHANGED <<durable, up, holder, attempt, saved, history>>

RunStep(r) ==
    \/ Picked(r) \/ Retry(r) \/ Fallback(r) \/ LlmRaises(r)
    \/ Render(r) \/ RenderFails(r) \/ Save(r) \/ SaveRefused(r) \/ Audit(r)
    \/ Post(r) \/ Warn(r) \/ Finish(r)

----------------------------------------------------------------------------
(* Faults, MaxFaults of them at most. *)

(* A full disk or a locked database: the exception leaves run_daily_outfit. *)
MutStorageFaultCaught(r) ==
    /\ Running(r, "save") \/ Running(r, "audit")
    /\ faults < MaxFaults /\ faults' = faults + 1
    /\ Goto(r, "reply") /\ Yield
    /\ UNCHANGED <<durable, up, local, started>>
StorageFault(r) ==
    /\ Running(r, "save") \/ Running(r, "audit")
    /\ faults < MaxFaults /\ faults' = faults + 1
    /\ Goto(r, "fail") /\ Yield
    /\ UNCHANGED <<durable, up, local, started>>

Crash ==
    /\ up /\ faults < MaxFaults /\ faults' = faults + 1
    /\ up' = FALSE /\ Yield
    /\ pc' = [r \in Runs |-> "idle"]
    /\ plan' = [r \in Runs |-> NoPlan] /\ attempt' = [r \in Runs |-> 1]
    /\ UNCHANGED <<durable, saved, answer, started>>

Boot ==
    /\ ~up /\ up' = TRUE
    /\ UNCHANGED <<durable, holder, pc, local, history>>

Next ==
    \/ \E g \in Garments : Add(g) \/ Forget(g) \/ \E h \in Garments : Rename(g, h)
    \/ \E r \in Runs : \/ BeginEmpty(r) \/ BeginSingle(r) \/ BeginMany(r)
                       \/ RunStep(r) \/ StorageFault(r)
    \/ Crash \/ Boot

Spec == Init /\ [][Next]_vars

(* An LLM call times out, the event loop runs its tasks on, the container  *)
(* is restarted.                                                           *)
Fairness ==
    /\ \A r \in Runs : WF_vars(RunStep(r))
    /\ WF_vars(Boot)

FairSpec == Spec /\ Fairness

----------------------------------------------------------------------------
(* Properties. *)

TypeOK ==
    /\ garment \in [Garments -> {"absent", "active", "forgotten"}]
    /\ outfits \in Seq(SUBSET Garments)
    /\ shipped \subseteq Nat /\ shown \subseteq Nat
    /\ up \in BOOLEAN
    /\ holder \in Runs \cup {Nobody}
    /\ pc \in [Runs -> Steps]
    /\ plan \in [Runs -> Plans]
    /\ attempt \in [Runs -> 1..(MaxRetries + 1)]
    /\ saved \in [Runs -> Nat]
    /\ answer \in [Runs -> {"unasked", "waiting", "posted", "nothing", "failed"}]
    /\ started \in Nat /\ faults \in Nat

(* The push keeps the promises of PushContract, whatever it overlaps with, *)
(* forgets or loses: a run records at most one outfit, of items that were  *)
(* in the wardrobe when it began and still have a row, shows it only once  *)
(* it is audited, and answers its command with what is on record.          *)
Push == INSTANCE PushContract WITH
    busy <- {r \in Runs : pc[r] # "idle"},
    offer <- [r \in Runs |-> plan[r].cands]
ImplementsContract == Push!Spec

(* What the channel shows is on record: an outfit is announced only once  *)
(* its rows and its daily_outfit_shipped audit row are committed.         *)
ShippedBeforeShown == shown \subseteq shipped /\ shipped \subseteq DOMAIN outfits

(* No outfit enters the history unaudited while nothing fails: one not yet *)
(* audited is in the hands of the run that saved it.                      *)
OutfitsAreAudited ==
    faults = 0 => \A i \in DOMAIN outfits :
        i \in shipped \/ \E r \in Runs : pc[r] = "audit" /\ saved[r] = i

(* /run_outfit answers "posted" only for an outfit in the history and the  *)
(* audit log, and "nothing" or, unless storage failed, "failed" only when  *)
(* its run has left nothing behind.                                        *)
AnswerMatchesHistory ==
    \A r \in Manual :
        /\ answer[r] = "posted" => saved[r] \in shipped
        /\ answer[r] = "nothing" => saved[r] = 0
        /\ answer[r] = "failed" /\ faults = 0 => saved[r] = 0

(* A run never settles on an item that was forgotten before it began.      *)
ForgottenBeforeIsHidden ==
    \A r \in Runs : plan[r].pick \cap plan[r].hidden = {}

(* Without the LLM the push does not repeat itself: when a run falls back  *)
(* on items that are all in the history it read, no candidate that was not *)
(* worn at all scored above them by more than the penalty.  (As long as    *)
(* the items ever worn fit into the LIMIT of recently_worn_ids.)           *)
FallbackAvoidsRepeats ==
    \A r \in Runs :
        LET p == plan[r]
            past == WornIn(1..p.seen)
        IN p.fallback /\ Cardinality(past) <= Window * PerOutfit /\ p.pick \subseteq past
           => \A c \in p.cands : c \cap past = {} => Base[c] <= Base[p.pick] - Penalty

(* Every run comes to its end, whatever the LLM and the channel do, and its *)
(* command is answered unless something failed.  (Runs are MaxRuns at most, *)
(* so that they have all ended from some time on.)                         *)
CommandsAreAnswered ==
    <>[] \A r \in Runs : pc[r] = "idle" /\ (answer[r] = "waiting" => faults > 0)

(* docs/commands.md:213 says of a forgotten item: it's hidden from         *)
(* recommendations.  No outfit is saved with an item already forgotten.    *)
ForgottenIsHidden ==
    [][\A i \in DOMAIN outfits' \ DOMAIN outfits : outfits'[i] \cap Forgotten = {}]_vars

(* outfits/persist.py:126 promises the items of the last Window outfits: a *)
(* run penalizes those items and no others.                                *)
PenaltySpansWindow ==
    \A r \in Runs : pc[r] = "llm" =>
        plan[r].worn = WornIn({i \in 1..plan[r].seen : plan[r].seen < i + Window})

(* docs/runbooks/daily-outfit-failed.md:76 says that the orchestrator      *)
(* never raises: every failure mode degrades to a text-only message.       *)
NeverRaises == faults = 0 => \A r \in Runs : pc[r] # "fail"
=============================================================================
