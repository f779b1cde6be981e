------------------------- MODULE DailyOutfit_proofs -------------------------
(***************************************************************************)
(* Theorems about DailyOutfit, for every set of runs, wardrobe, scoring,   *)
(* window, retry budget and bound on faults.  The invariants are layered:  *)
(* types, who holds the event loop, what is on record, what each command   *)
(* is answered, what each run ranked.                                      *)
(***************************************************************************)
EXTENDS DailyOutfit, FiniteSetTheorems, TLAPS

LEMMA ConstantFacts ==
    /\ Manual \subseteq Runs
    /\ Nobody \notin Runs
    /\ MaxRetries \in Nat
BY DailyAssumption

USE ConstantFacts

(* The outfits made of some items are made of those, and of at least one. *)
LEMMA ComboFacts ==
    ASSUME NEW A \in SUBSET Garments
    PROVE  Combos[A] \subseteq (SUBSET A) \ {{}}
BY DailyAssumption

----------------------------------------------------------------------------
(* What a run has read when it begins: candidates that are plausible and    *)
(* in the wardrobe, the best of them, and the items of the history unless   *)
(* these exceed the LIMIT of the query.                                    *)

Ranked(p) ==
    /\ p.top \subseteq p.cands
    /\ \A c \in p.top, d \in p.cands \ p.top : Total(d, p.worn) <= Total(c, p.worn)

History == WornIn(DOMAIN outfits)
Complete(p) ==
    p.cands # {} /\ Cardinality(History) <= Window * PerOutfit => p.worn = History

LEMMA UpToFacts ==
    ASSUME NEW S, NEW n, NEW T \in UpTo(S, n)
    PROVE  /\ T \subseteq S
           /\ Cardinality(S) <= n /\ IsFiniteSet(S) => T = S
<1>1. T \subseteq S
  BY DEF UpTo
<1>2. ASSUME Cardinality(S) <= n, IsFiniteSet(S)
      PROVE  T = S
  <2>1. Cardinality(T) = Cardinality(S)
    BY <1>2 DEF UpTo
  <2> QED
    BY <1>1, <1>2, <2>1, FS_Subset
<1> QED
  BY <1>1, <1>2

LEMMA HistoryFinite ==
    ASSUME TypeOK, NEW I \in SUBSET DOMAIN outfits
    PROVE  WornIn(I) \subseteq Garments /\ IsFiniteSet(WornIn(I))
<1>1. WornIn(I) \subseteq Garments
  BY DEF TypeOK, WornIn
<1>2. IsFiniteSet(Garments)
  BY DailyAssumption
<1> QED
  BY <1>1, <1>2, FS_Subset

(* The three ways a run begins are one: *)
BeginAs(r, p, step) ==
    /\ Free /\ pc[r] = "idle"
    /\ p \in Plans /\ Ranked(p) /\ Complete(p)
    /\ p.seen = Len(outfits) /\ p.hidden = Forgotten /\ ~p.fallback
    /\ p.cands \subseteq Combos[Active]
    /\ \A c \in p.cands \cup {p.pick} : c \subseteq Active
    /\ step = "render" => p.pick \in p.cands
    /\ plan' = [plan EXCEPT ![r] = p]
    /\ pc' = [pc EXCEPT ![r] = step]
    /\ \/ step \in {"warn", "llm"} /\ holder' = holder
       \/ step = "render" /\ holder' = r
    /\ saved' = [saved EXCEPT ![r] = 0]
    /\ answer' = [answer EXCEPT ![r] = IF r \in Manual THEN "waiting" ELSE "unasked"]
    /\ started' = started + 1
    /\ UNCHANGED <<garment, outfits, shipped, shown, up, attempt, faults>>

BeginSome(r) == BeginEmpty(r) \/ BeginSingle(r) \/ BeginMany(r)

(* The operator's edits touch the wardrobe only, whatever is under way. *)
Edited(g) == Add(g) \/ Forget(g) \/ \E h \in Garments : Rename(g, h)

LEMMA EditFacts ==
    ASSUME NEW g \in Garments, Edited(g)
    PROVE  UNCHANGED <<outfits, shipped, shown, up, holder, pc, plan, attempt, saved,
                       answer, started, faults>>
BY DEF Edited, Add, Forget, Rename, local, history

LEMMA CandidateFacts ==
    ASSUME TypeOK, NEW worn \in RecentlyWorn, NEW cands \in Candidates,
           NEW top \in Top(cands, worn)
    PROVE  /\ worn \subseteq Garments
           /\ cands \subseteq Combos[Active] /\ cands \subseteq (SUBSET Garments) \ {{}}
           /\ \A c \in cands : c \subseteq Active
           /\ top \subseteq cands
           /\ \A c \in top, d \in cands \ top : Total(d, worn) <= Total(c, worn)
           /\ Cardinality(History) <= Window * PerOutfit => worn = History
<1>1. worn \in UpTo(History, Window * PerOutfit)
  BY DEF RecentlyWorn, History
<1>2. History \subseteq Garments /\ IsFiniteSet(History)
  BY HistoryFinite DEF History
<1>3. worn \subseteq History /\ (Cardinality(History) <= Window * PerOutfit => worn = History)
  BY <1>1, <1>2, UpToFacts
<1>4. cands \subseteq Combos[Active] /\ Active \in SUBSET Garments
  BY UpToFacts DEF Candidates, Active
<1>5. top \in UpTo(cands, TopK)
  BY DEF Top
<1>6. top \subseteq cands
  BY <1>5, UpToFacts
<1>7. \A c \in top, d \in cands \ top : Total(d, worn) <= Total(c, worn)
  BY DEF Top
<1> QED
  BY <1>2, <1>3, <1>4, <1>6, <1>7, ComboFacts

LEMMA BeginCases ==
    ASSUME TypeOK, NEW r \in Runs, BeginSome(r)
    PROVE  \E p \in Plans : \E step \in Steps : BeginAs(r, p, step)
<1> DEFINE P(worn, cands, top, pick) ==
             [seen |-> Len(outfits), hidden |-> Forgotten, worn |-> worn,
              cands |-> cands, top |-> top, pick |-> pick, fallback |-> FALSE]
<1>0. Len(outfits) \in Nat /\ Forgotten \subseteq Garments
  BY DEF TypeOK, Forgotten
<1>1. CASE BeginEmpty(r)
  <2>1. P({}, {}, {}, {}) \in Plans
    BY <1>0 DEF Plans
  <2>2. Ranked(P({}, {}, {}, {})) /\ Complete(P({}, {}, {}, {}))
    BY DEF Ranked, Complete
  <2>3. BeginAs(r, P({}, {}, {}, {}), "warn")
    BY <1>1, <2>1, <2>2 DEF BeginEmpty, Begin, BeginAs, Goto, Keep, durable
  <2> QED
    BY <2>1, <2>3 DEF Steps
<1>2. CASE BeginSingle(r)
  <2>1. PICK worn \in RecentlyWorn, cands \in Candidates : \E c \in cands :
               /\ {c} \in Top(cands, worn)
               /\ Begin(r, worn, cands, {c}, c)
               /\ Goto(r, "render") /\ Hold(r)
    BY <1>2 DEF BeginSingle
  <2>2. PICK c \in cands : /\ {c} \in Top(cands, worn)
                           /\ Begin(r, worn, cands, {c}, c)
                           /\ Goto(r, "render") /\ Hold(r)
    BY <2>1
  <2>3. /\ worn \subseteq Garments /\ cands \subseteq Combos[Active]
        /\ cands \subseteq (SUBSET Garments) \ {{}}
        /\ \A d \in cands : d \subseteq Active
        /\ \A d \in cands \ {c} : Total(d, worn) <= Total(c, worn)
        /\ Cardinality(History) <= Window * PerOutfit => worn = History
    BY <2>2, CandidateFacts
  <2>4. c \subseteq Garments /\ {c} \subseteq (SUBSET Garments) \ {{}}
    BY <2>3
  <2>5. P(worn, cands, {c}, c) \in Plans
    BY <1>0, <2>3, <2>4 DEF Plans
  <2>6. Ranked(P(worn, cands, {c}, c)) /\ Complete(P(worn, cands, {c}, c))
    BY <2>3 DEF Ranked, Complete
  <2>7. BeginAs(r, P(worn, cands, {c}, c), "render")
    BY <2>2, <2>3, <2>5, <2>6 DEF Begin, BeginAs, Goto, Hold, durable
  <2> QED
    BY <2>5, <2>7 DEF Steps
<1>3. CASE BeginMany(r)
  <2>1. PICK worn \in RecentlyWorn, cands \in Candidates : \E top \in Top(cands, worn) :
               /\ Begin(r, worn, cands, top, {})
               /\ Goto(r, "llm") /\ Keep
    BY <1>3 DEF BeginMany
  <2>2. PICK top \in Top(cands, worn) : /\ Begin(r, worn, cands, top, {})
                                        /\ Goto(r, "llm") /\ Keep
    BY <2>1
  <2>3. /\ worn \subseteq Garments /\ cands \subseteq Combos[Active]
        /\ cands \subseteq (SUBSET Garments) \ {{}} /\ top \subseteq cands
        /\ \A d \in cands : d \subseteq Active
        /\ \A c \in top, d \in cands \ top : Total(d, worn) <= Total(c, worn)
        /\ Cardinality(History) <= Window * PerOutfit => worn = History
    BY <2>2, CandidateFacts
  <2>5. P(worn, cands, top, {}) \in Plans
    BY <1>0, <2>3 DEF Plans
  <2>6. Ranked(P(worn, cands, top, {})) /\ Complete(P(worn, cands, top, {}))
    BY <2>3 DEF Ranked, Complete
  <2>7. BeginAs(r, P(worn, cands, top, {}), "llm")
    BY <2>2, <2>3, <2>5, <2>6 DEF Begin, BeginAs, Goto, Keep, durable
  <2> QED
    BY <2>5, <2>7 DEF Steps
<1> QED
  BY <1>1, <1>2, <1>3 DEF BeginSome

(* So are the two ways it chooses. *)
ChooseAs(r, c, fallback) ==
    /\ Running(r, "llm") /\ c \in plan[r].top
    /\ fallback => \A d \in plan[r].top : Total(d, plan[r].worn) <= Total(c, plan[r].worn)
    /\ Choose(r, c, fallback)

LEMMA ChooseCases ==
    ASSUME NEW r \in Runs, Picked(r) \/ Fallback(r)
    PROVE  \E c \in plan[r].top : \E fallback \in BOOLEAN : ChooseAs(r, c, fallback)
BY DEF Picked, Fallback, ChooseAs

----------------------------------------------------------------------------
(* Types. *)

LEMMA InitTyped == Init => TypeOK
BY DEF Init, TypeOK, Plans, NoPlan, Steps

LEMMA TypePreserved ==
    ASSUME TypeOK, [Next]_vars
    PROVE  TypeOK'
<1> USE DEF TypeOK, Steps
<1>0. NoPlan \in Plans
  BY DEF NoPlan, Plans
<1>1. ASSUME NEW g \in Garments, Edited(g) PROVE TypeOK'
  <2>1. garment' \in [Garments -> {"absent", "active", "forgotten"}]
    BY <1>1 DEF Edited, Add, Forget, Rename
  <2> QED
    BY <1>1, <2>1, EditFacts
<1>2. ASSUME NEW r \in Runs, BeginSome(r) PROVE TypeOK'
  <2>1. PICK p \in Plans, step \in Steps : BeginAs(r, p, step)
    BY <1>2, BeginCases
  <2> QED
    BY <2>1 DEF BeginAs
<1>3. ASSUME NEW r \in Runs, Picked(r) \/ Fallback(r) PROVE TypeOK'
  <2>1. PICK c \in plan[r].top, fallback \in BOOLEAN : ChooseAs(r, c, fallback)
    BY <1>3, ChooseCases
  <2>2. c \in SUBSET Garments
    BY DEF Plans
  <2>3. [plan[r] EXCEPT !.pick = c, !.fallback = fallback] \in Plans
    <3> HIDE DEF TypeOK
    <3>1. plan[r] \in Plans
      BY DEF TypeOK
    <3> QED
      BY <2>2, <3>1 DEF Plans
  <2>4. plan' = [plan EXCEPT ![r] = [plan[r] EXCEPT !.pick = c, !.fallback = fallback]]
    BY <2>1 DEF ChooseAs, Choose
  <2> QED
    BY <2>1, <2>3, <2>4 DEF ChooseAs, Choose, Goto, durable, history
<1>4. ASSUME NEW r \in Runs, Retry(r) \/ LlmRaises(r) PROVE TypeOK'
  <2>1. CASE Retry(r)
    BY <2>1 DEF Retry, durable, history
  <2>2. CASE LlmRaises(r)
    BY <2>2 DEF LlmRaises, Goto, durable, history
  <2> QED
    BY <1>4, <2>1, <2>2
<1>5. ASSUME NEW r \in Runs, Render(r) \/ RenderFails(r) \/ SaveRefused(r) PROVE TypeOK'
  <2>1. CASE Render(r)
    BY <2>1 DEF Render, Goto, Hold, durable, local, history
  <2>2. CASE RenderFails(r) \/ SaveRefused(r)
    BY <2>2 DEF RenderFails, SaveRefused, Goto, Yield, durable, local, history
  <2> QED
    BY <1>5, <2>1, <2>2
<1>6. ASSUME NEW r \in Runs, Save(r) PROVE TypeOK'
  <2>1. plan[r].pick \in SUBSET Garments
    BY DEF Plans
  <2> QED
    BY <1>0, <1>6, <2>1 DEF Save, Goto, Keep, history
<1>7. ASSUME NEW r \in Runs, Audit(r) \/ Post(r) \/ Warn(r) PROVE TypeOK'
  <2>1. CASE Audit(r)
    BY <2>1 DEF Audit, Goto, Yield, local, history
  <2>2. CASE Post(r)
    BY <2>2 DEF Post, Goto, local, history
  <2>3. CASE Warn(r)
    BY <2>3 DEF Warn, Goto, durable, local, history
  <2> QED
    BY <1>7, <2>1, <2>2, <2>3
<1>8. ASSUME NEW r \in Runs, Finish(r) PROVE TypeOK'
  BY <1>0, <1>8 DEF Finish, Outcome, Goto, durable, history
<1>9. ASSUME NEW r \in Runs, StorageFault(r) PROVE TypeOK'
  BY <1>9 DEF StorageFault, Goto, Yield, durable, local
<1>10. CASE Crash \/ Boot
  <2>1. CASE Crash
    <3>1. /\ UNCHANGED <<garment, outfits, shipped, shown, saved, answer, started>>
          /\ up' = FALSE /\ holder' = Nobody /\ faults' = faults + 1
          /\ pc' \in [Runs -> Steps]
      BY <2>1 DEF Crash, Yield, durable
    <3>2. plan' \in [Runs -> Plans] /\ attempt' \in [Runs -> 1..(MaxRetries + 1)]
      BY <2>1, <1>0 DEF Crash
    <3>3. /\ garment' \in [Garments -> {"absent", "active", "forgotten"}]
          /\ outfits' \in Seq(SUBSET Garments)
          /\ shipped' \subseteq Nat /\ shown' \subseteq Nat
      BY <3>1
    <3>4. /\ saved' \in [Runs -> Nat]
          /\ answer' \in [Runs -> {"unasked", "waiting", "posted", "nothing", "failed"}]
          /\ started' \in Nat
      BY <3>1
    <3>5. holder' \in Runs \cup {Nobody} /\ faults' \in Nat
      BY <3>1
    <3>6. up' \in BOOLEAN
      BY <2>1, Zenon DEF Crash
    <3> HIDE DEF Steps
    <3> QED
      BY <3>1, <3>2, <3>3, <3>4, <3>5, <3>6
  <2>2. CASE Boot
    BY <2>2 DEF Boot, durable, local, history
  <2> QED
    BY <1>10, <2>1, <2>2
<1>11. CASE UNCHANGED vars
  BY <1>11 DEF vars, durable, local, history
<1> QED
  BY <1>1, <1>2, <1>3, <1>4, <1>5, <1>6, <1>7, <1>8, <1>9, <1>10, <1>11
     DEF Next, RunStep, BeginSome, Edited

(* Every variable always holds a value of its type; in particular a run    *)
(* never waits for more than MaxRetries + 1 LLM calls.                     *)
THEOREM TypeCorrect == Spec => []TypeOK
<1>1. Init => TypeOK
  BY InitTyped
<1>2. TypeOK /\ [Next]_vars => TypeOK'
  BY TypePreserved
<1> QED
  BY <1>1, <1>2, PTL DEF Spec

----------------------------------------------------------------------------
(* The loop and the record. *)

(* The run that is between two durable writes holds the event loop, and    *)
(* what it has saved, audited or shown is on record.                       *)
Recorded ==
    /\ \A r \in Runs : pc[r] \in {"save", "audit"} => holder = r
    /\ shown \subseteq shipped
    /\ shipped \subseteq DOMAIN outfits
    /\ \A r \in Runs : pc[r] = "audit" => saved[r] \in DOMAIN outfits
    /\ \A r \in Runs : pc[r] = "post" => saved[r] \in shipped

(* Where a run stands in relation to what it has saved, and what its       *)
(* command was answered. *)
Answered ==
    \A r \in Runs :
        /\ pc[r] \in {"warn", "llm", "render", "save"} => saved[r] = 0
        /\ pc[r] = "reply" => saved[r] = 0 \/ saved[r] \in shipped
        /\ pc[r] = "fail" /\ faults = 0 => saved[r] = 0
        /\ pc[r] # "idle" => answer[r] \in {"unasked", "waiting"}
        /\ answer[r] = "posted" => saved[r] \in shipped
        /\ answer[r] = "nothing" => saved[r] = 0
        /\ answer[r] = "failed" /\ faults = 0 => saved[r] = 0

LEMMA RecordedPreserved ==
    ASSUME TypeOK, Recorded, [Next]_vars
    PROVE  Recorded'
<1> USE DEF TypeOK, Steps, Recorded
<1>1. ASSUME NEW g \in Garments, Edited(g) PROVE Recorded'
  BY <1>1, EditFacts
<1>2. ASSUME NEW r \in Runs, BeginSome(r) PROVE Recorded'
  <2>1. PICK p \in Plans, step \in Steps : BeginAs(r, p, step)
    BY <1>2, BeginCases
  <2> QED
    BY <2>1 DEF BeginAs, Free
<1>3. ASSUME NEW r \in Runs, Picked(r) \/ Fallback(r) PROVE Recorded'
  BY <1>3 DEF Picked, Fallback, Choose, Goto, Running, durable, history
<1>4. ASSUME NEW r \in Runs, Retry(r) \/ LlmRaises(r) PROVE Recorded'
  BY <1>4 DEF Retry, LlmRaises, Goto, durable, history
<1>5. ASSUME NEW r \in Runs, Render(r) \/ RenderFails(r) \/ SaveRefused(r) PROVE Recorded'
  <2>1. CASE Render(r)
    BY <2>1 DEF Render, Goto, Hold, Running, durable, local, history
  <2>2. CASE RenderFails(r) \/ SaveRefused(r)
    BY <2>2 DEF RenderFails, SaveRefused, Goto, Yield, Running, durable, local, history
  <2> QED
    BY <1>5, <2>1, <2>2
<1>6. ASSUME NEW r \in Runs, Save(r) PROVE Recorded'
  <2>1. DOMAIN outfits' = 1..(Len(outfits) + 1) /\ DOMAIN outfits = 1..Len(outfits)
    BY <1>6 DEF Save, Plans
  <2> QED
    BY <1>6, <2>1 DEF Save, Goto, Keep, Running, history
<1>7. ASSUME NEW r \in Runs, Audit(r) PROVE Recorded'
  BY <1>7 DEF Audit, Goto, Yield, Running, local, history
<1>8. ASSUME NEW r \in Runs, Post(r) \/ Warn(r) PROVE Recorded'
  BY <1>8 DEF Post, Warn, Goto, Running, durable, local, history
<1>9. ASSUME NEW r \in Runs, Finish(r) PROVE Recorded'
  BY <1>9 DEF Finish, Goto, durable, history
<1>10. ASSUME NEW r \in Runs, StorageFault(r) PROVE Recorded'
  BY <1>10 DEF StorageFault, Goto, Yield, Running, durable, local
<1>11. CASE Crash \/ Boot
  BY <1>11 DEF Crash, Boot, Yield, durable, local, history
<1>12. CASE UNCHANGED vars
  BY <1>12 DEF vars, durable, local, history
<1> QED
  BY <1>1, <1>2, <1>3, <1>4, <1>5, <1>6, <1>7, <1>8, <1>9, <1>10, <1>11, <1>12
     DEF Next, RunStep, BeginSome, Edited

LEMMA AuditedPreserved ==
    ASSUME TypeOK, Recorded, OutfitsAreAudited, [Next]_vars
    PROVE  OutfitsAreAudited'
<1> USE DEF TypeOK, Steps, OutfitsAreAudited
<1>1. ASSUME NEW g \in Garments, Edited(g) PROVE OutfitsAreAudited'
  BY <1>1, EditFacts
<1>2. ASSUME NEW r \in Runs, BeginSome(r) PROVE OutfitsAreAudited'
  <2>1. PICK p \in Plans, step \in Steps : BeginAs(r, p, step)
    BY <1>2, BeginCases
  <2> QED
    BY <2>1 DEF BeginAs
<1>3. ASSUME NEW r \in Runs, Picked(r) \/ Fallback(r) PROVE OutfitsAreAudited'
  BY <1>3 DEF Picked, Fallback, Choose, Goto, Running, durable, history
<1>4. ASSUME NEW r \in Runs, Retry(r) \/ LlmRaises(r) PROVE OutfitsAreAudited'
  BY <1>4 DEF Retry, LlmRaises, Goto, Running, durable, history
<1>5. ASSUME NEW r \in Runs, Render(r) \/ RenderFails(r) \/ SaveRefused(r) PROVE OutfitsAreAudited'
  BY <1>5 DEF Render, RenderFails, SaveRefused, Goto, Running, durable, local, history
<1>6. ASSUME NEW r \in Runs, Save(r) PROVE OutfitsAreAudited'
  <2>1. DOMAIN outfits' = 1..(Len(outfits) + 1) /\ DOMAIN outfits = 1..Len(outfits)
    BY <1>6 DEF Save, Plans
  <2> QED
    BY <1>6, <2>1 DEF Save, Goto, Running, history
<1>7. ASSUME NEW r \in Runs, Audit(r) PROVE OutfitsAreAudited'
  BY <1>7 DEF Audit, Goto, Running, local, history, Recorded
<1>8. ASSUME NEW r \in Runs, Post(r) \/ Warn(r) PROVE OutfitsAreAudited'
  BY <1>8 DEF Post, Warn, Goto, Running, durable, local, history
<1>9. ASSUME NEW r \in Runs, Finish(r) PROVE OutfitsAreAudited'
  BY <1>9 DEF Finish, Goto, Running, durable, history
<1>10. ASSUME NEW r \in Runs, StorageFault(r) PROVE OutfitsAreAudited'
  BY <1>10 DEF StorageFault
<1>11. CASE Crash \/ Boot
  BY <1>11 DEF Crash, Boot, durable, local, history
<1>12. CASE UNCHANGED vars
  BY <1>12 DEF vars, durable, local, history
<1> QED
  BY <1>1, <1>2, <1>3, <1>4, <1>5, <1>6, <1>7, <1>8, <1>9, <1>10, <1>11, <1>12
     DEF Next, RunStep, BeginSome, Edited

LEMMA AnsweredPreserved ==
    ASSUME TypeOK, Recorded, Answered, [Next]_vars
    PROVE  Answered'
<1> USE DEF TypeOK, Steps, Answered
<1>1. ASSUME NEW g \in Garments, Edited(g) PROVE Answered'
  BY <1>1, EditFacts
<1>2. ASSUME NEW r \in Runs, BeginSome(r) PROVE Answered'
  <2>1. PICK p \in Plans, step \in Steps : BeginAs(r, p, step)
    BY <1>2, BeginCases
  <2> QED
    BY <2>1 DEF BeginAs
<1>3. ASSUME NEW r \in Runs, Picked(r) \/ Fallback(r) PROVE Answered'
  <2>1. /\ pc[r] = "llm" /\ pc' = [pc EXCEPT ![r] = "render"]
        /\ UNCHANGED <<shipped, saved, answer, faults>>
    BY <1>3 DEF Picked, Fallback, Choose, Goto, Running, durable, history
  <2> QED
    BY <2>1
<1>4. ASSUME NEW r \in Runs, Retry(r) \/ LlmRaises(r) PROVE Answered'
  BY <1>4 DEF Retry, LlmRaises, Goto, Running, durable, history
<1>5. ASSUME NEW r \in Runs, Render(r) \/ RenderFails(r) \/ SaveRefused(r) PROVE Answered'
  BY <1>5 DEF Render, RenderFails, SaveRefused, Goto, Running, durable, local, history
<1>6. ASSUME NEW r \in Runs, Save(r) PROVE Answered'
  BY <1>6 DEF Save, Goto, Running, history
<1>7. ASSUME NEW r \in Runs, Audit(r) PROVE Answered'
  BY <1>7 DEF Audit, Goto, Running, local, history
<1>8. ASSUME NEW r \in Runs, Post(r) \/ Warn(r) PROVE Answered'
  BY <1>8 DEF Post, Warn, Goto, Running, durable, local, history, Recorded
<1>9. ASSUME NEW r \in Runs, Finish(r) PROVE Answered'
  BY <1>9 DEF Finish, Outcome, Goto, Running, durable, history
<1>10. ASSUME NEW r \in Runs, StorageFault(r) PROVE Answered'
  BY <1>10 DEF StorageFault, Goto, Running, durable, local
<1>11. CASE Crash \/ Boot
  BY <1>11 DEF Crash, Boot, durable, local, history
<1>12. CASE UNCHANGED vars
  BY <1>12 DEF vars, durable, local, history
<1> QED
  BY <1>1, <1>2, <1>3, <1>4, <1>5, <1>6, <1>7, <1>8, <1>9, <1>10, <1>11, <1>12
     DEF Next, RunStep, BeginSome, Edited

----------------------------------------------------------------------------
(* The ranking. *)

(* The items worn in the first n outfits of a history. *)
Past(h, n) == UNION {h[i] : i \in 1..n}

(* What was worn before a run began does not change under it. *)
LEMMA PastIsStable ==
    ASSUME NEW h \in Seq(SUBSET Garments), NEW x, NEW n \in Nat, n <= Len(h)
    PROVE  Past(Append(h, x), n) = Past(h, n) /\ n <= Len(Append(h, x))
<1>1. Len(Append(h, x)) = Len(h) + 1 /\ Len(h) \in Nat
  OBVIOUS
<1>2. \A i \in 1..n : Append(h, x)[i] = h[i]
  OBVIOUS
<1> QED
  BY <1>1, <1>2 DEF Past

(* A plan is ranked against the history its run read, settles on a         *)
(* candidate without forgotten items, and falls back on the best.          *)
Sound(h, p) ==
    /\ p.seen <= Len(h)
    /\ Ranked(p)
    /\ p.cands # {} /\ Cardinality(Past(h, p.seen)) <= Window * PerOutfit
         => p.worn = Past(h, p.seen)
    /\ \A c \in p.cands \cup {p.pick} : c \cap p.hidden = {}
    /\ p.fallback => /\ p.pick \in p.top
                     /\ \A d \in p.top : Total(d, p.worn) <= Total(p.pick, p.worn)

Planned == \A r \in Runs : Sound(outfits, plan[r])

LEMMA SoundIsStable ==
    ASSUME NEW h \in Seq(SUBSET Garments), NEW x, NEW p \in Plans, Sound(h, p)
    PROVE  Sound(Append(h, x), p)
<1>1. p.seen \in Nat /\ p.seen <= Len(h)
  BY DEF Plans, Sound
<1>2. Past(Append(h, x), p.seen) = Past(h, p.seen) /\ p.seen <= Len(Append(h, x))
  BY <1>1, PastIsStable
<1> QED
  BY <1>2 DEF Sound

LEMMA NoPlanIsSound ==
    ASSUME NEW h \in Seq(SUBSET Garments)
    PROVE  Sound(h, NoPlan)
<1>1. Len(h) \in Nat
  OBVIOUS
<1> QED
  BY <1>1 DEF Sound, NoPlan, Ranked

LEMMA PlannedPreserved ==
    ASSUME TypeOK, TypeOK', Planned, [Next]_vars
    PROVE  Planned'
<1>0. /\ plan \in [Runs -> Plans]
      /\ outfits \in Seq(SUBSET Garments) /\ outfits' \in Seq(SUBSET Garments)
  BY DEF TypeOK
<1>1. CASE UNCHANGED <<plan, outfits>>
  BY <1>1 DEF Planned
<1>2. ASSUME NEW r \in Runs, BeginSome(r) PROVE Planned'
  <2>1. PICK p \in Plans, step \in Steps : BeginAs(r, p, step)
    BY <1>2, BeginCases
  <2>2. Len(outfits) \in Nat /\ DOMAIN outfits = 1..Len(outfits)
    BY <1>0
  <2>3. History = Past(outfits, p.seen) /\ p.seen <= Len(outfits)
    BY <2>1, <2>2 DEF BeginAs, History, WornIn, Past
  <2>4. \A c \in p.cands \cup {p.pick} : c \cap p.hidden = {}
    BY <2>1 DEF BeginAs, Active, Forgotten
  <2>5. Sound(outfits, p)
    BY <2>1, <2>3, <2>4 DEF BeginAs, Sound, Complete
  <2>6. outfits' = outfits /\ \A q \in Runs : plan'[q] = IF q = r THEN p ELSE plan[q]
    BY <1>0, <2>1 DEF BeginAs
  <2> QED
    BY <2>5, <2>6 DEF Planned
<1>3. ASSUME NEW r \in Runs, Picked(r) \/ Fallback(r) PROVE Planned'
  <2>1. PICK c \in plan[r].top, fallback \in BOOLEAN : ChooseAs(r, c, fallback)
    BY <1>3, ChooseCases
  <2> DEFINE p == [plan[r] EXCEPT !.pick = c, !.fallback = fallback]
  <2>2. plan[r] \in Plans /\ Sound(outfits, plan[r])
    BY <1>0 DEF Planned
  <2>3. plan' = [plan EXCEPT ![r] = p] /\ outfits' = outfits
    BY <2>1 DEF ChooseAs, Choose, durable
  <2>4. /\ p.seen = plan[r].seen /\ p.hidden = plan[r].hidden /\ p.worn = plan[r].worn
        /\ p.cands = plan[r].cands /\ p.top = plan[r].top
        /\ p.pick = c /\ p.fallback = fallback
    BY <2>2 DEF Plans
  <2>5. c \in plan[r].cands
    BY <2>2 DEF Sound, Ranked
  <2>6. fallback => \A d \in plan[r].top : Total(d, plan[r].worn) <= Total(c, plan[r].worn)
    BY <2>1 DEF ChooseAs
  <2> HIDE DEF p
  <2>7. Sound(outfits, p)
    BY <2>2, <2>4, <2>5, <2>6 DEF Sound, Ranked
  <2>8. \A q \in Runs : plan'[q] = IF q = r THEN p ELSE plan[q]
    BY <1>0, <2>3
  <2> QED
    BY <2>3, <2>7, <2>8 DEF Planned
<1>4. ASSUME NEW r \in Runs, Save(r) \/ Finish(r) PROVE Planned'
  <2>1. outfits' = outfits \/ outfits' = Append(outfits, plan[r].pick)
    BY <1>4 DEF Save, Finish, durable
  <2>2. plan' = [plan EXCEPT ![r] = NoPlan]
    BY <1>4 DEF Save, Finish
  <2>3. \A q \in Runs : plan'[q] = NoPlan \/ plan'[q] = plan[q]
    BY <1>0, <2>2
  <2>4. \A q \in Runs : Sound(outfits', plan[q])
    BY <1>0, <2>1, SoundIsStable DEF Planned
  <2>5. Sound(outfits', NoPlan)
    BY <1>0, NoPlanIsSound
  <2> QED
    BY <2>3, <2>4, <2>5 DEF Planned
<1>5. CASE Crash
  <2>1. plan' = [r \in Runs |-> NoPlan]
    BY <1>5 DEF Crash
  <2> QED
    BY <1>0, <2>1, NoPlanIsSound DEF Planned
<1>6. ASSUME NEW g \in Garments, Edited(g) PROVE UNCHANGED <<plan, outfits>>
  BY <1>6, EditFacts
<1>7. ASSUME NEW r \in Runs, \/ Retry(r) \/ LlmRaises(r) \/ Render(r) \/ RenderFails(r)
                             \/ SaveRefused(r) \/ Audit(r) \/ Post(r) \/ Warn(r) \/ StorageFault(r)
      PROVE UNCHANGED <<plan, outfits>>
  BY <1>7 DEF Retry, LlmRaises, Render, RenderFails, SaveRefused, Audit, Post, Warn,
              StorageFault,
              durable, local
<1>8. CASE Boot \/ UNCHANGED vars
  BY <1>1, <1>8 DEF Boot, vars, durable, local
<1> QED
  BY <1>1, <1>2, <1>3, <1>4, <1>5, <1>6, <1>7, <1>8 DEF Next, RunStep, BeginSome, Edited

LEMMA WhollyWorn ==
    ASSUME NEW P \in Nat, NEW n \in Nat \ {0}
    PROVE  (P * n) \div n = P /\ (P * 0) \div n = 0
OBVIOUS

LEMMA PlannedVaries ==
    ASSUME TypeOK, Planned
    PROVE  FallbackAvoidsRepeats
<1> SUFFICES ASSUME NEW r \in Runs, plan[r].fallback,
                    Cardinality(WornIn(1..plan[r].seen)) <= Window * PerOutfit,
                    plan[r].pick \subseteq WornIn(1..plan[r].seen),
                    NEW c \in plan[r].cands, c \cap WornIn(1..plan[r].seen) = {}
             PROVE  Base[c] <= Base[plan[r].pick] - Penalty
  BY DEF FallbackAvoidsRepeats
<1> DEFINE p == plan[r]
           past == WornIn(1..p.seen)
<1>1. p \in Plans /\ Sound(outfits, p) /\ past = Past(outfits, p.seen)
  BY DEF TypeOK, Planned, WornIn, Past
<1>2. p.pick \in p.top /\ p.pick \in p.cands /\ p.worn = past
  BY <1>1 DEF Sound, Ranked
<1>3. Total(c, past) <= Total(p.pick, past)
  BY <1>1, <1>2 DEF Sound, Ranked
<1>4. {c, p.pick} \subseteq (SUBSET Garments) \ {{}}
  BY <1>1, <1>2 DEF Plans
<1>5. \A d \in (SUBSET Garments) \ {{}} : Cardinality(d) \in Nat \ {0} /\ Base[d] \in Int
  <2> SUFFICES ASSUME NEW d \in (SUBSET Garments) \ {{}}
             PROVE  Cardinality(d) \in Nat \ {0} /\ Base[d] \in Int
    OBVIOUS
  <2>1. d \subseteq Garments /\ d # {} /\ IsFiniteSet(Garments) /\ Base[d] \in Int
    BY DailyAssumption
  <2>2. IsFiniteSet(d)
    BY <2>1, FS_Subset
  <2> QED
    BY <2>1, <2>2, FS_EmptySet, FS_CardinalityType
<1>6. Penalty \in Nat
  BY DailyAssumption
<1>7. DuplicatePenalty(p.pick, past) = Penalty
  <2>1. p.pick \cap past = p.pick
    OBVIOUS
  <2>2. Cardinality(p.pick) \in Nat \ {0}
    BY <1>4, <1>5
  <2> QED
    BY <1>6, <2>1, <2>2, WhollyWorn DEF DuplicatePenalty, WornShare
<1>8. DuplicatePenalty(c, past) = 0
  <2>1. Cardinality(c \cap past) = 0
    BY FS_EmptySet
  <2> QED
    BY <1>4, <1>5, <1>6, <2>1, WhollyWorn DEF DuplicatePenalty, WornShare
<1> QED
  BY <1>3, <1>4, <1>5, <1>6, <1>7, <1>8 DEF Total

----------------------------------------------------------------------------
(* Whose outfit it is. *)

(* No two runs record the same outfit, and one that is not yet audited, or *)
(* that a run failed over, is not certified by anybody else.               *)
OwnOutfit ==
    /\ \A r \in Runs : saved[r] \in 0..Len(outfits)
    /\ \A q, r \in Runs : q # r /\ saved[q] = saved[r] => saved[r] = 0
    /\ \A r \in Runs : pc[r] \in {"audit", "fail"} => saved[r] \notin shipped

LEMMA OwnOutfitPreserved ==
    ASSUME TypeOK, Recorded, Answered, OwnOutfit, [Next]_vars
    PROVE  OwnOutfit'
<1> USE DEF TypeOK, Steps, OwnOutfit
<1>0. Len(outfits) \in Nat /\ DOMAIN outfits = 1..Len(outfits)
  OBVIOUS
<1>a. 0 \notin shipped
  BY <1>0 DEF Recorded
<1>1. ASSUME NEW g \in Garments, Edited(g) PROVE OwnOutfit'
  BY <1>1, EditFacts
<1>2. ASSUME NEW r \in Runs, BeginSome(r) PROVE OwnOutfit'
  <2>1. PICK p \in Plans, step \in Steps : BeginAs(r, p, step)
    BY <1>2, BeginCases
  <2> QED
    BY <1>0, <2>1 DEF BeginAs
<1>3. ASSUME NEW r \in Runs, Picked(r) \/ Fallback(r) PROVE OwnOutfit'
  BY <1>3 DEF Picked, Fallback, Choose, Goto, Running, durable, history
<1>4. ASSUME NEW r \in Runs, Retry(r) \/ LlmRaises(r) PROVE OwnOutfit'
  BY <1>4, <1>a DEF Retry, LlmRaises, Goto, Running, durable, history, Answered
<1>5. ASSUME NEW r \in Runs, Render(r) \/ RenderFails(r) \/ SaveRefused(r) PROVE OwnOutfit'
  BY <1>5, <1>a DEF Render, RenderFails, SaveRefused, Goto, Running, durable, local, history,
                       Answered
<1>6. ASSUME NEW r \in Runs, Save(r) PROVE OwnOutfit'
  <2>1. Len(outfits') = Len(outfits) + 1
    BY <1>6 DEF Save, Plans
  <2>2. Len(outfits) + 1 \notin shipped
    BY <1>0 DEF Recorded
  <2>3. /\ pc' = [pc EXCEPT ![r] = "audit"] /\ shipped' = shipped
        /\ saved' = [saved EXCEPT ![r] = Len(outfits) + 1]
    BY <1>6 DEF Save, Goto
  <2>4. \A q \in Runs : saved[q] # Len(outfits) + 1
    BY <1>0
  <2>5. \A q \in Runs : saved'[q] = IF q = r THEN Len(outfits) + 1 ELSE saved[q]
    BY <2>3
  <2>6. \A q \in Runs : saved'[q] \in 0..Len(outfits')
    <3>1. \A q \in Runs : saved[q] \in 0..Len(outfits)
      OBVIOUS
    <3> HIDE DEF TypeOK, OwnOutfit
    <3> QED
      BY <1>0, <2>1, <2>5, <3>1
  <2>7. \A q, s \in Runs : q # s /\ saved'[q] = saved'[s] => saved'[s] = 0
    BY <2>4, <2>5
  <2>8. \A q \in Runs : pc'[q] \in {"audit", "fail"} => saved'[q] \notin shipped'
    BY <2>2, <2>3, <2>5
  <2> QED
    BY <2>6, <2>7, <2>8
<1>7. ASSUME NEW r \in Runs, Audit(r) PROVE OwnOutfit'
  <2>1. saved[r] # 0
    BY <1>0, <1>7 DEF Audit, Running, Recorded
  <2>2. \A q \in Runs : q # r => saved[q] # saved[r]
    BY <2>1
  <2> QED
    BY <1>7, <2>2 DEF Audit, Goto, Running, local, history
<1>8. ASSUME NEW r \in Runs, Post(r) \/ Warn(r) PROVE OwnOutfit'
  BY <1>8 DEF Post, Warn, Goto, Running, durable, local, history
<1>9. ASSUME NEW r \in Runs, Finish(r) PROVE OwnOutfit'
  BY <1>9 DEF Finish, Goto, Running, durable, history
<1>10. ASSUME NEW r \in Runs, StorageFault(r) PROVE OwnOutfit'
  BY <1>10, <1>a DEF StorageFault, Goto, Running, durable, local, Answered
<1>11. CASE Crash \/ Boot
  BY <1>11 DEF Crash, Boot, durable, local, history
<1>12. CASE UNCHANGED vars
  BY <1>12 DEF vars, durable, local, history
<1> QED
  BY <1>1, <1>2, <1>3, <1>4, <1>5, <1>6, <1>7, <1>8, <1>9, <1>10, <1>11, <1>12
     DEF Next, RunStep, BeginSome, Edited

(* What a run renders and saves is one of its candidates. *)
Chosen == \A r \in Runs : pc[r] \in {"render", "save"} => plan[r].pick \in plan[r].cands

LEMMA ChosenPreserved ==
    ASSUME TypeOK, Planned, Chosen, [Next]_vars
    PROVE  Chosen'
<1> USE DEF TypeOK, Steps, Chosen
<1>1. ASSUME NEW g \in Garments, Edited(g) PROVE Chosen'
  BY <1>1, EditFacts
<1>2. ASSUME NEW r \in Runs, BeginSome(r) PROVE Chosen'
  <2>1. PICK p \in Plans, step \in Steps : BeginAs(r, p, step)
    BY <1>2, BeginCases
  <2>2. step \notin {"save"} /\ (step = "render" => p.pick \in p.cands)
    BY <2>1 DEF BeginAs
  <2> QED
    BY <2>1, <2>2 DEF BeginAs
<1>3. ASSUME NEW r \in Runs, Picked(r) \/ Fallback(r) PROVE Chosen'
  <2>1. PICK c \in plan[r].top, fallback \in BOOLEAN : ChooseAs(r, c, fallback)
    BY <1>3, ChooseCases
  <2> DEFINE p == [plan[r] EXCEPT !.pick = c, !.fallback = fallback]
  <2>2. p.pick = c /\ p.cands = plan[r].cands /\ c \in plan[r].cands
    BY DEF Plans, Planned, Sound, Ranked
  <2>3. plan' = [plan EXCEPT ![r] = p] /\ pc' = [pc EXCEPT ![r] = "render"]
    BY <2>1 DEF ChooseAs, Choose, Goto
  <2> HIDE DEF p
  <2> QED
    BY <2>2, <2>3
<1>4. ASSUME NEW r \in Runs, Retry(r) \/ LlmRaises(r) PROVE Chosen'
  BY <1>4 DEF Retry, LlmRaises, Goto, durable, history
<1>5. ASSUME NEW r \in Runs, Render(r) \/ RenderFails(r) \/ SaveRefused(r) PROVE Chosen'
  BY <1>5 DEF Render, RenderFails, SaveRefused, Goto, Running, durable, local, history
<1>6. ASSUME NEW r \in Runs, Save(r) \/ Finish(r) PROVE Chosen'
  BY <1>6 DEF Save, Finish, Goto, durable, history
<1>7. ASSUME NEW r \in Runs, Audit(r) \/ Post(r) \/ Warn(r) PROVE Chosen'
  BY <1>7 DEF Audit, Post, Warn, Goto, durable, local, history
<1>8. ASSUME NEW r \in Runs, StorageFault(r) PROVE Chosen'
  BY <1>8 DEF StorageFault, Goto, durable, local
<1>9. CASE Crash \/ Boot
  BY <1>9 DEF Crash, Boot, durable, local, history
<1>10. CASE UNCHANGED vars
  BY <1>10 DEF vars, durable, local, history
<1> QED
  BY <1>1, <1>2, <1>3, <1>4, <1>5, <1>6, <1>7, <1>8, <1>9, <1>10
     DEF Next, RunStep, BeginSome, Edited

----------------------------------------------------------------------------
(* The theorems. *)

IInv == TypeOK /\ Recorded /\ OutfitsAreAudited /\ Answered /\ Planned /\ OwnOutfit /\ Chosen

LEMMA InitInv == Init => IInv
<1> SUFFICES ASSUME Init PROVE IInv
  OBVIOUS
<1>1. TypeOK
  BY InitTyped
<1>2. Recorded /\ Answered /\ OutfitsAreAudited /\ OwnOutfit /\ Chosen
  BY DEF Init, Recorded, Answered, OutfitsAreAudited, OwnOutfit, Chosen
<1>3. Planned
  BY <1>1, NoPlanIsSound DEF Init, TypeOK, Planned
<1> QED
  BY <1>1, <1>2, <1>3 DEF IInv

LEMMA NextInv == IInv /\ [Next]_vars => IInv'
BY TypePreserved, RecordedPreserved, AuditedPreserved, AnsweredPreserved, PlannedPreserved,
   OwnOutfitPreserved, ChosenPreserved DEF IInv

LEMMA Inductive == Spec => []IInv
BY InitInv, NextInv, PTL DEF Spec

(* An outfit is announced only once its rows and its audit row are         *)
(* committed.                                                              *)
THEOREM ShownIsOnRecord == Spec => []ShippedBeforeShown
<1>1. IInv => ShippedBeforeShown
  BY DEF IInv, Recorded, ShippedBeforeShown
<1> QED
  BY <1>1, Inductive, PTL

(* While nothing fails, an outfit in the history is audited or about to be. *)
THEOREM HistoryIsAudited == Spec => []OutfitsAreAudited
<1>1. IInv => OutfitsAreAudited
  BY DEF IInv
<1> QED
  BY <1>1, Inductive, PTL

(* What /run_outfit answers agrees with the history and the audit log. *)
THEOREM AnswersAgree == Spec => []AnswerMatchesHistory
<1>1. IInv => AnswerMatchesHistory
  BY DEF IInv, Answered, AnswerMatchesHistory
<1> QED
  BY <1>1, Inductive, PTL

(* A run never settles on an item that was forgotten before it began. *)
THEOREM ForgottenStaysHidden == Spec => []ForgottenBeforeIsHidden
<1>1. IInv => ForgottenBeforeIsHidden
  BY DEF IInv, Planned, Sound, ForgottenBeforeIsHidden
<1> QED
  BY <1>1, Inductive, PTL

(* A run that falls back on what is all in the history it read had nothing *)
(* unworn that scores above it by more than the penalty: for every scoring *)
(* of the outfits and every history.                                       *)
THEOREM FallbackVaries == Spec => []FallbackAvoidsRepeats
<1>1. IInv => FallbackAvoidsRepeats
  BY PlannedVaries DEF IInv
<1> QED
  BY <1>1, Inductive, PTL

----------------------------------------------------------------------------
(* The push implements its contract: each step of a run is one of the      *)
(* contract's, or changes nothing the contract speaks of.                  *)

Busy == {r \in Runs : pc[r] # "idle"}
Offer == [r \in Runs |-> plan[r].cands]

LEMMA PushInit == Init => Push!Init
BY DEF Init, NoPlan, Push!Init

LEMMA PushStutters ==
    ASSUME UNCHANGED <<garment, outfits, shipped, shown, saved, answer>>,
           Busy' = Busy, Offer' = Offer
    PROVE  UNCHANGED Push!vars
BY DEF Push!vars, Busy, Offer

(* A run that moves from one step to another is busy before and after. *)
LEMMA MovesOn ==
    ASSUME TypeOK, NEW r \in Runs, pc[r] # "idle",
           NEW step \in Steps \ {"idle"}, Goto(r, step)
    PROVE  r \in Busy /\ Busy' = Busy
BY DEF TypeOK, Goto, Busy

(* A plan that is replaced by one with the same candidates offers the same. *)
LEMMA SameOffer ==
    ASSUME TypeOK, NEW r \in Runs, NEW p, p.cands = plan[r].cands,
           plan' = [plan EXCEPT ![r] = p]
    PROVE  Offer' = Offer
BY DEF TypeOK, Offer

LEMMA OfferWithdrawn ==
    ASSUME TypeOK, NEW r \in Runs, NEW p, plan' = [plan EXCEPT ![r] = p]
    PROVE  Offer' = [Offer EXCEPT ![r] = p.cands]
BY DEF TypeOK, Offer

LEMMA ChangeKept ==
    ASSUME TypeOK, NEW g \in Garments, Edited(g)
    PROVE  \/ Push!Change(g, "absent", "active")
           \/ Push!Change(g, "active", "forgotten")
           \/ \E h \in Garments : Push!Rename(g, h)
<1>1. /\ UNCHANGED <<outfits, shipped, shown, saved, answer>>
      /\ Busy' = Busy /\ Offer' = Offer
  BY EditFacts DEF Busy, Offer
<1>2. CASE Add(g)
  BY <1>1, <1>2 DEF Add, Push!Change, Busy, Offer
<1>3. CASE Forget(g)
  BY <1>1, <1>3 DEF Forget, Push!Change, Busy, Offer
<1>4. ASSUME NEW h \in Garments, Rename(g, h)
      PROVE  Push!Rename(g, h)
  <2>1. \A i \in DOMAIN outfits : g \notin outfits[i]
    BY <1>4 DEF Rename, WornIn
  <2> QED
    BY <1>1, <1>4, <2>1 DEF Rename, Push!Rename, Busy, Offer
<1> QED
  BY <1>2, <1>3, <1>4 DEF Edited

LEMMA AskKept ==
    ASSUME TypeOK, NEW r \in Runs, BeginSome(r)
    PROVE  Push!Ask(r)
<1>1. PICK p \in Plans, step \in Steps : BeginAs(r, p, step)
  BY BeginCases
<1>2. r \notin Busy /\ Busy' = Busy \cup {r}
  BY <1>1 DEF BeginAs, TypeOK, Busy
<1>3. Offer' = [Offer EXCEPT ![r] = p.cands]
  BY <1>1, OfferWithdrawn DEF BeginAs
<1>4. p.cands \in SUBSET Push!Wearable
  BY <1>1 DEF BeginAs, Active, Push!Wearable
<1> QED
  BY <1>1, <1>2, <1>3, <1>4 DEF BeginAs, Busy, Offer, Push!Ask

LEMMA ChoiceStutters ==
    ASSUME TypeOK, NEW r \in Runs,
           Picked(r) \/ Retry(r) \/ Fallback(r) \/ LlmRaises(r)
    PROVE  UNCHANGED Push!vars
<1>0. pc[r] = "llm"
  BY DEF Picked, Retry, Fallback, LlmRaises, Running
<1>1. CASE Picked(r) \/ Fallback(r)
  <2>1. PICK c \in plan[r].top, fallback \in BOOLEAN : ChooseAs(r, c, fallback)
    BY <1>1, ChooseCases
  <2>2. plan' = [plan EXCEPT ![r] = [plan[r] EXCEPT !.pick = c, !.fallback = fallback]]
    BY <2>1 DEF ChooseAs, Choose
  <2>3. [plan[r] EXCEPT !.pick = c, !.fallback = fallback].cands = plan[r].cands
    BY DEF TypeOK, Plans
  <2>4. Offer' = Offer
    BY <2>2, <2>3, SameOffer
  <2>5. Busy' = Busy
    BY <1>0, <2>1, MovesOn DEF ChooseAs, Choose, Steps
  <2> QED
    BY <2>1, <2>4, <2>5, PushStutters DEF ChooseAs, Choose, durable
<1>2. CASE Retry(r)
  BY <1>2, PushStutters DEF Retry, durable, Busy, Offer
<1>3. CASE LlmRaises(r)
  <2>1. Busy' = Busy
    BY <1>0, <1>3, MovesOn DEF LlmRaises, Steps
  <2> QED
    BY <1>3, <2>1, PushStutters DEF LlmRaises, durable, Offer
<1> QED
  BY <1>1, <1>2, <1>3

LEMMA MovesStutter ==
    ASSUME TypeOK, NEW r \in Runs,
           Render(r) \/ RenderFails(r) \/ SaveRefused(r) \/ Warn(r) \/ StorageFault(r)
    PROVE  UNCHANGED Push!vars
<1>1. pc[r] # "idle"
  BY DEF Render, RenderFails, SaveRefused, Warn, StorageFault, Running
<1>2. \E step \in Steps \ {"idle"} : Goto(r, step)
  BY DEF Render, RenderFails, SaveRefused, Warn, StorageFault, Steps
<1>3. Busy' = Busy
  BY <1>1, <1>2, MovesOn
<1>4. UNCHANGED <<garment, outfits, shipped, shown, plan, saved, answer>>
  BY DEF Render, RenderFails, SaveRefused, Warn, StorageFault, durable, local
<1> QED
  BY <1>3, <1>4, PushStutters DEF Offer

LEMMA RecordKept ==
    ASSUME TypeOK, Chosen, NEW r \in Runs, Save(r)
    PROVE  Push!Record(r)
<1>1. pc[r] = "save" /\ r \in Busy /\ Busy' = Busy
  BY MovesOn DEF Save, Running, Steps
<1>2. plan[r].pick \in Offer[r]
  BY <1>1 DEF Chosen, Offer
<1>3. Offer' = [Offer EXCEPT ![r] = {}]
  <2>1. plan' = [plan EXCEPT ![r] = NoPlan] /\ NoPlan.cands = {}
    BY DEF Save, NoPlan
  <2> QED
    BY <2>1, OfferWithdrawn
<1> QED
  BY <1>1, <1>2, <1>3 DEF Save, Known, Busy, Offer, Push!Record

LEMMA CertifyKept ==
    ASSUME TypeOK, Recorded, OwnOutfit, NEW r \in Runs, Audit(r)
    PROVE  Push!Certify(r)
<1>1. pc[r] = "audit" /\ r \in Busy /\ Busy' = Busy
  BY MovesOn DEF Audit, Running, Steps
<1>2. saved[r] \in DOMAIN outfits \ shipped
  BY <1>1 DEF Recorded, OwnOutfit
<1> QED
  BY <1>1, <1>2 DEF Audit, local, Busy, Push!Certify

LEMMA ShowKept ==
    ASSUME TypeOK, Recorded, NEW r \in Runs, Post(r)
    PROVE  Push!Show(r) \/ UNCHANGED Push!vars
<1>1. pc[r] = "post" /\ r \in Busy /\ Busy' = Busy
  BY MovesOn DEF Post, Running, Steps
<1>2. saved[r] \in shipped
  BY <1>1 DEF Recorded
<1>3. UNCHANGED <<garment, outfits, shipped, plan, saved, answer>>
  BY DEF Post, local
<1>4. CASE shown' = shown
  BY <1>1, <1>3, <1>4, PushStutters DEF Offer
<1>5. CASE shown' = shown \cup {saved[r]}
  BY <1>1, <1>2, <1>3, <1>5 DEF Busy, Push!Show
<1> QED
  BY <1>4, <1>5 DEF Post

LEMMA CloseKept ==
    ASSUME TypeOK, Answered, OwnOutfit, NEW r \in Runs, Finish(r)
    PROVE  Push!Close(r)
<1>1. pc[r] \in {"reply", "fail"} /\ pc' = [pc EXCEPT ![r] = "idle"]
  BY DEF Finish, Running, Goto
<1>2. r \in Busy /\ Busy' = Busy \ {r}
  BY <1>1 DEF TypeOK, Busy
<1>3. Offer' = [Offer EXCEPT ![r] = {}]
  <2>1. plan' = [plan EXCEPT ![r] = NoPlan] /\ NoPlan.cands = {}
    BY DEF Finish, NoPlan
  <2> QED
    BY <2>1, OfferWithdrawn
<1>4. Outcome(r) \in {"posted", "nothing", "failed"} /\ Push!IsTrue(r, Outcome(r))
  <2>1. CASE pc[r] = "fail"
    <3>1. Outcome(r) = "failed" /\ saved[r] \notin shipped
      BY <2>1 DEF Outcome, OwnOutfit
    <3> QED
      BY <3>1 DEF Push!IsTrue
  <2>2. CASE pc[r] = "reply" /\ saved[r] = 0
    BY <2>2 DEF Outcome, Push!IsTrue
  <2>3. CASE pc[r] = "reply" /\ saved[r] # 0
    BY <2>3 DEF Outcome, Answered, Push!IsTrue
  <2> QED
    BY <1>1, <2>1, <2>2, <2>3
<1>5. CASE r \in Manual
  <2>1. answer' = [answer EXCEPT ![r] = Outcome(r)]
    BY <1>5 DEF Finish
  <2> QED
    BY <1>2, <1>3, <1>4, <1>5, <2>1 DEF Finish, durable, Busy, Offer, Push!Close
<1>6. CASE r \notin Manual
  <2>1. answer' = answer
    BY <1>6 DEF Finish, TypeOK
  <2> QED
    BY <1>2, <1>3, <1>6, <2>1 DEF Finish, durable, Busy, Offer, Push!Close
<1> QED
  BY <1>5, <1>6

LEMMA CutOffKept ==
    ASSUME Crash
    PROVE  Push!CutOff
<1>1. Busy' = {} /\ Offer' = [r \in Runs |-> {}]
  BY DEF Crash, NoPlan, Busy, Offer
<1> QED
  BY <1>1 DEF Crash, durable, Busy, Offer, Push!CutOff

LEMMA PushStep ==
    ASSUME IInv, [Next]_vars
    PROVE  [Push!Next]_(Push!vars)
<1> USE DEF IInv
<1>1. ASSUME NEW g \in Garments, Edited(g) PROVE Push!Next
  BY <1>1, ChangeKept DEF Push!Next
<1>2. ASSUME NEW r \in Runs, BeginSome(r) PROVE Push!Next
  BY <1>2, AskKept DEF Push!Next
<1>3. ASSUME NEW r \in Runs, RunStep(r) \/ StorageFault(r) PROVE Push!Next \/ UNCHANGED Push!vars
  <2>1. CASE Picked(r) \/ Retry(r) \/ Fallback(r) \/ LlmRaises(r)
    BY <2>1, ChoiceStutters
  <2>2. CASE Render(r) \/ RenderFails(r) \/ SaveRefused(r) \/ Warn(r) \/ StorageFault(r)
    BY <2>2, MovesStutter
  <2>3. CASE Save(r)
    BY <2>3, RecordKept DEF Push!Next
  <2>4. CASE Audit(r)
    BY <2>4, CertifyKept DEF Push!Next
  <2>5. CASE Post(r)
    BY <2>5, ShowKept DEF Push!Next
  <2>6. CASE Finish(r)
    BY <2>6, CloseKept DEF Push!Next
  <2> QED
    BY <1>3, <2>1, <2>2, <2>3, <2>4, <2>5, <2>6 DEF RunStep
<1>4. CASE Crash
  BY <1>4, CutOffKept DEF Push!Next
<1>5. CASE Boot
  BY <1>5, PushStutters DEF Boot, durable, local, Busy, Offer
<1>6. CASE UNCHANGED vars
  BY <1>6, PushStutters DEF vars, durable, local, Busy, Offer
<1> QED
  BY <1>1, <1>2, <1>3, <1>4, <1>5, <1>6 DEF Next, BeginSome, Edited

(* The daily push implements PushContract, for any number of runs that     *)
(* overlap, any wardrobe, scoring and bound on faults: a run records at    *)
(* most one outfit, of items all in the wardrobe when it began, shows it   *)
(* only once it is audited, and answers what is on record.                 *)
THEOREM PushImplementsContract == Spec => ImplementsContract
<1>1. Init => Push!Init
  BY PushInit
<1>2. IInv /\ [Next]_vars => [Push!Next]_(Push!vars)
  BY PushStep
<1> QED
  BY <1>1, <1>2, Inductive, PTL DEF Spec, ImplementsContract, Push!Spec

----------------------------------------------------------------------------
(* What the history refers to. *)

(* The foreign key of outfit_items. *)
ItemsAreKnown == \A i \in DOMAIN outfits : Known(outfits[i])

LEMMA KnownPreserved ==
    ASSUME TypeOK, ItemsAreKnown, [Next]_vars
    PROVE  ItemsAreKnown'
<1> USE DEF ItemsAreKnown, Known
<1>1. ASSUME NEW g \in Garments, Edited(g) PROVE ItemsAreKnown'
  <2>1. CASE Add(g) \/ Forget(g)
    BY <2>1 DEF Add, Forget, TypeOK
  <2>2. ASSUME NEW h \in Garments, Rename(g, h)
        PROVE  ItemsAreKnown'
    BY <2>2 DEF Rename, WornIn, TypeOK
  <2> QED
    BY <1>1, <2>1, <2>2 DEF Edited
<1>2. ASSUME NEW r \in Runs, Save(r) PROVE ItemsAreKnown'
  BY <1>2 DEF Save, TypeOK, Plans
<1>3. ASSUME UNCHANGED <<garment, outfits>> PROVE ItemsAreKnown'
  BY <1>3
<1>4. ASSUME NEW r \in Runs, BeginSome(r) \/ StorageFault(r) \/ (RunStep(r) /\ ~Save(r))
      PROVE  UNCHANGED <<garment, outfits>>
  BY <1>4 DEF BeginSome, BeginEmpty, BeginSingle, BeginMany, Begin, RunStep, Picked, Retry,
              Fallback, LlmRaises, Choose, Render, RenderFails, SaveRefused, Audit, Post,
              Warn, Finish, StorageFault, durable
<1>5. CASE Crash \/ Boot \/ UNCHANGED vars
  BY <1>3, <1>5 DEF Crash, Boot, vars, durable
<1> QED
  BY <1>1, <1>2, <1>3, <1>4, <1>5 DEF Next, BeginSome, Edited

(* Every item of the history has its row, although a run saves what it     *)
(* read before its await and ids change meanwhile: nothing is recorded     *)
(* that lost its id, and nothing recorded loses it.                        *)
THEOREM HistoryRefersToItems == Spec => []ItemsAreKnown
<1>1. Init => ItemsAreKnown
  BY DEF Init, ItemsAreKnown
<1>2. TypeOK /\ ItemsAreKnown /\ [Next]_vars => ItemsAreKnown'
  BY KnownPreserved
<1> QED
  BY <1>1, <1>2, TypeCorrect, PTL DEF Spec

----------------------------------------------------------------------------
(* How long a run takes. *)

(* The steps a run still has to take at most, the LLM calls included. *)
Ahead == [idle |-> 0, reply |-> 1, fail |-> 1, warn |-> 2, post |-> 2, audit |-> 3,
          save |-> 4, render |-> 5, llm |-> 6]
Left(r) == Ahead[pc[r]] + IF pc[r] = "llm" THEN MaxRetries + 1 - attempt[r] ELSE 0

LeftBounded == \A r \in Runs : Left(r) \in 0..(MaxRetries + 6)
RunsWindDown ==
    /\ []LeftBounded
    /\ [][\A r \in Runs : /\ RunStep(r) => Left(r)' < Left(r)
                          /\ pc[r] # "idle" => Left(r)' <= Left(r)]_vars

LEMMA LeftRange ==
    ASSUME TypeOK, NEW r \in Runs
    PROVE  /\ Left(r) \in 0..(MaxRetries + 6)
           /\ Ahead[pc[r]] \in 0..6 /\ Ahead[pc[r]] <= Left(r)
           /\ pc[r] = "llm" => Left(r) = 7 + MaxRetries - attempt[r]
<1>1. pc[r] \in Steps /\ attempt[r] \in 1..(MaxRetries + 1)
  BY DEF TypeOK
<1> QED
  BY <1>1 DEF Left, Ahead, Steps

LEMMA LeftIsBounded == TypeOK => LeftBounded
BY LeftRange DEF LeftBounded

LEMMA MoveCounts ==
    ASSUME TypeOK, NEW r \in Runs, NEW step \in Steps \ {"llm"}, Goto(r, step),
           Ahead[step] < Ahead[pc[r]]
    PROVE  Left(r)' < Left(r)
<1>1. pc'[r] = step
  BY DEF TypeOK, Goto
<1>2. Left(r)' = Ahead[step] /\ Ahead[step] \in Nat
  BY <1>1 DEF Left, Ahead, Steps
<1> QED
  BY <1>2, LeftRange

LEMMA StepCounts ==
    ASSUME TypeOK, NEW r \in Runs, RunStep(r)
    PROVE  Left(r)' < Left(r)
<1>1. CASE Retry(r)
  <2>1. /\ pc[r] = "llm" /\ pc' = pc /\ attempt[r] \in 1..(MaxRetries + 1)
        /\ attempt'[r] = attempt[r] + 1
    BY <1>1 DEF Retry, Running, TypeOK
  <2>2. Left(r) = 7 + MaxRetries - attempt[r] /\ Left(r)' = 6 + (MaxRetries + 1 - (attempt[r] + 1))
    BY <2>1, LeftRange DEF Left, Ahead
  <2> QED
    BY <2>1, <2>2
<1>2. CASE ~Retry(r)
  <2> DEFINE Closer(step) == Goto(r, step) /\ Ahead[step] < Ahead[pc[r]]
  <2>1. PICK step \in Steps \ {"llm"} : Closer(step)
    <3> USE DEF Steps, Running, Ahead
    <3>1. CASE Picked(r) \/ Fallback(r)
      <4>1. PICK c \in plan[r].top, fallback \in BOOLEAN : ChooseAs(r, c, fallback)
        BY <3>1, ChooseCases
      <4>2. Closer("render")
        BY <4>1 DEF ChooseAs, Choose
      <4> QED
        BY <4>2
    <3>2. CASE LlmRaises(r) \/ Render(r) \/ RenderFails(r)
      <4>1. /\ LlmRaises(r) => Closer("fail")
            /\ Render(r) => Closer("save")
            /\ RenderFails(r) => Closer("warn")
        BY DEF LlmRaises, Render, RenderFails
      <4> QED
        BY <3>2, <4>1
    <3>3. CASE Save(r) \/ SaveRefused(r) \/ Audit(r)
      <4>1. Closer("audit") \/ Closer("fail") \/ Closer("post")
        BY <3>3 DEF Save, SaveRefused, Audit
      <4> QED
        BY <4>1
    <3>4. CASE Post(r) \/ Warn(r) \/ Finish(r)
      <4>1. Closer("reply") \/ Closer("idle")
        BY <3>4 DEF Post, Warn, Finish
      <4> QED
        BY <4>1
    <3> QED
      BY <1>2, <3>1, <3>2, <3>3, <3>4 DEF RunStep
  <2> QED
    BY <2>1, MoveCounts
<1> QED
  BY <1>1, <1>2

\* Of the other runs it is the same before and after.
LEMMA OthersCount ==
    ASSUME TypeOK, NEW r \in Runs, NEW q \in Runs \ {r},
           BeginSome(r) \/ RunStep(r) \/ StorageFault(r)
    PROVE  Left(q)' = Left(q)
<1>1. pc'[q] = pc[q] /\ attempt'[q] = attempt[q]
  <2>1. CASE BeginSome(r)
    <3>1. PICK p \in Plans, step \in Steps : BeginAs(r, p, step)
      BY <2>1, BeginCases
    <3> QED
      BY <3>1 DEF BeginAs, TypeOK
  <2>2. CASE Picked(r) \/ Fallback(r) \/ Retry(r) \/ LlmRaises(r)
    BY <2>2 DEF Picked, Fallback, Choose, Retry, LlmRaises, Goto, TypeOK
  <2>3. CASE \/ Render(r) \/ RenderFails(r) \/ Save(r) \/ SaveRefused(r)
             \/ Audit(r) \/ Post(r) \/ Warn(r) \/ Finish(r) \/ StorageFault(r)
    BY <2>3 DEF Render, RenderFails, Save, SaveRefused, Audit, Post, Warn, Finish,
                StorageFault, Goto, local, TypeOK
  <2> QED
    BY <2>1, <2>2, <2>3 DEF RunStep
<1> QED
  BY <1>1 DEF Left

LEMMA NothingAddsSteps ==
    ASSUME TypeOK, [Next]_vars, NEW q \in Runs, pc[q] # "idle"
    PROVE  Left(q)' <= Left(q)
<1>0. Left(q) \in Nat
  BY LeftRange
<1>1. ASSUME UNCHANGED <<pc, attempt>> PROVE Left(q)' <= Left(q)
  BY <1>0, <1>1 DEF Left
<1>2. ASSUME NEW r \in Runs, BeginSome(r) \/ RunStep(r) \/ StorageFault(r)
      PROVE  Left(q)' <= Left(q)
  <2>1. CASE q # r
    BY <1>0, <1>2, <2>1, OthersCount
  <2>2. CASE q = r /\ BeginSome(r)
    BY <2>2 DEF BeginSome, BeginEmpty, BeginSingle, BeginMany, Begin
  <2>3. CASE q = r /\ RunStep(r)
    <3>1. Left(q)' < Left(q) /\ TypeOK'
      BY <2>3, StepCounts, TypePreserved
    <3>2. (TypeOK => LeftBounded)'
      BY LeftIsBounded, PTL
    <3> QED
      BY <1>0, <3>1, <3>2, <2>3 DEF LeftBounded
  <2>4. CASE q = r /\ StorageFault(r)
    <3>1. pc[r] \in {"save", "audit"} /\ Goto(r, "fail")
      BY <2>4 DEF StorageFault, Running
    <3>2. Left(r)' < Left(r) /\ TypeOK'
      BY <3>1, MoveCounts, TypePreserved DEF Ahead, Steps
    <3>3. (TypeOK => LeftBounded)'
      BY LeftIsBounded, PTL
    <3> QED
      BY <1>0, <2>4, <3>2, <3>3 DEF LeftBounded
  <2> QED
    BY <1>2, <2>1, <2>2, <2>3, <2>4
<1>3. CASE Crash
  <2>1. Left(q)' = 0
    BY <1>3 DEF Crash, Left, Ahead
  <2> QED
    BY <1>0, <2>1
<1>4. CASE \E g \in Garments : Edited(g)
  BY <1>1, <1>4, EditFacts
<1>5. CASE Boot \/ UNCHANGED vars
  BY <1>1, <1>5 DEF Boot, vars, local
<1> QED
  BY <1>2, <1>3, <1>4, <1>5 DEF Next, BeginSome, Edited

(* Whatever it overlaps with, a run takes MaxRetries + 6 steps of its own  *)
(* at most: each of them brings its end nearer, nothing puts it off, and   *)
(* the process goes on taking them as long as it is up.                    *)
THEOREM RunsAreFinite == Spec => RunsWindDown
<1>1. TypeOK /\ [Next]_vars =>
         [\A r \in Runs : /\ RunStep(r) => Left(r)' < Left(r)
                          /\ pc[r] # "idle" => Left(r)' <= Left(r)]_vars
  BY StepCounts, NothingAddsSteps
<1> QED
  BY <1>1, LeftIsBounded, TypeCorrect, PTL DEF Spec, RunsWindDown
=============================================================================
