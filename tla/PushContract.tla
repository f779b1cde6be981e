---------------------------- MODULE PushContract ----------------------------
(***************************************************************************)
(* What the daily push promises, without saying how it ranks, renders or   *)
(* waits: a run records at most one outfit, of items that were all in the  *)
(* wardrobe when it began and still exist, shows it only once that is      *)
(* certified, and says of itself only what is on record.                   *)
(***************************************************************************)
EXTENDS Naturals, Sequences

CONSTANTS
    Runs,      \* the scheduled job and the commands
    Manual,    \* those that answer a command
    Garments,  \* the wardrobe items there may ever be
    Owned,     \* those in the wardrobe already
    Combos     \* the outfits that may be made of each part of them

VARIABLES
    garment,  \* each item, absent, active or forgotten
    outfits,  \* the outfits recorded, oldest first
    shipped,  \* those certified by an audit row
    shown,    \* those the channel was shown
    busy,     \* the runs in progress
    offer,    \* the outfits each run may still record
    saved,    \* the outfit each run recorded, 0 if none
    answer    \* what each command was answered

vars == <<garment, outfits, shipped, shown, busy, offer, saved, answer>>

Wearable == Combos[{g \in Garments : garment[g] = "active"}]

Init ==
    /\ garment = [g \in Garments |-> IF g \in Owned THEN "active" ELSE "absent"]
    /\ outfits = <<>> /\ shipped = {} /\ shown = {}
    /\ busy = {}
    /\ offer = [r \in Runs |-> {}]
    /\ saved = [r \in Runs |-> 0]
    /\ answer = [r \in Runs |-> "unasked"]

(* The operator adds an item, or forgets it for good. *)
Change(g, before, after) ==
    /\ garment[g] = before
    /\ garment' = [garment EXCEPT ![g] = after]
    /\ UNCHANGED <<outfits, shipped, shown, busy, offer, saved, answer>>

(* What is on record keeps its names. *)
Rename(g, h) ==
    /\ garment[g] = "active" /\ garment[h] = "absent"
    /\ \A i \in DOMAIN outfits : g \notin outfits[i]
    /\ garment' = [garment EXCEPT ![g] = "absent", ![h] = "active"]
    /\ UNCHANGED <<outfits, shipped, shown, busy, offer, saved, answer>>

(* A run begins with some of the outfits that can be worn now. *)
Ask(r) ==
    /\ r \notin busy /\ busy' = busy \cup {r}
    /\ \E choice \in SUBSET Wearable : offer' = [offer EXCEPT ![r] = choice]
    /\ saved' = [saved EXCEPT ![r] = 0]
    /\ answer' = [answer EXCEPT ![r] = IF r \in Manual THEN "waiting" ELSE "unasked"]
    /\ UNCHANGED <<garment, outfits, shipped, shown>>

(* Once: there is nothing left on offer then. *)
Record(r) ==
    /\ r \in busy
    /\ \E c \in offer[r] :
          /\ \A g \in c : garment[g] # "absent"
          /\ outfits' = Append(outfits, c)
    /\ saved' = [saved EXCEPT ![r] = Len(outfits) + 1]
    /\ offer' = [offer EXCEPT ![r] = {}]
    /\ UNCHANGED <<garment, shipped, shown, busy, answer>>

(* Once as well. *)
Certify(r) ==
    /\ r \in busy /\ saved[r] \in DOMAIN outfits \ shipped
    /\ shipped' = shipped \cup {saved[r]}
    /\ UNCHANGED <<garment, outfits, shown, busy, offer, saved, answer>>

Show(r) ==
    /\ r \in busy /\ saved[r] \in shipped
    /\ shown' = shown \cup {saved[r]}
    /\ UNCHANGED <<garment, outfits, shipped, busy, offer, saved, answer>>

(* What a run may say of itself: it "failed" only if nothing is certified. *)
IsTrue(r, what) ==
    CASE what = "posted"  -> saved[r] \in shipped
      [] what = "nothing" -> saved[r] = 0
      [] what = "failed"  -> saved[r] \notin shipped

Close(r) ==
    /\ r \in busy /\ busy' = busy \ {r}
    /\ offer' = [offer EXCEPT ![r] = {}]
    /\ IF r \in Manual
         THEN \E what \in {"posted", "nothing", "failed"} :
                  IsTrue(r, what) /\ answer' = [answer EXCEPT ![r] = what]
         ELSE answer' = answer
    /\ UNCHANGED <<garment, outfits, shipped, shown, saved>>

(* Runs may be cut off together, as they stand; their commands get no answer. *)
CutOff ==
    /\ busy' = {}
    /\ offer' = [r \in Runs |-> {}]
    /\ UNCHANGED <<garment, outfits, shipped, shown, saved, answer>>

Next ==
    \/ \E g \in Garments : Change(g, "absent", "active") \/ Change(g, "active", "forgotten")
    \/ \E g, h \in Garments : Rename(g, h)
    \/ \E r \in Runs : Ask(r) \/ Record(r) \/ Certify(r) \/ Show(r) \/ Close(r)
    \/ CutOff

Spec == Init /\ [][Next]_vars
=============================================================================
