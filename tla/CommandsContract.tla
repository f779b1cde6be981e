--------------------------- MODULE CommandsContract ---------------------------
(***************************************************************************)
(* What the slash commands and the bootstrap script promise, without the   *)
(* event loop and the transactions: each command takes effect at one       *)
(* instant between its start and its end, on the wardrobe and the profile  *)
(* as they are at that instant, or not at all; the log follows the effect  *)
(* and the answer tells which of the two it was.                           *)
(***************************************************************************)
CONSTANTS
    Attempts,       \* the commands there may be
    Tasks, Wish,    \* what they are for
    Operator,       \* who may change anything
    Ids,            \* of the items there may ever be
    Wardrobe,       \* those in the wardrobe already
    Worn,           \* those an outfit refers to, which keep their id
    Matching,       \* what each name fits
    Fields, Unset,  \* the profile
    NoTask

VARIABLES
    rows,     \* each item, free, active or hidden
    profile,
    audit,    \* the commands logged
    task,     \* what each command is for
    stage     \* "idle", "open", "done" (its effect is there), "yes", "no" or "lost"

vars == <<rows, profile, audit, task, stage>>

Init ==
    /\ rows = [i \in Ids |-> IF i \in Wardrobe THEN "active" ELSE "free"]
    /\ profile = [f \in Fields |-> Unset]
    /\ audit = {}
    /\ task = [a \in Attempts |-> NoTask]
    /\ stage = [a \in Attempts |-> "idle"]

Allowed(t) == Wish[t].kind # "bootstrap" => Wish[t].by = Operator

Issue(a, t) ==
    /\ stage[a] = "idle"
    /\ stage' = [stage EXCEPT ![a] = "open"]
    /\ task' = [task EXCEPT ![a] = t]
    /\ UNCHANGED <<rows, profile, audit>>

(* An item nobody had before. *)
Add(t) ==
    /\ Wish[t].kind = "add"
    /\ \E i \in Ids : rows[i] = "free" /\ rows' = [rows EXCEPT ![i] = "active"]
    /\ UNCHANGED profile

(* The item i is the only one that can be meant. *)
Fits(t, i) == \A j \in Ids : rows[j] = "active" /\ j \in Matching[Wish[t].name] <=> j = i

Hide(i) == rows' = [rows EXCEPT ![i] = "hidden"]

(* Under an id nobody else has. *)
Rename(i, new) ==
    /\ i = new \/ (rows[new] = "free" /\ i \notin Worn)
    /\ rows' = [rows EXCEPT ![i] = "free", ![new] = "active"]

Edit(t) ==
    /\ Wish[t].kind = "edit" /\ Wish[t].quality = "good"
    /\ \E i \in Ids :
          /\ Fits(t, i)
          /\ \/ Wish[t].field = "id" /\ Rename(i, Wish[t].newId)
             \/ Wish[t].field = "deleted_at" /\ Hide(i)
             \/ Wish[t].field = "text" /\ UNCHANGED rows
    /\ UNCHANGED profile

Forget(t) ==
    /\ Wish[t].kind = "forget"
    /\ \E i \in Ids : Fits(t, i) /\ Hide(i)
    /\ UNCHANGED profile

(* All fields at once. *)
SetProfile(t) ==
    /\ Wish[t].kind \in {"set", "bootstrap"} /\ Wish[t].quality = "good"
    /\ profile' = [f \in Fields |-> IF Wish[t].writes[f] = Unset THEN profile[f]
                                    ELSE Wish[t].writes[f]]
    /\ UNCHANGED rows

Effect(t) == Allowed(t) /\ (Add(t) \/ Edit(t) \/ Forget(t) \/ SetProfile(t))

Perform(a) ==
    /\ stage[a] = "open" /\ Effect(task[a])
    /\ stage' = [stage EXCEPT ![a] = "done"]
    /\ UNCHANGED <<audit, task>>

(* Effects are logged, and so are attempts nobody was allowed to make. *)
Log(a) ==
    /\ a \notin audit
    /\ stage[a] = "done" \/ (stage[a] = "open" /\ ~Allowed(task[a]))
    /\ audit' = audit \cup {a}
    /\ UNCHANGED <<rows, profile, task, stage>>

(* A bootstrap file in which no field is set. *)
Blank(t) == Wish[t].kind = "bootstrap" /\ \A f \in Fields : Wish[t].writes[f] = Unset

(* What changes nothing succeeds without an effect and without a log.  *)
Succeeded(a) ==
    \/ stage[a] = "done" /\ a \in audit
    \/ /\ stage[a] = "open" /\ (Wish[task[a]].kind = "list" \/ Blank(task[a]))
       /\ Allowed(task[a]) /\ Wish[task[a]].quality # "bad"

Refused(a) == stage[a] = "open" /\ (a \in audit <=> ~Allowed(task[a]))

Answer(a) ==
    /\ \/ Succeeded(a) /\ stage' = [stage EXCEPT ![a] = "yes"]
       \/ Refused(a) /\ stage' = [stage EXCEPT ![a] = "no"]
    /\ UNCHANGED <<rows, profile, audit, task>>

(* Commands may be cut off together, their effects standing or not made at all. *)
Lose(S) ==
    /\ \A a \in S : stage[a] \in {"open", "done"}
    /\ stage' = [a \in Attempts |-> IF a \in S THEN "lost" ELSE stage[a]]
    /\ UNCHANGED <<rows, profile, audit, task>>

Next ==
    \/ \E a \in Attempts, t \in Tasks : Issue(a, t)
    \/ \E a \in Attempts : Perform(a) \/ Log(a) \/ Answer(a)
    \/ \E S \in SUBSET Attempts : Lose(S)

Spec == Init /\ [][Next]_vars
===============================================================================
