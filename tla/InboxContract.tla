--------------------------- MODULE InboxContract ---------------------------
(***************************************************************************)
(* What the drop folder promises its operator, without saying how: an      *)
(* entry of a file reaches the wardrobe at least once while the file is    *)
(* pending, every failure is reported, and a file is filed away as done    *)
(* only when each of its entries was recorded or reported.                 *)
(***************************************************************************)
EXTENDS Naturals, Sequences

CONSTANTS
    Files,    \* the files an operator may drop into the inbox
    Entries   \* the products each of them holds, as a sequence

VARIABLES
    status,    \* where each file stands
    recorded,  \* the entries with a wardrobe row
    reported   \* the entries whose failure is in the audit log

vars == <<status, recorded, reported>>

Slots == UNION {{f} \X DOMAIN Entries[f] : f \in Files}
SlotsOf(f) == {f} \X DOMAIN Entries[f]

Init ==
    /\ status = [f \in Files |-> "absent"]
    /\ recorded = {}
    /\ reported = {}

(* A file becomes pending once, and only from outside. *)
Arrive(f) ==
    /\ status[f] = "absent"
    /\ status' = [status EXCEPT ![f] = "pending"]
    /\ UNCHANGED <<recorded, reported>>

(* The operator takes a pending file back. *)
TakeBack(f) ==
    /\ status[f] = "pending"
    /\ status' = [status EXCEPT ![f] = "taken"]
    /\ UNCHANGED <<recorded, reported>>

(* At least once: recording again what is recorded is allowed, after the *)
(* file is filed away it is not.                                         *)
Record(f, s) ==
    /\ s \in SlotsOf(f)
    /\ status[f] \in {"pending", "taken"}
    /\ recorded' = recorded \cup {s}
    /\ UNCHANGED <<status, reported>>

(* A failure is reported while the file is handled or just after it was *)
(* quarantined, never for a file that is done.                          *)
Report(f, s) ==
    /\ s \in SlotsOf(f)
    /\ status[f] \in {"pending", "taken", "quarantined"}
    /\ reported' = reported \cup {s}
    /\ UNCHANGED <<status, recorded>>

Complete(f) ==
    /\ status[f] = "pending"
    /\ SlotsOf(f) \subseteq recorded \cup reported
    /\ status' = [status EXCEPT ![f] = "done"]
    /\ UNCHANGED <<recorded, reported>>

Quarantine(f) ==
    /\ status[f] = "pending"
    /\ status' = [status EXCEPT ![f] = "quarantined"]
    /\ UNCHANGED <<recorded, reported>>

Next ==
    \E f \in Files :
        \/ Arrive(f) \/ TakeBack(f) \/ Complete(f) \/ Quarantine(f)
        \/ \E s \in SlotsOf(f) : Record(f, s) \/ Report(f, s)

Spec == Init /\ [][Next]_vars
=============================================================================
