----------------------------- MODULE Migrations -----------------------------
(***************************************************************************)
(* The migration runner (db/migrate.py), which every process that opens    *)
(* the database runs first: the bot at each start of its container, and    *)
(* the bootstrap_profile script when the operator executes it.  Each       *)
(* statement of a migration commits on its own (executescript on a         *)
(* connection in autocommit), the version is recorded in a transaction     *)
(* after the last, and the processes share nothing but the database.       *)
(***************************************************************************)
EXTENDS Naturals

CONSTANTS
    Procs,      \* the processes
    Bot,        \* the one the container restarts, and that goes on to serve
    Latest,     \* the highest version there will be
    Size,       \* the number of statements of each version
    MaxFaults   \* bound on the crashes of a behaviour

ASSUME MigrationsAssumption ==
    /\ Bot \in Procs
    /\ Latest \in Nat \ {0}
    /\ Size \in [1..Latest -> Nat \ {0}]
    /\ MaxFaults \in Nat

VARIABLES
    release,   \* the highest version among the files of the image
    schema,    \* durable: the statements that took effect, <<version, number>>
    recorded,  \* durable: the rows of schema_migrations
    pc,        \* the next step of each process
    todo,      \* the pending versions it computed
    line,      \* the statement of the first of these it is at
    faults     \* history: crashes so far

vars == <<release, schema, recorded, pc, todo, line, faults>>

Versions == 1..Latest
Statements == UNION {{v} \X (1..Size[v]) : v \in Versions}
Steps == {"down", "scan", "apply", "record", "up"}

Init ==
    /\ release = 1 /\ schema = {} /\ recorded = {}
    /\ pc = [p \in Procs |-> "down"]
    /\ todo = [p \in Procs |-> {}]
    /\ line = [p \in Procs |-> 1]
    /\ faults = 0

----------------------------------------------------------------------------
(* run_migrations() *)

OnDisk == 1..release
Pending == OnDisk \ recorded

(* The pending versions are applied in ascending order. *)
MutCurrent(p) == CHOOSE v \in todo[p] : \A u \in todo[p] : u <= v
Current(p) == CHOOSE v \in todo[p] : \A u \in todo[p] : v <= u

(* Process p goes on with the versions V, from the first statement. *)
GoOn(p, V) ==
    /\ pc' = [pc EXCEPT ![p] = IF V = {} THEN "up" ELSE "apply"]
    /\ todo' = [todo EXCEPT ![p] = V]
    /\ line' = [line EXCEPT ![p] = 1]

Down(p) ==
    /\ pc' = [pc EXCEPT ![p] = "down"]
    /\ todo' = [todo EXCEPT ![p] = {}]
    /\ line' = [line EXCEPT ![p] = 1]

Start(p) ==
    /\ pc[p] = "down"
    /\ pc' = [pc EXCEPT ![p] = "scan"]
    /\ UNCHANGED <<release, schema, recorded, todo, line, faults>>

(* _discover_migrations, _applied_versions, and the check for missing files. *)
Scan(p) ==
    /\ pc[p] = "scan"
    /\ IF recorded \subseteq OnDisk THEN GoOn(p, Pending) ELSE Down(p)
    /\ UNCHANGED <<release, schema, recorded, faults>>

Executed(p) == <<Current(p), line[p]>> \in schema

MutStatementOneMore(p) ==
    /\ pc[p] = "apply" /\ ~Executed(p)
    /\ schema' = schema \cup {<<Current(p), line[p]>>}
    /\ IF line[p] <= Size[Current(p)]
       THEN line' = [line EXCEPT ![p] = @ + 1] /\ UNCHANGED pc
       ELSE pc' = [pc EXCEPT ![p] = "record"] /\ UNCHANGED line
    /\ UNCHANGED <<release, recorded, todo, faults>>
Statement(p) ==
    /\ pc[p] = "apply" /\ ~Executed(p)
    /\ schema' = schema \cup {<<Current(p), line[p]>>}
    /\ IF line[p] < Size[Current(p)]
       THEN line' = [line EXCEPT ![p] = @ + 1] /\ UNCHANGED pc
       ELSE pc' = [pc EXCEPT ![p] = "record"] /\ UNCHANGED line
    /\ UNCHANGED <<release, recorded, todo, faults>>

(* None of the statements can be repeated (CREATE, INSERT of a key). *)
MutStatementIgnored(p) ==
    /\ pc[p] = "apply" /\ Executed(p)
    /\ pc' = [pc EXCEPT ![p] = "record"]
    /\ UNCHANGED <<release, schema, recorded, todo, line, faults>>
MutStatementIfNotExists(p) ==
    /\ pc[p] = "apply" /\ Executed(p)
    /\ IF line[p] < Size[Current(p)]
       THEN line' = [line EXCEPT ![p] = @ + 1] /\ UNCHANGED pc
       ELSE pc' = [pc EXCEPT ![p] = "record"] /\ UNCHANGED line
    /\ UNCHANGED <<release, schema, recorded, todo, faults>>
StatementRaises(p) ==
    /\ pc[p] = "apply" /\ Executed(p)
    /\ Down(p)
    /\ UNCHANGED <<release, schema, recorded, faults>>

(* The version is the table's key: to insert it twice is an error. *)
MutRecordLost(p) ==
    /\ pc[p] = "record"
    /\ GoOn(p, todo[p] \ {Current(p)})
    /\ UNCHANGED <<release, schema, recorded, faults>>
Record(p) ==
    /\ pc[p] = "record"
    /\ recorded' = recorded \cup {Current(p)}
    /\ IF Current(p) \in recorded THEN Down(p) ELSE GoOn(p, todo[p] \ {Current(p)})
    /\ UNCHANGED <<release, schema, faults>>

(* The script is done; the bot is stopped for the next release. *)
Exit(p) ==
    /\ pc[p] = "up"
    /\ Down(p)
    /\ UNCHANGED <<release, schema, recorded, faults>>

Run(p) == Scan(p) \/ Statement(p) \/ StatementRaises(p) \/ Record(p)

----------------------------------------------------------------------------
(* The operator and the faults. *)

(* Another image, newer or older, while nothing runs. *)
Deploy(r) ==
    /\ \A p \in Procs : pc[p] = "down"
    /\ release' = r
    /\ UNCHANGED <<schema, recorded, pc, todo, line, faults>>

Crash(p) ==
    /\ pc[p] # "down" /\ faults < MaxFaults
    /\ faults' = faults + 1
    /\ Down(p)
    /\ UNCHANGED <<release, schema, recorded>>

Next ==
    \/ \E p \in Procs : Start(p) \/ Run(p) \/ Exit(p) \/ Crash(p)
    \/ \E r \in Versions : Deploy(r)

Spec == Init /\ [][Next]_vars

(* A process that runs runs on; the container restarts the bot. *)
Fairness ==
    /\ \A p \in Procs : WF_vars(Run(p))
    /\ WF_vars(Start(Bot))

FairSpec == Spec /\ Fairness

----------------------------------------------------------------------------
(* Properties. *)

TypeOK ==
    /\ release \in Versions
    /\ schema \subseteq Statements
    /\ recorded \subseteq Versions
    /\ pc \in [Procs -> Steps]
    /\ todo \in [Procs -> SUBSET Versions]
    /\ line \in [Procs -> Nat]
    /\ faults \in Nat

Whole(v) == \A k \in 1..Size[v] : <<v, k>> \in schema
Begun(v) == \E k \in 1..Size[v] : <<v, k>> \in schema

(* A version is recorded only when every statement of it took effect, and  *)
(* a process gets past run_migrations() only when every version of its     *)
(* image is recorded: the bot never serves on a schema that lacks a table. *)
RecordedIsWhole ==
    /\ \A v \in recorded : Whole(v)
    /\ \A p \in Procs : pc[p] = "up" => OnDisk \subseteq recorded

Applying(p) == pc[p] \in {"apply", "record"}
AtTheFirst(p) == pc[p] = "apply" /\ line[p] = 1

(* The first statement of a migration is its lock: of two processes that   *)
(* found it pending, only one gets past it.                                *)
OneApplies ==
    \A p, q \in Procs :
        (p # q /\ Applying(p) /\ Applying(q) /\ Current(p) = Current(q))
            => AtTheFirst(p) \/ AtTheFirst(q)

(* Where the database stands: the versions up to the first component are   *)
(* recorded, and in effect are their statements and as many of the next    *)
(* version as the second says.                                             *)
Positions == {<<Latest, 0>>} \cup UNION {{v - 1} \X (0..Size[v]) : v \in Versions}
StandsAt(q) ==
    /\ recorded = 1..q[1]
    /\ schema = {s \in Statements : s[1] <= q[1] \/ (s[1] = q[1] + 1 /\ s[2] <= q[2])}
Position == CHOOSE q \in Positions : StandsAt(q)

(* Whatever the processes, the images and the crashes, the database looks  *)
(* as if a single runner had gone through the migrations up to some        *)
(* statement, and moves on as MigrationsContract says.                     *)
Contract == INSTANCE MigrationsContract WITH
    version <- Position[1], line <- Position[2],
    serving <- {p \in Procs : pc[p] = "up"}
ImplementsContract ==
    /\ [](\E q \in Positions : StandsAt(q))
    /\ Contract!Spec

(* No statement takes effect before every lower version is recorded, *)
(* whichever processes and images the versions were applied by.      *)
AppliedInOrder ==
    \A v \in Versions : Begun(v) => 1..(v - 1) \subseteq recorded

(* Started again and again by the container, the bot gets to serve, though *)
(* a script may get in its way, unless a crash has cut a migration short   *)
(* or the image is older than the database.                                *)
BotGetsToServe ==
    pc[Bot] = "down" ~> pc[Bot] = "up" \/ faults > 0 \/ ~(recorded \subseteq OnDisk)

(* db/migrate.py:5 says that partial application is impossible: a version  *)
(* that no process is applying is whole or not begun.                      *)
PartialImpossible ==
    \A v \in Versions :
        (\A p \in Procs : v \notin todo[p]) => Whole(v) \/ ~Begun(v)
=============================================================================
