------------------------- MODULE MigrationsContract -------------------------
(***************************************************************************)
(* What the migration runners promise together, as one counter: the        *)
(* database stands at a statement of a version, moves one statement at a   *)
(* time and never back, whoever moves it, and is served only by an image   *)
(* whose last version is the one it stands at.                             *)
(***************************************************************************)
EXTENDS Naturals

CONSTANTS
    Procs,   \* the processes that open the database
    Latest,  \* the highest version there will be
    Size     \* the number of statements of each version

VARIABLES
    release,  \* the highest version of the image
    version,  \* the highest version recorded: all up to it are
    line,     \* the statements of the next version in effect: the first ones
    serving   \* the processes past run_migrations()

vars == <<release, version, line, serving>>

Init == release = 1 /\ version = 0 /\ line = 0 /\ serving = {}

(* An image applies versions of its own, one after the other. *)
Execute ==
    /\ version < release
    /\ line < Size[version + 1]
    /\ line' = line + 1
    /\ UNCHANGED <<release, version, serving>>

(* The version is whole; who records the last one goes on to serve. *)
Record(p) ==
    /\ version < release
    /\ line = Size[version + 1]
    /\ version' = version + 1 /\ line' = 0
    /\ serving' = IF version' = release THEN serving \cup {p} ELSE serving
    /\ UNCHANGED release

Serve(p) ==
    /\ version = release
    /\ serving' = serving \cup {p}
    /\ UNCHANGED <<release, version, line>>

Leave(p) ==
    /\ serving' = serving \ {p}
    /\ UNCHANGED <<release, version, line>>

(* Any image, newer or older, but never under a process that serves. *)
Deploy(r) ==
    /\ serving = {}
    /\ release' = r
    /\ UNCHANGED <<version, line, serving>>

Next ==
    \/ Execute
    \/ \E p \in Procs : Record(p) \/ Serve(p) \/ Leave(p)
    \/ \E r \in 1..Latest : Deploy(r)

Spec == Init /\ [][Next]_vars
=============================================================================
