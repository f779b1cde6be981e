------------------------------ MODULE MCInbox ------------------------------
(* Small instances of Inbox for TLC. *)
EXTENDS Inbox, TLC

CONSTANTS shot, order, junk, broken

(* A screenshot, an email with a picture and a text-only line, an email of *)
(* an unknown retailer and, last in FIFO order, one parse_eml chokes on.   *)
MCFiles == {shot, order, junk, broken}
MCScreenshots == {shot}
MCEntries == (shot :> <<"image">>) @@ (order :> <<"image", "text">>)
             @@ (junk :> <<"text">>) @@ (broken :> <<"text">>)
MCRank == (shot :> 1) @@ (order :> 2) @@ (junk :> 2) @@ (broken :> 3)

(* The malformed email is the oldest file. *)
MCPoisonFiles == {shot, order, broken}
MCPoisonRank == (broken :> 1) @@ (shot :> 2) @@ (order :> 3)
MCPoisonEntries == [f \in MCPoisonFiles |-> MCEntries[f]]
=============================================================================
