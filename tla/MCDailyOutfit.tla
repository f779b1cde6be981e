--------------------------- MODULE MCDailyOutfit ---------------------------
(* Two dresses and a shirt, shoes and trousers left out; the scheduled job *)
(* and one /run_outfit command.                                            *)
EXTENDS DailyOutfit

CONSTANTS cron, command, dress, gown, shirt

MCRuns == {cron, command}
MCManual == {command}
MCGarments == {dress, gown, shirt}
MCOwned == {gown, shirt}
MCCombos == [A \in SUBSET MCGarments |-> {{g} : g \in A}]

(* Worn recently, the gown ranks below the dress and above the shirt. *)
MCBase == [c \in (SUBSET MCGarments) \ {{}} |->
    IF gown \in c THEN 40 ELSE IF dress \in c THEN 30 ELSE 18]
=============================================================================
