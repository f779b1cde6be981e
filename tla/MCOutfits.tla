----------------------------- MODULE MCOutfits -----------------------------
(* A wardrobe with two tops and a coat for the cold months, one with a     *)
(* second dress, and one where everything is expensive, clashes and counts *)
(* against its outfits; a cap that cuts the candidates off.                *)
EXTENDS Outfits

CONSTANTS navy, red, none

MCIds == 1..7
(* 13 is the short id of 3. *)
MCTexts == MCIds \cup {13}
MCColors == {navy, red}

Plain(c) == [category |-> c, color_primary |-> navy, formality |-> 1, seasons |-> {},
             price |-> 0, pairs_well_with |-> {}, avoid_pairing_with |-> {}]

PlainCloset == [i \in MCIds |-> Plain(
    CASE i \in {1, 2} -> "tops" [] i = 3 -> "bottoms" [] i = 4 -> "footwear"
      [] i = 5 -> "dresses" [] i = 6 -> "outerwear" [] i = 7 -> "footwear")]

WarmCloset ==
    [PlainCloset EXCEPT ![6].seasons = {"winter"}, ![2].seasons = {"spring", "summer"},
                        ![7] = Plain("dresses")]

WornCloset ==
    [PlainCloset EXCEPT ![1].avoid_pairing_with = {3}, ![3].avoid_pairing_with = {1},
                        ![4].avoid_pairing_with = {6}, ![6].avoid_pairing_with = {4},
                        ![3].pairs_well_with = {4}, ![4].pairs_well_with = {3},
                        ![1].price = 60, ![3].price = 60, ![4].formality = 4,
                        ![6].formality = Unknown, ![6].color_primary = red]

Start(closet0, rows0) ==
    [closet |-> closet0, rows |-> rows0, worn |-> {}, favorite |-> {navy}, disliked |-> {},
     budget |-> NoBudget]

MCStarts == {
    Start(PlainCloset, <<6, 5, 4, 3, 2, 1>>),
    Start(WarmCloset, <<1, 2, 7, 3, 4, 5, 6>>),
    [closet |-> WornCloset, rows |-> <<7, 6, 4, 3, 1>>, worn |-> {1, 3, 4, 6},
     favorite |-> {}, disliked |-> MCColors, budget |-> 30]}

MCLists == {{}, {3}, {1, 4}, {5, 6, 7}, {13}}
MCSeasonLists == {{}, {"winter"}, {"spring", "summer", "fall"}}
MCPrices == {-5, 0, 40, 200}
MCBudgets == {NoBudget, 30, 100}
=============================================================================
