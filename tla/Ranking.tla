------------------------------ MODULE Ranking ------------------------------
(* What the wardrobe's rows (Outfits) and a push (DailyOutfit) agree on.   *)
EXTENDS Integers, FiniteSets

(* As many of S as a cap or a LIMIT of n admits; which of them is left open. *)
UpTo(S, n) ==
    {T \in SUBSET S : Cardinality(T) = IF Cardinality(S) <= n THEN Cardinality(S) ELSE n}

(* The share of the points that goes by how much of an outfit is worn. *)
WornShare(points, outfit, worn) ==
    (points * Cardinality(outfit \cap worn)) \div Cardinality(outfit)
=============================================================================
