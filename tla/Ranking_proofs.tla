--------------------------- MODULE Ranking_proofs ---------------------------
(***************************************************************************)
(* DailyOutfit ranks sets of items and knows the outfits of a wardrobe as a *)
(* constant; here these are the outfits that Outfits makes of the rows.    *)
(* An outfit is known by its items, since an item has one role, and with   *)
(* that the candidates and the duplicate penalty of either module are      *)
(* those of the other, for any wardrobe, history and cap.                  *)
(***************************************************************************)
EXTENDS Candidates_proofs, Ranking

ItemsOf(o) == {o[r] : r \in DOMAIN o}

(* What DailyOutfit takes for granted of its constant Combos at the items  *)
(* that are active, of its Candidates, an UpTo of them, and of its         *)
(* DuplicatePenalty, here in 48ths of a point.                             *)
OutfitsAreItemSets == {ItemsOf(o) : o \in Outfits} \subseteq (SUBSET Active) \ {{}}

CandidatesAreUpTo ==
    LET c == generate_candidates
    IN  {ItemsOf(c[k]) : k \in DOMAIN c} \in UpTo({ItemsOf(o) : o \in Outfits}, MaxCandidates)

PenaltyOfItems ==
    \A o \in Outfits :
        duplicate_penalty(o) = WornShare(25 * 48, ItemsOf(o), worn)

RankedAsSets == OutfitsAreItemSets /\ CandidatesAreUpTo /\ PenaltyOfItems

----------------------------------------------------------------------------
(* An outfit and its items.                                                 *)

LEMMA InItsRole ==
    ASSUME Typed, NEW o \in Outfits
    PROVE  /\ o \in [DOMAIN o -> Active]
           /\ \A r \in DOMAIN o : RoleOf[closet[o[r]].category] = r
<1>1. CASE o \in DressOutfits
  <2>1. PICK d \in For("dress"), f \in For("footwear") : o = [dress |-> d, footwear |-> f]
    BY <1>1 DEF DressOutfits
  <2> QED
    BY <2>1 DEF For, Wearable
<1>2. CASE o \in PieceOutfits /\ For("outer") = {}
  <2>1. PICK t \in For("top"), b \in For("bottom"), f \in For("footwear") :
           o = [top |-> t, bottom |-> b, footwear |-> f]
    BY <1>2 DEF PieceOutfits
  <2> QED
    BY <2>1 DEF For, Wearable
<1>3. CASE o \in PieceOutfits /\ For("outer") # {}
  <2>1. PICK t \in For("top"), b \in For("bottom"), f \in For("footwear"),
             c \in For("outer") : o = [top |-> t, bottom |-> b, footwear |-> f, outer |-> c]
    BY <1>3 DEF PieceOutfits
  <2> QED
    BY <2>1 DEF For, Wearable
<1> QED
  BY <1>1, <1>2, <1>3 DEF Outfits

\* No two outfits have the same items.
LEMMA KnownByItems ==
    ASSUME Typed, NEW o \in Outfits, NEW p \in Outfits, ItemsOf(o) = ItemsOf(p)
    PROVE  o = p
<1>1. ASSUME NEW r \in DOMAIN o PROVE r \in DOMAIN p /\ o[r] = p[r]
  <2>1. PICK s \in DOMAIN p : p[s] = o[r]
    BY DEF ItemsOf
  <2>2. r = s
    BY <2>1, InItsRole
  <2> QED
    BY <2>1, <2>2
<1>2. ASSUME NEW r \in DOMAIN p PROVE r \in DOMAIN o
  <2>1. PICK s \in DOMAIN o : o[s] = p[r]
    BY DEF ItemsOf
  <2>2. r = s
    BY <2>1, InItsRole
  <2> QED
    BY <2>1, <2>2
<1>3. DOMAIN o = DOMAIN p
  BY <1>1, <1>2
<1>4. o \in [DOMAIN o -> Active] /\ p \in [DOMAIN o -> Active]
  BY <1>3, InItsRole
<1> QED
  BY <1>1, <1>4

LEMMA ItemSets == Typed => OutfitsAreItemSets
<1> SUFFICES ASSUME Typed, NEW o \in Outfits
             PROVE  ItemsOf(o) \in (SUBSET Active) \ {{}}
  BY DEF OutfitsAreItemSets
<1>1. \A r \in DOMAIN o : o[r] \in Active
  BY InItsRole
<1>2. "footwear" \in DOMAIN o
  BY Shape
<1> QED
  BY <1>1, <1>2 DEF ItemsOf

----------------------------------------------------------------------------
(* Counting.                                                                *)

\* A function that maps no two elements to one has as many values as elements.
LEMMA ImageSize ==
    ASSUME NEW S, IsFiniteSet(S), NEW f, \A x, y \in S : f[x] = f[y] => x = y
    PROVE  /\ IsFiniteSet({f[x] : x \in S})
           /\ Cardinality({f[x] : x \in S}) = Cardinality(S)
<1> DEFINE T == {f[x] : x \in S}
           g == [x \in S |-> f[x]]
<1>1. g \in [S -> T] /\ (\A x \in S : g[x] = f[x]) /\ (\A y \in T : \E x \in S : y = f[x])
  OBVIOUS
<1> HIDE DEF g, T
<1>3. g \in Bijection(S, T)
  <2>1. \A x, y \in S : g[x] = g[y] => x = y
    BY <1>1
  <2>2. \A y \in T : \E x \in S : g[x] = y
    BY <1>1
  <2> QED
    BY <1>1, <2>1, <2>2 DEF Bijection, Injection, Surjection, IsInjective
<1>2. ExistsBijection(S, T)
  BY <1>3 DEF ExistsBijection
<1> QED
  BY <1>2, FS_Bijection DEF T

LEMMA ItemCounts ==
    ASSUME Typed, NEW o \in Outfits
    PROVE  /\ Cardinality(ItemsOf(o)) = Size(o)
           /\ Cardinality(ItemsOf(o) \cap worn) = Count(o, IsWorn)
<1>1. \A q, r \in DOMAIN o : o[q] = o[r] => q = r
  BY InItsRole
<1>2. IsFiniteSet(DOMAIN o)
  BY Sizes
<1>3. Cardinality(ItemsOf(o)) = Size(o)
  BY <1>1, <1>2, ImageSize DEF ItemsOf, Size
<1>4. PICK R \in SUBSET DOMAIN o : R = {r \in DOMAIN o : o[r] \in worn}
  OBVIOUS
<1>5. ItemsOf(o) \cap worn = {o[r] : r \in R}
  BY <1>4 DEF ItemsOf
<1>6. IsFiniteSet(R) /\ \A q, r \in R : o[q] = o[r] => q = r
  BY <1>1, <1>2, FS_Subset
<1>7. Cardinality({o[r] : r \in R}) = Cardinality(R)
  BY <1>6, ImageSize
<1>8. Count(o, IsWorn) = Cardinality(R)
  BY <1>4 DEF Count, IsWorn
<1> QED
  BY <1>3, <1>5, <1>7, <1>8

LEMMA SamePenalty == Typed => PenaltyOfItems
<1> SUFFICES ASSUME Typed, NEW o \in Outfits
             PROVE  duplicate_penalty(o) = WornShare(25 * 48, ItemsOf(o), worn)
  BY DEF PenaltyOfItems
<1>1. PICK k \in Nat : k = Count(o, IsWorn)
  <2>1. IsFiniteSet({r \in DOMAIN o : IsWorn(o[r])})
    BY Sizes, FS_Subset
  <2> QED
    BY <2>1, FS_CardinalityType DEF Count
<1>2. PICK n \in {2, 3, 4} : n = Size(o)
  BY Sizes
<1>3. 25 * 4 * (12 \div n) * k = (25 * 48 * k) \div n
  <2>1. CASE n = 2
    BY <2>1
  <2>2. CASE n = 3
    BY <2>2
  <2>3. CASE n = 4
    BY <2>3
  <2> QED
    BY <2>1, <2>2, <2>3
<1>4. duplicate_penalty(o) = 25 * 4 * (12 \div n) * k
  BY <1>1, <1>2 DEF duplicate_penalty, Share
<1> QED
  BY <1>1, <1>2, <1>3, <1>4, ItemCounts DEF WornShare

----------------------------------------------------------------------------
(* The cap.                                                                 *)

\* A listing in a strict order lists nothing twice.
LEMMA ListedOnce ==
    ASSUME NEW q, NEW S, NEW B, Listing(q, S, B), \A x \in S : <<x, x>> \notin B
    PROVE  \E n \in Nat : /\ n = Len(q) /\ DOMAIN q = 1..n
                          /\ S = {q[k] : k \in 1..n}
                          /\ \A j, k \in 1..n : q[j] = q[k] => j = k
<1>1. PICK n \in Nat : n = Len(q) /\ DOMAIN q = 1..n /\ \A k \in 1..n : q[k] \in S
  BY DEF Listing
<1>2. S = {q[k] : k \in 1..n}
  BY <1>1 DEF Listing
<1>3. ASSUME NEW j \in 1..n, NEW k \in 1..n, q[j] = q[k] PROVE j = k
  <2>1. ~(j < k) /\ ~(k < j)
    BY <1>1, <1>3 DEF Listing
  <2> QED
    BY <2>1
<1> QED
  BY <1>1, <1>2, <1>3

LEMMA CappedCandidates ==
    ASSUME Typed, Distinct
    PROVE  CandidatesAreUpTo
<1> DEFINE c == generate_candidates
           q == DressCombos \o PieceCombos
           found == {ItemsOf(c[k]) : k \in DOMAIN c}
           all == {ItemsOf(o) : o \in Outfits}
<1>1. Listing(q, Outfits, Before) /\ \A o \in Outfits : <<o, o>> \notin Before
  BY ComboListing, OneWay DEF Before
<1>2. PICK n \in Nat : /\ n = Len(q) /\ DOMAIN q = 1..n
                       /\ Outfits = {q[k] : k \in 1..n}
                       /\ \A j, k \in 1..n : q[j] = q[k] => j = k
  BY <1>1, ListedOnce
<1>3. PICK m \in Nat : m = (IF n <= MaxCandidates THEN n ELSE MaxCandidates) /\ m <= n
  BY OutfitsAssumption
<1>4. DOMAIN c = 1..m /\ \A k \in 1..m : c[k] = q[k]
  <2>1. q \in Seq(Outfits) /\ MaxCandidates \in Nat
    BY <1>1, OutfitsAssumption DEF Listing
  <2>2. c = SubSeq(q, 1, IF Len(q) < MaxCandidates THEN Len(q) ELSE MaxCandidates)
    BY DEF generate_candidates
  <2> HIDE DEF c, q
  <2>3. c = SubSeq(q, 1, m)
    BY <1>2, <1>3, <2>1, <2>2
  <2> QED
    BY <1>2, <1>3, <2>1, <2>3
<1> HIDE DEF c, q
<1>5. PICK f \in [1..n -> {ItemsOf(o) : o \in Outfits}] : \A k \in 1..n : f[k] = ItemsOf(q[k])
  <2>1. [k \in 1..n |-> ItemsOf(q[k])] \in [1..n -> {ItemsOf(o) : o \in Outfits}]
    BY <1>2
  <2> QED
    BY <2>1
<1>6. \A j, k \in 1..n : f[j] = f[k] => j = k
  <2> TAKE j \in 1..n, k \in 1..n
  <2> HAVE f[j] = f[k]
  <2>1. q[j] \in Outfits /\ q[k] \in Outfits /\ ItemsOf(q[j]) = ItemsOf(q[k])
    BY <1>2, <1>5
  <2>2. q[j] = q[k]
    BY <2>1, KnownByItems
  <2> QED
    BY <1>2, <2>2
<1>7. all = {f[k] : k \in 1..n}
  BY <1>2, <1>5
<1>8. found = {f[k] : k \in 1..m}
  BY <1>3, <1>4, <1>5
<1>9. /\ IsFiniteSet(1..n) /\ Cardinality(1..n) = n
      /\ IsFiniteSet(1..m) /\ Cardinality(1..m) = m
  BY FS_Interval
<1> HIDE DEF all, found
<1>10. Cardinality(all) = n
  <2>1. Cardinality({f[k] : k \in 1..n}) = Cardinality(1..n)
    BY <1>6, <1>9, ImageSize
  <2> QED
    BY <1>7, <1>9, <2>1
<1>11. Cardinality(found) = m
  <2>1. \A j, k \in 1..m : f[j] = f[k] => j = k
    BY <1>3, <1>6
  <2>2. Cardinality({f[k] : k \in 1..m}) = Cardinality(1..m)
    BY <1>9, <2>1, ImageSize
  <2> QED
    BY <1>8, <1>9, <2>2
<1>12. found \subseteq all
  BY <1>3, <1>7, <1>8
<1> QED
  BY <1>3, <1>10, <1>11, <1>12 DEF CandidatesAreUpTo, UpTo, all, found, c

----------------------------------------------------------------------------
(* In every state that the edits of the wardrobe, the profile, the season  *)
(* and the history lead to, the outfits are nonempty sets of active items, *)
(* the candidates are as many of them as the cap admits, and what an       *)
(* outfit loses for its worn items is a matter of those items alone: what  *)
(* DailyOutfit assumes of Combos, Candidates and DuplicatePenalty.         *)
THEOREM RankingSeesItemSets == Spec => []RankedAsSets
<1>1. Init => Typed /\ Distinct
  BY InitTyped, OutfitsAssumption DEF Init, Distinct
<1>2. Typed /\ Distinct /\ [Next]_vars => (Typed /\ Distinct)'
  BY TypePreserved, DistinctPreserved
<1>3. Typed /\ Distinct => RankedAsSets
  BY ItemSets, CappedCandidates, SamePenalty DEF RankedAsSets
<1> QED
  BY <1>1, <1>2, <1>3, PTL DEF Spec

(* Combos is a function of the wardrobe: another order of the same rows    *)
(* and another history make the same outfits.                              *)
LEMMA OutfitsOfTheWardrobe ==
    ASSUME Active' = Active, UNCHANGED <<closet, derive_season>>
    PROVE  Outfits' = Outfits
<1>1. \A role : For(role)' = For(role)
  BY DEF For, Wearable, MatchesSeason
<1> QED
  BY <1>1 DEF Outfits, DressOutfits, PieceOutfits
=============================================================================
