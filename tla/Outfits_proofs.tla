---------------------------- MODULE Outfits_proofs ----------------------------
(***************************************************************************)
(* Theorems about Outfits, for any wardrobe, prices, budgets and edits:    *)
(* the range of every score, its monotony under the edits, and the tiles   *)
(* of the collage.  Types are all the invariant needed; the counts of the  *)
(* scores are cardinalities, compared through inclusion.                   *)
(***************************************************************************)
EXTENDS Outfits, FiniteSetTheorems, TLAPS

----------------------------------------------------------------------------
(* Types.                                                                   *)

Typed ==
    /\ closet \in [Ids -> Item] /\ rows \in Seq(Ids)
    /\ favorite \subseteq Colors /\ disliked \subseteq Colors /\ budget \in Nat

LEMMA InitTyped == Init => Typed
BY OutfitsAssumption DEF Init, Typed

LEMMA RemovedRow ==
    ASSUME NEW S, NEW s \in Seq(S), NEW k \in DOMAIN s
    PROVE  SubSeq(s, 1, k - 1) \o SubSeq(s, k + 1, Len(s)) \in Seq(S)
<1>1. SubSeq(s, 1, k - 1) \in Seq(S)
  OBVIOUS
<1>2. SubSeq(s, k + 1, Len(s)) \in Seq(S)
  OBVIOUS
<1> QED
  BY <1>1, <1>2

LEMMA TypePreserved == Typed /\ [Next]_vars => Typed'
<1> SUFFICES ASSUME Typed, [Next]_vars PROVE Typed'
  OBVIOUS
<1> USE OutfitsAssumption DEF Typed, Edits, profile
<1>1. ASSUME NEW i \in Ids, handle_edit_item(i) PROVE Typed'
  <2>1. closet' \in [Ids -> Item]
    <3>1. ASSUME NEW it \in Item
          PROVE  /\ \A c \in Categories : [it EXCEPT !.category = c] \in Item
                 /\ \A c \in Colors : [it EXCEPT !.color_primary = c] \in Item
                 /\ \A f \in Tiers \cup {Unknown} : [it EXCEPT !.formality = f] \in Item
                 /\ \A l \in SeasonLists : [it EXCEPT !.seasons = l] \in Item
                 /\ \A p \in Prices : [it EXCEPT !.price = p] \in Item
                 /\ \A l \in Lists : [it EXCEPT !.pairs_well_with = l] \in Item
                 /\ \A l \in Lists : [it EXCEPT !.avoid_pairing_with = l] \in Item
      BY DEF Item
    <3>2. PICK it \in Item : closet' = [closet EXCEPT ![i] = it]
      BY <1>1, <3>1 DEF handle_edit_item
    <3> QED
      BY <3>2
  <2> QED
    BY <1>1, <2>1 DEF handle_edit_item
<1>2. ASSUME NEW i \in Ids, AddItem(i) PROVE Typed'
  BY <1>2 DEF AddItem
<1>3. ASSUME NEW i \in Ids, Forget(i) PROVE Typed'
  BY <1>3, RemovedRow DEF Forget
<1>4. ASSUME NEW i \in Ids, Fade(i) PROVE Typed'
  BY <1>4 DEF Fade
<1>5. CASE Push
  BY <1>5 DEF Push
<1>6. CASE EditProfile
  BY <1>6 DEF EditProfile
<1>7. CASE UNCHANGED vars
  BY <1>7 DEF vars
<1> QED
  BY <1>1, <1>2, <1>3, <1>4, <1>5, <1>6, <1>7 DEF Next

LEMMA AlwaysTyped == Spec => []Typed
BY InitTyped, TypePreserved, PTL DEF Spec

----------------------------------------------------------------------------
(* Shapes and counts.                                                       *)


\* An outfit has two, three or four roles, of one path.
LEMMA Shape ==
    ASSUME Typed, NEW o \in Outfits
    PROVE  /\ DOMAIN o \in {{"dress", "footwear"}, {"top", "bottom", "footwear"},
                            {"top", "bottom", "footwear", "outer"}}
           /\ \A r \in DOMAIN o : o[r] \in Ids
<1>1. Active \subseteq Ids
  BY DEF Typed, Active
<1>2. CASE o \in DressOutfits
  <2>1. PICK d \in For("dress"), f \in For("footwear") : o = [dress |-> d, footwear |-> f]
    BY <1>2 DEF DressOutfits
  <2> QED
    BY <2>1, <1>1 DEF For
<1>3. CASE o \in PieceOutfits
  <2>1. CASE For("outer") = {}
    <3>1. PICK t \in For("top"), b \in For("bottom"), f \in For("footwear") :
              o = [top |-> t, bottom |-> b, footwear |-> f]
      BY <1>3, <2>1 DEF PieceOutfits
    <3> QED
      BY <3>1, <1>1 DEF For
  <2>2. CASE For("outer") # {}
    <3>1. PICK t \in For("top"), b \in For("bottom"), f \in For("footwear"),
               c \in For("outer") :
              o = [top |-> t, bottom |-> b, footwear |-> f, outer |-> c]
      BY <1>3, <2>2 DEF PieceOutfits
    <3> QED
      BY <3>1, <1>1 DEF For
  <2> QED
    BY <2>1, <2>2
<1> QED
  BY <1>2, <1>3 DEF Outfits

LEMMA SizeOfPath ==
    ASSUME Typed, NEW o \in Outfits
    PROVE  /\ IsFiniteSet(DOMAIN o)
           /\ DOMAIN o = {"dress", "footwear"} => Size(o) = 2
           /\ DOMAIN o = {"top", "bottom", "footwear"} => Size(o) = 3
           /\ DOMAIN o = {"top", "bottom", "footwear", "outer"} => Size(o) = 4
<1>0. ASSUME NEW S, IsFiniteSet(S), NEW x, x \notin S
      PROVE  IsFiniteSet(S \cup {x}) /\ Cardinality(S \cup {x}) = Cardinality(S) + 1
  BY <1>0, FS_AddElement
<1>1. /\ IsFiniteSet({"dress"}) /\ Cardinality({"dress"}) = 1
      /\ IsFiniteSet({"top"}) /\ Cardinality({"top"}) = 1
  BY FS_Singleton
<1>2. IsFiniteSet({"dress"} \cup {"footwear"}) /\ Cardinality({"dress"} \cup {"footwear"}) = 2
  <2>1. "footwear" \notin {"dress"}
    OBVIOUS
  <2> QED
    BY <1>0, <1>1, <2>1
<1>3. IsFiniteSet({"top"} \cup {"bottom"}) /\ Cardinality({"top"} \cup {"bottom"}) = 2
  <2>1. "bottom" \notin {"top"}
    OBVIOUS
  <2> QED
    BY <1>0, <1>1, <2>1
<1>4. /\ IsFiniteSet({"top"} \cup {"bottom"} \cup {"footwear"})
      /\ Cardinality({"top"} \cup {"bottom"} \cup {"footwear"}) = 3
  <2>1. "footwear" \notin {"top"} \cup {"bottom"}
    OBVIOUS
  <2> QED
    BY <1>0, <1>3, <2>1
<1>5. /\ IsFiniteSet({"top"} \cup {"bottom"} \cup {"footwear"} \cup {"outer"})
      /\ Cardinality({"top"} \cup {"bottom"} \cup {"footwear"} \cup {"outer"}) = 4
  <2>1. "outer" \notin {"top"} \cup {"bottom"} \cup {"footwear"}
    OBVIOUS
  <2> QED
    BY <1>0, <1>4, <2>1
<1>6. /\ {"dress", "footwear"} = {"dress"} \cup {"footwear"}
      /\ {"top", "bottom", "footwear"} = {"top"} \cup {"bottom"} \cup {"footwear"}
      /\ {"top", "bottom", "footwear", "outer"}
            = {"top"} \cup {"bottom"} \cup {"footwear"} \cup {"outer"}
  OBVIOUS
<1> QED
  BY <1>2, <1>4, <1>5, <1>6, Shape DEF Size

LEMMA Sizes ==
    ASSUME Typed, NEW o \in Outfits
    PROVE  IsFiniteSet(DOMAIN o) /\ Size(o) \in {2, 3, 4}
BY Shape, SizeOfPath

LEMMA Part ==
    ASSUME Typed, NEW o \in Outfits, NEW T \in SUBSET DOMAIN o
    PROVE  Cardinality(T) \in 0..Size(o)
BY Sizes, FS_Subset, FS_CardinalityType DEF Size

LEMMA Smaller ==
    ASSUME Typed, NEW o \in Outfits, NEW T \in SUBSET DOMAIN o, NEW U \in SUBSET T
    PROVE  Cardinality(U) <= Cardinality(T)
BY Sizes, FS_Subset

LEMMA Twelfths ==
    ASSUME Typed, NEW o \in Outfits
    PROVE  \/ Size(o) = 2 /\ 12 \div Size(o) = 6
           \/ Size(o) = 3 /\ 12 \div Size(o) = 4
           \/ Size(o) = 4 /\ 12 \div Size(o) = 3
BY Sizes

----------------------------------------------------------------------------
(* Ranges.                                                                  *)

LEMMA StyleRange ==
    ASSUME Typed, NEW o \in Outfits PROVE style_match(o) \in 0..(35 * 48)
<1>1. Count(o, IsFavorite) \in 0..Size(o) /\ Count(o, IsDisliked) \in 0..Size(o)
  BY Part DEF Count
<1> QED
  BY <1>1, Twelfths DEF style_match

LEMMA ShareRange ==
    ASSUME Typed, NEW o \in Outfits, NEW p \in Nat, NEW n \in 0..Size(o)
    PROVE  Share(o, p, n) \in 0..(p * 48)
BY Twelfths DEF Share

LEMMA SeasonRange ==
    ASSUME Typed, NEW o \in Outfits PROVE season_score(o) \in 0..(15 * 48)
<1>1. Count(o, InSeasonNow) \in 0..Size(o)
  BY Part DEF Count
<1> QED
  BY <1>1, ShareRange DEF season_score

LEMMA WornRange ==
    ASSUME Typed, NEW o \in Outfits PROVE duplicate_penalty(o) \in 0..(25 * 48)
<1>1. Count(o, IsWorn) \in 0..Size(o)
  BY Part DEF Count
<1> QED
  BY <1>1, ShareRange DEF duplicate_penalty

LEMMA OccasionRange ==
    ASSUME Typed, NEW o \in Outfits PROVE occasion_match(o) \in 0..(15 * 48)
<1>1. ASSUME NEW r \in DOMAIN o PROVE Closeness(o[r]) \in 0..4
  <2>1. closet[o[r]].formality \in Tiers \cup {Unknown}
    BY Shape DEF Typed, Item
  <2>2. CASE Unknown \in {Target, closet[o[r]].formality}
    BY <2>2 DEF Closeness
  <2>3. CASE Unknown \notin {Target, closet[o[r]].formality}
    <3>1. closet[o[r]].formality \in 0..4 /\ Target \in 0..4
      BY <2>1, <2>3, OutfitsAssumption DEF Tiers
    <3> QED
      BY <2>3, <3>1 DEF Closeness, Distance
  <2> QED
    BY <2>2, <2>3
<1>2. Over(o, Closeness) \in 0..(4 * Size(o))
  <2>1. CASE DOMAIN o = {"dress", "footwear"}
    <3>1. Over(o, Closeness) = Closeness(o["footwear"]) + Closeness(o["dress"])
      BY <1>1, <2>1 DEF Over
    <3> QED
      BY <1>1, <2>1, <3>1, SizeOfPath
  <2>2. CASE DOMAIN o = {"top", "bottom", "footwear"}
    <3>1. Over(o, Closeness)
            = Closeness(o["top"]) + Closeness(o["bottom"]) + Closeness(o["footwear"])
      BY <1>1, <2>2 DEF Over
    <3> QED
      BY <1>1, <2>2, <3>1, SizeOfPath
  <2>3. CASE DOMAIN o = {"top", "bottom", "footwear", "outer"}
    <3>1. Over(o, Closeness)
            = Closeness(o["top"]) + Closeness(o["bottom"]) + Closeness(o["outer"])
                + Closeness(o["footwear"])
      BY <1>1, <2>3 DEF Over
    <3> QED
      BY <1>1, <2>3, <3>1, SizeOfPath
  <2> QED
    BY <2>1, <2>2, <2>3, Shape
<1> QED
  BY <1>2, Twelfths DEF occasion_match

LEMMA PriceInt ==
    ASSUME Typed, NEW o \in Outfits PROVE Over(o, Price) \in Int
<1>1. \A r \in DOMAIN o : Price(o[r]) \in Int
  BY Shape DEF Typed, Item, Price
<1> QED
  BY <1>1 DEF Over

LEMMA DivRange ==
    ASSUME NEW b \in Nat, NEW p \in Nat, b < p
    PROVE  (480 * b) \div p \in 0..480
OBVIOUS

LEMMA BudgetRange ==
    ASSUME Typed, NEW o \in Outfits PROVE budget_alignment(o) \in 0..(10 * 48)
<1>1. Over(o, Price) \in Int /\ budget \in Nat
  BY PriceInt DEF Typed
<1>2. CASE budget = NoBudget \/ Over(o, Price) <= budget
  BY <1>2 DEF budget_alignment
<1>3. CASE ~(budget = NoBudget \/ Over(o, Price) <= budget)
  <2>1. Over(o, Price) \in Nat /\ budget < Over(o, Price)
    BY <1>1, <1>3
  <2>2. (480 * budget) \div Over(o, Price) \in 0..480
    BY <1>1, <2>1, DivRange
  <2> QED
    BY <1>3, <2>2 DEF budget_alignment
<1> QED
  BY <1>2, <1>3

LEMMA CompatRange ==
    ASSUME Typed, NEW o \in Outfits PROVE compute_compatibility(o) \in 0..(25 * 48)
<1>1. Boost(o) \in 0..Size(o) /\ Penalty(o) \in 0..Size(o)
  BY Part DEF Boost, Penalty
<1>2. Clamp(5 + Boost(o) - 2 * Penalty(o)) \in 0..10
  BY <1>1, Sizes DEF Clamp
<1> QED
  BY <1>2 DEF compute_compatibility

\* Whatever the operator entered, sub-scores keep to their weights and totals to [-25, 100].
THEOREM ScoresInRange == Spec => []ScoreInRange
<1>1. Typed => ScoreInRange
  <2> SUFFICES ASSUME Typed, NEW o \in Outfits
               PROVE  /\ style_match(o) \in 0..(35 * 48)
                      /\ compute_compatibility(o) \in 0..(25 * 48)
                      /\ season_score(o) \in 0..(15 * 48)
                      /\ occasion_match(o) \in 0..(15 * 48)
                      /\ budget_alignment(o) \in 0..(10 * 48)
                      /\ duplicate_penalty(o) \in 0..(25 * 48)
                      /\ score_outfit(o) \in (-25 * 48)..(100 * 48)
    BY DEF ScoreInRange
  <2>1. /\ style_match(o) \in 0..1680
        /\ compute_compatibility(o) \in 0..1200
        /\ season_score(o) \in 0..720
        /\ occasion_match(o) \in 0..720
        /\ budget_alignment(o) \in 0..480
        /\ duplicate_penalty(o) \in 0..1200
    BY StyleRange, CompatRange, SeasonRange, OccasionRange, BudgetRange, WornRange
  <2>2. score_outfit(o) \in (-25 * 48)..(100 * 48)
    <3>1. PICK a \in 0..1680 : a = style_match(o)
      BY <2>1
    <3>2. PICK b \in 0..1200 : b = compute_compatibility(o)
      BY <2>1
    <3>3. PICK c \in 0..720 : c = season_score(o)
      BY <2>1
    <3>4. PICK d \in 0..720 : d = occasion_match(o)
      BY <2>1
    <3>5. PICK e \in 0..480 : e = budget_alignment(o)
      BY <2>1
    <3>6. PICK f \in 0..1200 : f = duplicate_penalty(o)
      BY <2>1
    <3>7. score_outfit(o) = a + b + c + d + e - f
      BY <3>1, <3>2, <3>3, <3>4, <3>5, <3>6 DEF score_outfit
    <3>8. a + b + c + d + e - f \in (-25 * 48)..(100 * 48)
      OBVIOUS
    <3> QED
      BY <3>7, <3>8
  <2> QED
    BY <2>2, StyleRange, CompatRange, SeasonRange, OccasionRange, BudgetRange, WornRange
<1> QED
  BY <1>1, AlwaysTyped, PTL

----------------------------------------------------------------------------
(* The collage.                                                             *)

LEMMA Boxes ==
    ASSUME NEW half \in Nat, half = Canvas \div 2
    PROVE  /\ SlotBox(0) = [x0 |-> Gutter, y0 |-> Gutter,
                            x1 |-> half - Gutter, y1 |-> half - Gutter]
           /\ SlotBox(1) = [x0 |-> half + Gutter, y0 |-> Gutter,
                            x1 |-> 2 * half - Gutter, y1 |-> half - Gutter]
           /\ SlotBox(2) = [x0 |-> Gutter, y0 |-> half + Gutter,
                            x1 |-> half - Gutter, y1 |-> 2 * half - Gutter]
           /\ SlotBox(3) = [x0 |-> half + Gutter, y0 |-> half + Gutter,
                            x1 |-> 2 * half - Gutter, y1 |-> 2 * half - Gutter]
           /\ 2 * Gutter < half /\ 2 * half <= Canvas
<1>1. 2 * Gutter < half /\ 2 * half <= Canvas
  BY OutfitsAssumption
<1>2. /\ 0 % 2 = 0 /\ 0 \div 2 = 0 /\ 1 % 2 = 1 /\ 1 \div 2 = 0
      /\ 2 % 2 = 0 /\ 2 \div 2 = 1 /\ 3 % 2 = 1 /\ 3 \div 2 = 1
  OBVIOUS
<1>3. Gutter \in Nat
  BY OutfitsAssumption
<1>4. SlotBox(0) = [x0 |-> Gutter, y0 |-> Gutter, x1 |-> half - Gutter, y1 |-> half - Gutter]
  BY <1>2, <1>3 DEF SlotBox
<1>5. SlotBox(1) = [x0 |-> half + Gutter, y0 |-> Gutter,
                    x1 |-> 2 * half - Gutter, y1 |-> half - Gutter]
  BY <1>2, <1>3 DEF SlotBox
<1>6. SlotBox(2) = [x0 |-> Gutter, y0 |-> half + Gutter,
                    x1 |-> half - Gutter, y1 |-> 2 * half - Gutter]
  BY <1>2, <1>3 DEF SlotBox
<1>7. SlotBox(3) = [x0 |-> half + Gutter, y0 |-> half + Gutter,
                    x1 |-> 2 * half - Gutter, y1 |-> 2 * half - Gutter]
  BY <1>2, <1>3 DEF SlotBox
<1> QED
  BY <1>1, <1>4, <1>5, <1>6, <1>7

\* For any canvas with room for its gutters, each piece has a tile, apart from the others.
THEOREM CollageDrawsAll == Spec => []EveryPieceIsDrawn
<1>1. Typed => EveryPieceIsDrawn
  <2> SUFFICES ASSUME Typed, NEW o \in Outfits
               PROVE  /\ Drawn(o) = DOMAIN o
                      /\ \A r \in Drawn(o) :
                            LET box == SlotBox(Layout(o)[r])
                            IN  /\ 0 <= box.x0 /\ box.x0 < box.x1 /\ box.x1 <= Canvas
                                /\ 0 <= box.y0 /\ box.y0 < box.y1 /\ box.y1 <= Canvas
                      /\ \A q, r \in Drawn(o) :
                            q # r => Apart(SlotBox(Layout(o)[q]), SlotBox(Layout(o)[r]))
    BY DEF EveryPieceIsDrawn
  <2>1. PICK half \in Nat : half = Canvas \div 2
    BY OutfitsAssumption
  <2> DEFINE Inside(b) == /\ 0 <= b.x0 /\ b.x0 < b.x1 /\ b.x1 <= Canvas
                          /\ 0 <= b.y0 /\ b.y0 < b.y1 /\ b.y1 <= Canvas
  <2>5. {Gutter, Canvas} \subseteq Nat /\ 2 * Gutter < half /\ 2 * half <= Canvas
    BY <2>1, Boxes, OutfitsAssumption
  <2>2. \A k \in 0..3 : Inside(SlotBox(k))
    <3>1. Inside(SlotBox(0))
      BY <2>1, <2>5, Boxes
    <3>2. Inside(SlotBox(1))
      BY <2>1, <2>5, Boxes
    <3>3. Inside(SlotBox(2))
      BY <2>1, <2>5, Boxes
    <3>4. Inside(SlotBox(3))
      BY <2>1, <2>5, Boxes
    <3>5. 0..3 = {0, 1, 2, 3}
      OBVIOUS
    <3> HIDE DEF Inside
    <3> QED
      BY <3>1, <3>2, <3>3, <3>4, <3>5
  <2>3. \A j, k \in 0..3 : j # k => Apart(SlotBox(j), SlotBox(k))
    <3>1. Apart(SlotBox(0), SlotBox(1)) /\ Apart(SlotBox(1), SlotBox(0))
      BY <2>1, <2>5, Boxes DEF Apart
    <3>2. Apart(SlotBox(0), SlotBox(2)) /\ Apart(SlotBox(2), SlotBox(0))
      BY <2>1, <2>5, Boxes DEF Apart
    <3>3. Apart(SlotBox(0), SlotBox(3)) /\ Apart(SlotBox(3), SlotBox(0))
      BY <2>1, <2>5, Boxes DEF Apart
    <3>4. Apart(SlotBox(1), SlotBox(2)) /\ Apart(SlotBox(2), SlotBox(1))
      BY <2>1, <2>5, Boxes DEF Apart
    <3>5. Apart(SlotBox(1), SlotBox(3)) /\ Apart(SlotBox(3), SlotBox(1))
      BY <2>1, <2>5, Boxes DEF Apart
    <3>6. Apart(SlotBox(2), SlotBox(3)) /\ Apart(SlotBox(3), SlotBox(2))
      BY <2>1, <2>5, Boxes DEF Apart
    <3>7. 0..3 = {0, 1, 2, 3}
      OBVIOUS
    <3> QED
      BY <3>1, <3>2, <3>3, <3>4, <3>5, <3>6, <3>7
  <2>4. /\ Drawn(o) = DOMAIN o
        /\ \A r \in DOMAIN o : Layout(o)[r] \in 0..3
        /\ \A q, r \in DOMAIN o : q # r => Layout(o)[q] # Layout(o)[r]
    <3>1. CASE DOMAIN o = {"dress", "footwear"}
      BY <3>1 DEF Drawn, Layout, LayoutDress
    <3>2. CASE DOMAIN o \in {{"top", "bottom", "footwear"}, {"top", "bottom", "footwear", "outer"}}
      BY <3>2 DEF Drawn, Layout, LayoutPieced
    <3> QED
      BY <3>1, <3>2, Shape
  <2> QED
    BY <2>2, <2>3, <2>4
<1> QED
  BY <1>1, AlwaysTyped, PTL

----------------------------------------------------------------------------
(* Edits.                                                                   *)

\* More of a count is more points.
LEMMA ShareMono ==
    ASSUME Typed, NEW o \in Outfits, NEW p \in {15, 25}, NEW m \in Nat, NEW n \in Nat, m <= n
    PROVE  Share(o, p, m) <= Share(o, p, n)
BY Twelfths DEF Share

LEMMA SeasonMono ==
    ASSUME Typed, Typed', NEW o \in Outfits, o \in Outfits'
    PROVE  /\ season_score(o) \in Int /\ season_score(o)' \in Int
           /\ Milder => season_score(o)' >= season_score(o)
           /\ Harsher => season_score(o)' <= season_score(o)
<1> DEFINE Hit == {r \in DOMAIN o : InSeasonNow(o[r])}
<1>1. Hit \in SUBSET DOMAIN o /\ Hit' \in SUBSET DOMAIN o
  OBVIOUS
<1>2. Cardinality(Hit) \in Nat /\ Cardinality(Hit') \in Nat
  BY <1>1, Part, Sizes
<1>3. Milder => Hit \subseteq Hit'
  BY Shape DEF Milder, Kinder, InSeasonNow
<1>4. Harsher => Hit' \subseteq Hit
  BY Shape DEF Harsher, Kinder, InSeasonNow
<1>5. /\ Milder => Cardinality(Hit) <= Cardinality(Hit')
      /\ Harsher => Cardinality(Hit') <= Cardinality(Hit)
  BY <1>1, <1>3, <1>4, Smaller
<1>6. /\ season_score(o) = Share(o, 15, Cardinality(Hit))
      /\ season_score(o)' = Share(o, 15, Cardinality(Hit'))
  BY DEF season_score, Count, Share, Size
<1> HIDE DEF Hit
<1>7. Share(o, 15, Cardinality(Hit)) \in Int /\ Share(o, 15, Cardinality(Hit')) \in Int
  BY <1>2, Twelfths DEF Share
<1> QED
  BY <1>2, <1>5, <1>6, <1>7, ShareMono

LEMMA WornMono ==
    ASSUME Typed, Typed', NEW o \in Outfits, o \in Outfits'
    PROVE  /\ duplicate_penalty(o) \in Int /\ duplicate_penalty(o)' \in Int
           /\ Milder => duplicate_penalty(o)' <= duplicate_penalty(o)
           /\ Harsher => duplicate_penalty(o)' >= duplicate_penalty(o)
<1> DEFINE Hit == {r \in DOMAIN o : IsWorn(o[r])}
<1>1. Hit \in SUBSET DOMAIN o /\ Hit' \in SUBSET DOMAIN o
  OBVIOUS
<1>2. Cardinality(Hit) \in Nat /\ Cardinality(Hit') \in Nat
  BY <1>1, Part, Sizes
<1>3. Milder => Hit' \subseteq Hit
  BY DEF Milder, IsWorn
<1>4. Harsher => Hit \subseteq Hit'
  BY DEF Harsher, IsWorn
<1>5. /\ Milder => Cardinality(Hit') <= Cardinality(Hit)
      /\ Harsher => Cardinality(Hit) <= Cardinality(Hit')
  BY <1>1, <1>3, <1>4, Smaller
<1>6. /\ duplicate_penalty(o) = Share(o, 25, Cardinality(Hit))
      /\ duplicate_penalty(o)' = Share(o, 25, Cardinality(Hit'))
  BY DEF duplicate_penalty, Count, Share, Size
<1> HIDE DEF Hit
<1>7. Share(o, 25, Cardinality(Hit)) \in Int /\ Share(o, 25, Cardinality(Hit')) \in Int
  BY <1>2, Twelfths DEF Share
<1> QED
  BY <1>2, <1>5, <1>6, <1>7, ShareMono

LEMMA StyleMono ==
    ASSUME Typed, Typed', NEW o \in Outfits, o \in Outfits'
    PROVE  /\ style_match(o) \in Int /\ style_match(o)' \in Int
           /\ Milder => style_match(o)' >= style_match(o)
           /\ Harsher => style_match(o)' <= style_match(o)
<1> DEFINE Fav == {r \in DOMAIN o : IsFavorite(o[r])}
           Dis == {r \in DOMAIN o : IsDisliked(o[r])}
           Points(f, d) == 70 * (12 \div Size(o)) * (Size(o) + f - d)
<1>1. Fav \in SUBSET DOMAIN o /\ Fav' \in SUBSET DOMAIN o
      /\ Dis \in SUBSET DOMAIN o /\ Dis' \in SUBSET DOMAIN o
  OBVIOUS
<1>2. Cardinality(Fav) \in Nat /\ Cardinality(Fav') \in Nat
      /\ Cardinality(Dis) \in Nat /\ Cardinality(Dis') \in Nat
  BY <1>1, Part, Sizes
<1>3. Milder => Fav \subseteq Fav' /\ Dis' \subseteq Dis
  BY Shape DEF Milder, Kinder, IsFavorite, IsDisliked
<1>4. Harsher => Fav' \subseteq Fav /\ Dis \subseteq Dis'
  BY Shape DEF Harsher, Kinder, IsFavorite, IsDisliked
<1>5. /\ Milder => Cardinality(Fav) <= Cardinality(Fav') /\ Cardinality(Dis') <= Cardinality(Dis)
      /\ Harsher => Cardinality(Fav') <= Cardinality(Fav) /\ Cardinality(Dis) <= Cardinality(Dis')
  BY <1>1, <1>3, <1>4, Smaller
<1>6. /\ style_match(o) = Points(Cardinality(Fav), Cardinality(Dis))
      /\ style_match(o)' = Points(Cardinality(Fav'), Cardinality(Dis'))
  BY DEF style_match, Count, Size
<1> HIDE DEF Fav, Dis
<1>7. \A f, g, d, e \in Nat :
          Points(f, d) \in Int /\ (f <= g /\ e <= d => Points(f, d) <= Points(g, e))
  BY Twelfths
<1> HIDE DEF Points
<1> QED
  BY <1>2, <1>5, <1>6, <1>7

LEMMA CompatMono ==
    ASSUME Typed, Typed', NEW o \in Outfits, o \in Outfits'
    PROVE  /\ compute_compatibility(o) \in Int /\ compute_compatibility(o)' \in Int
           /\ Milder => compute_compatibility(o)' >= compute_compatibility(o)
           /\ Harsher => compute_compatibility(o)' <= compute_compatibility(o)
<1> DEFINE Liked == {r \in DOMAIN o : closet[o[r]].pairs_well_with \cap Partners(o, o[r]) # {}}
           Hated == {r \in DOMAIN o : closet[o[r]].avoid_pairing_with \cap Partners(o, o[r]) # {}}
           Points(b, p) == 120 * Clamp(5 + b - 2 * p)
<1>1. Liked \in SUBSET DOMAIN o /\ Liked' \in SUBSET DOMAIN o
      /\ Hated \in SUBSET DOMAIN o /\ Hated' \in SUBSET DOMAIN o
  OBVIOUS
<1>2. Cardinality(Liked) \in Nat /\ Cardinality(Liked') \in Nat
      /\ Cardinality(Hated) \in Nat /\ Cardinality(Hated') \in Nat
  BY <1>1, Part, Sizes
<1>3. Milder => Liked \subseteq Liked' /\ Hated' \subseteq Hated
  BY Shape DEF Milder, Kinder, Partners
<1>4. Harsher => Liked' \subseteq Liked /\ Hated \subseteq Hated'
  BY Shape DEF Harsher, Kinder, Partners
<1>5. /\ Milder => Cardinality(Liked) <= Cardinality(Liked')
                      /\ Cardinality(Hated') <= Cardinality(Hated)
      /\ Harsher => Cardinality(Liked') <= Cardinality(Liked)
                      /\ Cardinality(Hated) <= Cardinality(Hated')
  BY <1>1, <1>3, <1>4, Smaller
<1>6. /\ compute_compatibility(o) = Points(Cardinality(Liked), Cardinality(Hated))
      /\ compute_compatibility(o)' = Points(Cardinality(Liked'), Cardinality(Hated'))
  BY DEF compute_compatibility, Boost, Penalty, Partners, Clamp
<1> HIDE DEF Liked, Hated
<1>7. \A b, c, p, q \in Nat :
          Points(b, p) \in Int /\ (b <= c /\ q <= p => Points(b, p) <= Points(c, q))
  BY DEF Clamp
<1> HIDE DEF Points
<1> QED
  BY <1>2, <1>5, <1>6, <1>7

LEMMA OccasionSame ==
    ASSUME Typed, Typed', NEW o \in Outfits, o \in Outfits', Milder \/ Harsher
    PROVE  occasion_match(o)' = occasion_match(o)
<1>1. \A r \in DOMAIN o : closet'[o[r]].formality = closet[o[r]].formality
  BY Shape DEF Milder, Harsher, Kinder
<1>2. \A r \in DOMAIN o : Closeness(o[r])' = Closeness(o[r])
  BY <1>1 DEF Closeness, Distance
<1>3. Over(o, Closeness)' = Over(o, Closeness)
  BY <1>2 DEF Over
<1> QED
  BY <1>3 DEF occasion_match, Size

LEMMA DivMono ==
    ASSUME NEW a \in Nat, NEW b \in Nat, a <= b, NEW p \in Nat \ {0}, NEW q \in Nat \ {0}, q <= p
    PROVE  a \div p <= b \div q
<1>1. PICK x \in Nat : x = a \div p
  OBVIOUS
<1>2. p * x <= a
  BY <1>1
<1>3. q * x <= p * x
  OBVIOUS
<1>4. q * x <= b
  BY <1>2, <1>3
<1> QED
  BY <1>1, <1>4

\* The budget points, as a function of the total price and the budget.
Aligned(p, b) == IF b = NoBudget \/ p <= b THEN 480 ELSE (480 * b) \div p

LEMMA AlignedMono ==
    ASSUME NEW p \in Int, NEW q \in Int, q <= p, NEW b \in Nat, NEW c \in Nat,
           c = b \/ b \in 1..c
    PROVE  Aligned(p, b) <= Aligned(q, c)
<1>1. CASE c = NoBudget \/ q <= c
  <2>1. Aligned(q, c) = 480
    BY <1>1 DEF Aligned
  <2>2. CASE b = NoBudget \/ p <= b
    BY <2>1, <2>2 DEF Aligned
  <2>3. CASE ~(b = NoBudget \/ p <= b)
    <3>1. p \in Nat /\ b < p
      BY <2>3
    <3>2. (480 * b) \div p \in 0..480
      BY <3>1, DivRange
    <3> QED
      BY <2>1, <2>3, <3>2 DEF Aligned
  <2> QED
    BY <2>2, <2>3
<1>2. CASE ~(c = NoBudget \/ q <= c)
  <2>1. b # NoBudget /\ b <= c /\ c < q /\ b < p
    BY <1>2 DEF NoBudget
  <2>2. p \in Nat \ {0} /\ q \in Nat \ {0} /\ 480 * b \in Nat /\ 480 * c \in Nat
        /\ 480 * b <= 480 * c
    BY <2>1
  <2>3. (480 * b) \div p <= (480 * c) \div q
    <3>1. PICK x \in Nat : x = 480 * b
      BY <2>2
    <3>2. PICK y \in Nat : y = 480 * c
      BY <2>2
    <3>3. p \in Nat \ {0} /\ q \in Nat \ {0} /\ q <= p /\ x <= y
      BY <2>2, <3>1, <3>2
    <3>4. x \div p <= y \div q
      BY <3>3, DivMono
    <3> QED
      BY <3>1, <3>2, <3>4
  <2> QED
    BY <1>2, <2>1, <2>3 DEF Aligned
<1> QED
  BY <1>1, <1>2

LEMMA AlignedInt == ASSUME NEW p \in Int, NEW b \in Nat PROVE Aligned(p, b) \in Int
<1>1. CASE b = NoBudget \/ p <= b
  BY <1>1 DEF Aligned
<1>2. CASE ~(b = NoBudget \/ p <= b)
  <2>1. p \in Nat /\ b < p
    BY <1>2
  <2>2. (480 * b) \div p \in 0..480
    BY <2>1, DivRange
  <2> QED
    BY <1>2, <2>2 DEF Aligned
<1> QED
  BY <1>1, <1>2

LEMMA BudgetMono ==
    ASSUME Typed, Typed', NEW o \in Outfits, o \in Outfits'
    PROVE  /\ budget_alignment(o) \in Int /\ budget_alignment(o)' \in Int
           /\ Milder => budget_alignment(o)' >= budget_alignment(o)
           /\ Harsher => budget_alignment(o)' <= budget_alignment(o)
<1>1. \A r \in DOMAIN o : Price(o[r]) \in Int /\ Price(o[r])' \in Int
  BY Shape DEF Typed, Item, Price
<1>2. Over(o, Price) \in Int /\ Over(o, Price)' \in Int
  BY <1>1 DEF Over
<1>3. Milder => Over(o, Price)' <= Over(o, Price)
  <2> SUFFICES ASSUME Milder PROVE Over(o, Price)' <= Over(o, Price)
    OBVIOUS
  <2>1. \A r \in DOMAIN o : Price(o[r])' <= Price(o[r])
    BY Shape DEF Milder, Kinder, Price
  <2> QED
    BY <1>1, <2>1 DEF Over
<1>4. Harsher => Over(o, Price) <= Over(o, Price)'
  <2> SUFFICES ASSUME Harsher PROVE Over(o, Price) <= Over(o, Price)'
    OBVIOUS
  <2>1. \A r \in DOMAIN o : Price(o[r]) <= Price(o[r])'
    BY Shape DEF Harsher, Kinder, Price
  <2> QED
    BY <1>1, <2>1 DEF Over
<1>5. budget \in Nat /\ budget' \in Nat
  BY DEF Typed
<1>6. /\ budget_alignment(o) = Aligned(Over(o, Price), budget)
      /\ budget_alignment(o)' = Aligned(Over(o, Price)', budget')
  BY DEF budget_alignment, Aligned
<1>7. Aligned(Over(o, Price), budget) \in Int /\ Aligned(Over(o, Price)', budget') \in Int
  BY <1>2, <1>5, AlignedInt
<1> QED
  BY <1>2, <1>3, <1>4, <1>5, <1>6, <1>7, AlignedMono DEF Milder, Harsher

LEMMA Monotone ==
    ASSUME Typed, Typed', NEW o \in Outfits, o \in Outfits'
    PROVE  /\ Milder => score_outfit(o)' >= score_outfit(o)
           /\ Harsher => score_outfit(o)' <= score_outfit(o)
<1> SUFFICES ASSUME Milder \/ Harsher
             PROVE  /\ Milder => score_outfit(o)' >= score_outfit(o)
                    /\ Harsher => score_outfit(o)' <= score_outfit(o)
  OBVIOUS
<1>1. occasion_match(o) \in Int /\ occasion_match(o)' = occasion_match(o)
  BY OccasionSame, OccasionRange
<1> QED
  BY <1>1, StyleMono, CompatMono, SeasonMono, BudgetMono, WornMono DEF score_outfit

----------------------------------------------------------------------------
(* Curated lists.                                                           *)

\* A piece is in the role of its category, so no two are the same item.
LEMMA PiecesDiffer ==
    ASSUME Typed, NEW o \in Outfits, NEW q \in DOMAIN o, NEW r \in DOMAIN o, o[q] = o[r]
    PROVE  q = r
<1>1. \A s \in DOMAIN o : RoleOf[closet[o[s]].category] = s
  <2>1. CASE o \in DressOutfits
    BY <2>1 DEF DressOutfits, For, Wearable
  <2>2. CASE o \in PieceOutfits /\ For("outer") = {}
    BY <2>2 DEF PieceOutfits, For, Wearable
  <2>3. CASE o \in PieceOutfits /\ For("outer") # {}
    <3>1. PICK t \in For("top"), b \in For("bottom"), f \in For("footwear"),
               c \in For("outer") :
              o = [top |-> t, bottom |-> b, footwear |-> f, outer |-> c]
      BY <2>3 DEF PieceOutfits
    <3> QED
      BY <3>1 DEF For, Wearable
  <2> QED
    BY <2>1, <2>2, <2>3 DEF Outfits
<1> QED
  BY <1>1

\* All but the compatibility stays.
LEMMA CurationKeeps ==
    ASSUME Typed, Typed', NEW i \in Ids, Curates(i), NEW o \in Outfits
    PROVE  /\ style_match(o)' = style_match(o)
           /\ season_score(o)' = season_score(o)
           /\ occasion_match(o)' = occasion_match(o)
           /\ budget_alignment(o)' = budget_alignment(o)
           /\ duplicate_penalty(o)' = duplicate_penalty(o)
<1>1. /\ UNCHANGED <<month, worn, favorite, disliked, budget>>
      /\ \A j \in Ids : /\ closet'[j].color_primary = closet[j].color_primary
                         /\ closet'[j].formality = closet[j].formality
                         /\ closet'[j].seasons = closet[j].seasons
                         /\ closet'[j].price = closet[j].price
  BY DEF Curates, profile, Typed, Item
<1>2. \A r \in DOMAIN o : /\ IsFavorite(o[r])' = IsFavorite(o[r])
                          /\ IsDisliked(o[r])' = IsDisliked(o[r])
                          /\ InSeasonNow(o[r])' = InSeasonNow(o[r])
                          /\ Closeness(o[r])' = Closeness(o[r])
                          /\ Price(o[r])' = Price(o[r])
                          /\ IsWorn(o[r])' = IsWorn(o[r])
  BY <1>1, Shape DEF IsFavorite, IsDisliked, InSeasonNow, derive_season, Closeness, Distance,
                     Price, IsWorn
<1>3. style_match(o)' = style_match(o)
  <2>1. /\ {r \in DOMAIN o : IsFavorite(o[r])}' = {r \in DOMAIN o : IsFavorite(o[r])}
        /\ {r \in DOMAIN o : IsDisliked(o[r])}' = {r \in DOMAIN o : IsDisliked(o[r])}
    BY <1>2
  <2> QED
    BY <2>1 DEF style_match, Count, Size
<1>4. season_score(o)' = season_score(o)
  <2>1. {r \in DOMAIN o : InSeasonNow(o[r])}' = {r \in DOMAIN o : InSeasonNow(o[r])}
    BY <1>2
  <2> QED
    BY <2>1 DEF season_score, Share, Count, Size
<1>5. occasion_match(o)' = occasion_match(o)
  BY <1>2 DEF occasion_match, Over, Size
<1>6. budget_alignment(o)' = budget_alignment(o)
  <2>1. Over(o, Price)' = Over(o, Price)
    BY <1>2 DEF Over
  <2> QED
    BY <1>1, <2>1 DEF budget_alignment
<1>7. duplicate_penalty(o)' = duplicate_penalty(o)
  <2>1. {r \in DOMAIN o : IsWorn(o[r])}' = {r \in DOMAIN o : IsWorn(o[r])}
    BY <1>2
  <2> QED
    BY <2>1 DEF duplicate_penalty, Share, Count, Size
<1> QED
  BY <1>3, <1>4, <1>5, <1>6, <1>7

\* A piece is counted as liked, or as hated, when its list names another one.
LEMMA CountedIfNames ==
    ASSUME NEW o, NEW q \in DOMAIN o, NEW i, o[q] = i, NEW l
    PROVE  l \cap Partners(o, i) # {} <=> Names(l, i, o)
BY DEF Partners, Names

\* Counting one more piece, or as many.
LEMMA CountedOnceMore ==
    ASSUME Typed, NEW o \in Outfits, NEW S \in SUBSET DOMAIN o, NEW T \in SUBSET DOMAIN o,
           NEW q \in DOMAIN o, \A r \in DOMAIN o \ {q} : r \in S <=> r \in T
    PROVE  /\ (q \in S <=> q \in T) => Cardinality(T) = Cardinality(S)
           /\ q \notin S /\ q \in T => Cardinality(T) = Cardinality(S) + 1
<1>1. IsFiniteSet(S)
  BY Sizes, FS_Subset
<1>2. (q \in S <=> q \in T) => S = T
  OBVIOUS
<1>3. q \notin S /\ q \in T => T = S \cup {q}
  OBVIOUS
<1> QED
  BY <1>1, <1>2, <1>3, FS_AddElement

\* The points of the lists, with b pieces that are liked and p that clash.
ListPoints(b, p) == 120 * Clamp(5 + b - 2 * p)

LEMMA PointsMoved ==
    ASSUME NEW b \in 0..4, NEW c \in 0..4, NEW p \in 0..4, NEW d \in 0..4,
           NEW gain, gain = ListPoints(c, d) - ListPoints(b, p)
    PROVE  /\ c = b /\ d = p => gain = 0
           /\ c = b + 1 /\ d = p =>
                 gain = 120 \/ (ListPoints(c, d) = 0 /\ d >= 3 /\ gain = 0)
           /\ c = b /\ d = p + 1 =>
                 gain = -240 \/ (ListPoints(c, d) = 0 /\ d >= 3 /\ gain \in -239..0)
BY DEF ListPoints, Clamp

LEMMA CurationMovesPoints ==
    ASSUME Typed, Typed', NEW i \in Ids, Curates(i), NEW o \in Outfits, o \in Outfits'
    PROVE  score_outfit(o)' - score_outfit(o)
               = compute_compatibility(o)' - compute_compatibility(o)
<1>1. /\ style_match(o) \in Int /\ season_score(o) \in Int
      /\ compute_compatibility(o) \in Int /\ compute_compatibility(o)' \in Int
  <2>1. style_match(o) \in Int
    BY StyleRange
  <2>2. season_score(o) \in Int
    BY SeasonRange
  <2> QED
    BY <2>1, <2>2, CompatMono
<1>2. occasion_match(o) \in Int
  BY OccasionRange
<1>3. budget_alignment(o) \in Int
  BY BudgetRange
<1>4. duplicate_penalty(o) \in Int
  BY WornRange
<1>5. score_outfit(o)' = style_match(o) + compute_compatibility(o)' + season_score(o)
                           + occasion_match(o) + budget_alignment(o) - duplicate_penalty(o)
  BY CurationKeeps DEF score_outfit
<1> QED
  BY <1>1, <1>2, <1>3, <1>4, <1>5 DEF score_outfit

\* The outfits are the same as before.
LEMMA CurationOutfits ==
    ASSUME Typed, Typed', NEW i \in Ids, Curates(i)
    PROVE  Outfits' = Outfits
<1>1. \A j \in Ids : /\ closet'[j].category = closet[j].category
                     /\ closet'[j].seasons = closet[j].seasons
  BY DEF Curates, Typed, Item, profile
<1>2. \A role : For(role)' = For(role)
  BY <1>1 DEF For, Wearable, MatchesSeason, Active, derive_season, Curates, Typed
<1> QED
  BY <1>2 DEF Outfits, DressOutfits, PieceOutfits

\* An outfit that is worn without i.
LEMMA CurationElsewhere ==
    ASSUME Typed, Typed', NEW i \in Ids, Curates(i), NEW o \in Outfits, o \in Outfits',
           \A r \in DOMAIN o : o[r] # i
    PROVE  ListsCount(i, o)
<1>1. \A r \in DOMAIN o : closet'[o[r]] = closet[o[r]]
  BY Shape DEF Curates, Typed
<1>2. compute_compatibility(o)' = compute_compatibility(o)
  <2>1. Boost(o)' = Boost(o)
    BY <1>1 DEF Boost, Partners
  <2>2. Penalty(o)' = Penalty(o)
    BY <1>1 DEF Penalty, Partners
  <2> QED
    BY <2>1, <2>2 DEF compute_compatibility
<1>3. score_outfit(o)' - score_outfit(o) = 0
  BY <1>2, CompatMono, CurationMovesPoints
<1>4. /\ ~Names(closet[i].pairs_well_with, i, o) /\ ~Names(closet'[i].pairs_well_with, i, o)
      /\ ~Names(closet[i].avoid_pairing_with, i, o) /\ ~Names(closet'[i].avoid_pairing_with, i, o)
  BY DEF Names
<1> QED
  BY <1>3, <1>4 DEF ListsCount

LEMMA CurationCounts ==
    ASSUME Typed, Typed', NEW i \in Ids, Curates(i), NEW o \in Outfits, o \in Outfits',
           NEW q \in DOMAIN o, o[q] = i
    PROVE  ListsCount(i, o)
<1> DEFINE Liked == {r \in DOMAIN o : closet[o[r]].pairs_well_with \cap Partners(o, o[r]) # {}}
           Hated == {r \in DOMAIN o : closet[o[r]].avoid_pairing_with \cap Partners(o, o[r]) # {}}
           b == Cardinality(Liked)
           p == Cardinality(Hated)
<1>1. /\ Liked \in SUBSET DOMAIN o /\ Liked' \in SUBSET DOMAIN o
      /\ Hated \in SUBSET DOMAIN o /\ Hated' \in SUBSET DOMAIN o
  OBVIOUS
<1>2. \A T \in SUBSET DOMAIN o : Cardinality(T) \in 0..4
  BY Part, Sizes
<1>3. b \in 0..4 /\ b' \in 0..4 /\ p \in 0..4 /\ p' \in 0..4
  BY <1>1, <1>2
<1>4. compute_compatibility(o) = ListPoints(b, p) /\ compute_compatibility(o)' = ListPoints(b', p')
  BY DEF compute_compatibility, Boost, Penalty, Partners, ListPoints
<1>5. score_outfit(o)' - score_outfit(o) = ListPoints(b', p') - ListPoints(b, p)
  BY <1>4, CurationMovesPoints
<1>6. \A r \in DOMAIN o \ {q} : closet'[o[r]] = closet[o[r]]
  <2>1. \A r \in DOMAIN o \ {q} : o[r] \in Ids \ {i}
    BY Shape, PiecesDiffer
  <2> QED
    BY <2>1 DEF Curates, Typed
<1>7. /\ \A r \in DOMAIN o \ {q} : r \in Liked <=> r \in Liked'
      /\ \A r \in DOMAIN o \ {q} : r \in Hated <=> r \in Hated'
  BY <1>6 DEF Partners
<1>8. /\ q \in Liked <=> Names(closet[i].pairs_well_with, i, o)
      /\ q \in Liked' <=> Names(closet'[i].pairs_well_with, i, o)
      /\ q \in Hated <=> Names(closet[i].avoid_pairing_with, i, o)
      /\ q \in Hated' <=> Names(closet'[i].avoid_pairing_with, i, o)
  <2>1. \A l : l \cap Partners(o, i) # {} <=> Names(l, i, o)
    BY CountedIfNames
  <2>2. /\ q \in Liked <=> closet[i].pairs_well_with \cap Partners(o, i) # {}
        /\ q \in Hated <=> closet[i].avoid_pairing_with \cap Partners(o, i) # {}
    OBVIOUS
  <2>3. /\ q \in Liked' <=> closet'[i].pairs_well_with \cap Partners(o, i) # {}
        /\ q \in Hated' <=> closet'[i].avoid_pairing_with \cap Partners(o, i) # {}
    BY DEF Partners
  <2> QED
    BY <2>1, <2>2, <2>3
<1>9. Spent(o)' <=> ListPoints(b', p') = 0 /\ p' >= 3
  <2>1. \A r \in DOMAIN o : Names(closet'[o[r]].avoid_pairing_with, o[r], o) <=> r \in Hated'
    <3>1. \A r \in DOMAIN o : \A l : l \cap Partners(o, o[r]) # {} <=> Names(l, o[r], o)
      BY CountedIfNames
    <3>2. \A r \in DOMAIN o :
              r \in Hated' <=> closet'[o[r]].avoid_pairing_with \cap Partners(o, o[r]) # {}
      BY DEF Partners
    <3> QED
      BY <3>1, <3>2
  <2>2. {r \in DOMAIN o : Names(closet[o[r]].avoid_pairing_with, o[r], o)}' = Hated'
    BY <1>1, <2>1 DEF Names
  <2> QED
    BY <1>4, <2>2 DEF Spent
<1> HIDE DEF Liked, Hated
<1>10. /\ (q \in Liked <=> q \in Liked') => b' = b
       /\ q \notin Liked /\ q \in Liked' => b' = b + 1
  BY <1>1, <1>7, CountedOnceMore
<1>11. /\ (q \in Hated <=> q \in Hated') => p' = p
       /\ q \notin Hated /\ q \in Hated' => p' = p + 1
  BY <1>1, <1>7, CountedOnceMore
<1> HIDE DEF b, p
<1> DEFINE gain == score_outfit(o)' - score_outfit(o)
<1>12. gain = ListPoints(b', p') - ListPoints(b, p)
  BY <1>5
<1> HIDE DEF gain
<1>13. /\ b' = b /\ p' = p => gain = 0
       /\ b' = b + 1 /\ p' = p =>
             gain = 120 \/ (ListPoints(b', p') = 0 /\ p' >= 3 /\ gain = 0)
       /\ b' = b /\ p' = p + 1 =>
             gain = -240 \/ (ListPoints(b', p') = 0 /\ p' >= 3 /\ gain \in -239..0)
  BY <1>3, <1>12, PointsMoved
<1>14. /\ (q \in Liked <=> q \in Liked') /\ (q \in Hated <=> q \in Hated') => gain = 0
       /\ q \notin Liked /\ q \in Liked' /\ (q \in Hated <=> q \in Hated') =>
             gain = 120 \/ (Spent(o)' /\ gain = 0)
       /\ (q \in Liked <=> q \in Liked') /\ q \notin Hated /\ q \in Hated' =>
             gain = -240 \/ (Spent(o)' /\ gain \in -239..0)
  BY <1>9, <1>10, <1>11, <1>13
<1> USE DEF gain
<1> QED
  BY <1>8, <1>14 DEF ListsCount

(* Theorem.  For any wardrobe, prices, budgets and texts in the lists: no    *)
(* edit that speaks for the outfits lowers a score and none that speaks      *)
(* against raises one; and a curated list of handle_edit_item moves exactly  *)
(* the outfits in which it names another piece by its whole id, by what      *)
(* compute_compatibility grants for it.                                      *)
THEOREM EditsMoveScores == Spec => EditsActAsMeant
<1>1. ASSUME Typed, Typed', [Next]_vars
      PROVE  [/\ Milder => \A o \in Outfits :
                              o \in Outfits' => score_outfit(o)' >= score_outfit(o)
              /\ Harsher => \A o \in Outfits :
                              o \in Outfits' => score_outfit(o)' <= score_outfit(o)
              /\ \A i \in Ids : Curates(i) => \A o \in Outfits : ListsCount(i, o)]_vars
  <2>1. ASSUME NEW i \in Ids, Curates(i), NEW o \in Outfits PROVE ListsCount(i, o)
    BY <1>1, <2>1, CurationOutfits, CurationElsewhere, CurationCounts
  <2> QED
    BY <1>1, <2>1, Monotone
<1> QED
  BY <1>1, AlwaysTyped, PTL DEF Spec, EditsActAsMeant
=============================================================================
