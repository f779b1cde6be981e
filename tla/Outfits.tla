------------------------------ MODULE Outfits ------------------------------
(***************************************************************************)
(* What the daily push ranks and draws: the candidates of a wardrobe       *)
(* (outfits/candidates.py), their scores (outfits/score.py and             *)
(* compatibility.py, on the rows that adapter.py hands over) and the tiles *)
(* of the collage (outfits/collage.py).  All of it is computed between two *)
(* awaits from the rows of that moment; the steps of this module are the   *)
(* edits of the rows between two such moments.                             *)
(***************************************************************************)
EXTENDS Integers, Sequences, FiniteSets

CONSTANTS
    Ids,            \* the items, soft-deleted ones included
    Texts,          \* what may stand in a list for an item: its whole id, its short
                    \* one (the first eight characters), anything else
    Colors, NoColor,
    Target,         \* the tier of the occasion on the formality ladder, or Unknown
    Lists,          \* what an operator may give for pairs_well_with and the like
    SeasonLists,    \* and for seasons
    Prices,         \* and for purchase_price_usd: any number, a negative one too
    Budgets,        \* the values of monthly_clothing_budget_usd
    Starts,         \* the rows to start from, a record with these variables
    MaxCandidates,  \* generate_candidates: cap on the candidates
    Canvas, Gutter, \* CollageConfig
    MaxEdits        \* bound on the edits of a behaviour

Unknown == -1   \* a formality or an occasion that is not on the ladder
Tiers == 0..4   \* _FORMALITY_LADDER
NoBudget == 0

Categories == {"tops", "bottoms", "dresses", "outerwear", "footwear", "accessories"}
Seasons == {"winter", "spring", "summer", "fall"}

Item == [category : Categories, color_primary : Colors \cup {NoColor},
         formality : Tiers \cup {Unknown}, seasons : SUBSET Seasons, price : Int,
         pairs_well_with : SUBSET Texts, avoid_pairing_with : SUBSET Texts]

ASSUME OutfitsAssumption ==
    /\ NoColor \notin Colors /\ Target \in Tiers \cup {Unknown}
    /\ Ids \subseteq Texts
    /\ Lists \subseteq SUBSET Texts /\ SeasonLists \subseteq SUBSET Seasons
    /\ Prices \subseteq Int /\ Budgets \subseteq Nat
    /\ \A w \in Starts :
          /\ w.closet \in [Ids -> Item] /\ w.rows \in Seq(Ids) /\ w.worn \subseteq Ids
          /\ \A j, k \in DOMAIN w.rows : w.rows[j] = w.rows[k] => j = k
          /\ {w.favorite, w.disliked} \subseteq SUBSET Colors /\ w.budget \in Nat
    /\ {MaxCandidates, MaxEdits} \subseteq Nat
    /\ {Canvas, Gutter} \subseteq Nat /\ Canvas > 4 * Gutter + 1

VARIABLES
    closet,     \* the columns of each item
    rows,       \* list_by_category: the active items, the newest first
    month,      \* today's
    worn,       \* recently_worn_ids
    favorite,   \* user_profile: favorite_colors
    disliked,   \* user_profile: disliked_colors
    budget,     \* user_profile: monthly_clothing_budget_usd
    edits       \* history: the edits so far

profile == <<favorite, disliked, budget>>
vars == <<closet, rows, month, worn, profile, edits>>

derive_season ==
    IF month \in {12, 1, 2} THEN "winter"
    ELSE IF month \in 3..5 THEN "spring"
    ELSE IF month \in 6..8 THEN "summer" ELSE "fall"

----------------------------------------------------------------------------
(* candidates.py *)

RoleOf == [tops |-> "top", bottoms |-> "bottom", dresses |-> "dress",
           outerwear |-> "outer", footwear |-> "footwear", accessories |-> "none"]

(* An item without seasons is for all of them. *)
MatchesSeason(i) == closet[i].seasons = {} \/ derive_season \in closet[i].seasons

Wearable(i, role) == RoleOf[closet[i].category] = role /\ MatchesSeason(i)

(* The n-th from above of a set of rows. *)
Nth(ks, n) == CHOOSE k \in ks : Cardinality({j \in ks : j <= k}) = n

(* The wearable items in the order of their rows. *)
Bucket(role) ==
    LET ks == {k \in DOMAIN rows : Wearable(rows[k], role)}
    IN  [n \in 1..Cardinality(ks) |-> rows[Nth(ks, n)]]

(* itertools.product: the last factor turns fastest. *)
product(s, t) ==
    [k \in 1..(Len(s) * Len(t)) |->
        <<s[((k - 1) \div Len(t)) + 1], t[((k - 1) % Len(t)) + 1]>>]

DressCombos ==
    LET c == product(Bucket("dress"), Bucket("footwear"))
    IN  [k \in DOMAIN c |-> [dress |-> c[k][1], footwear |-> c[k][2]]]

(* (((top, bottom), footwear), outer), the outer only if there is one. *)
PieceCombos ==
    LET p == product(product(Bucket("top"), Bucket("bottom")), Bucket("footwear"))
        c == product(p, Bucket("outer"))
    IN  IF Bucket("outer") = <<>>
        THEN [k \in DOMAIN p |->
                 [top |-> p[k][1][1], bottom |-> p[k][1][2], footwear |-> p[k][2]]]
        ELSE [k \in DOMAIN c |->
                 [top |-> c[k][1][1][1], bottom |-> c[k][1][1][2], footwear |-> c[k][1][2],
                  outer |-> c[k][2]]]

(* Mutant: pieced outfits first. *)
MutGenerateCandidates ==
    LET combos == PieceCombos \o DressCombos
    IN  SubSeq(combos, 1, IF Len(combos) < MaxCandidates THEN Len(combos) ELSE MaxCandidates)

(* Mutant: the walk starts at the back. *)
MutWalk ==
    LET combos == DressCombos \o PieceCombos
    IN  SubSeq(combos, IF Len(combos) < MaxCandidates THEN 1 ELSE Len(combos) - MaxCandidates + 1,
               Len(combos))

generate_candidates ==
    LET combos == DressCombos \o PieceCombos
    IN  SubSeq(combos, 1, IF Len(combos) < MaxCandidates THEN Len(combos) ELSE MaxCandidates)

----------------------------------------------------------------------------
(* score.py, in 48ths of a point: 12 \div n items is an integer, a tier is *)
(* a quarter of the ladder, and a budget is rounded down to a 48th.        *)

Size(o) == Cardinality(DOMAIN o)
Count(o, P(_)) == Cardinality({r \in DOMAIN o : P(o[r])})
Over(o, V(_)) ==
    LET At(r) == IF r \in DOMAIN o THEN V(o[r]) ELSE 0
    IN  At("top") + At("bottom") + At("outer") + At("footwear") + At("dress")

Share(o, points, count) == points * 4 * (12 \div Size(o)) * count

(* A favourite counts 1, a dislike 0, any other colour or none 1/2. *)
IsFavorite(i) == closet[i].color_primary \in favorite
IsDisliked(i) == ~IsFavorite(i) /\ closet[i].color_primary \in disliked
style_match(o) ==
    70 * (12 \div Size(o)) * (Size(o) + Count(o, IsFavorite) - Count(o, IsDisliked))

InSeasonNow(i) == derive_season \in closet[i].seasons
season_score(o) == Share(o, 15, Count(o, InSeasonNow))

Distance(f) == IF f < Target THEN Target - f ELSE f - Target
Closeness(i) ==
    IF Unknown \in {Target, closet[i].formality} THEN 2 ELSE 4 - Distance(closet[i].formality)
occasion_match(o) == 15 * (12 \div Size(o)) * Over(o, Closeness)

Price(i) == closet[i].price
budget_alignment(o) ==
    IF budget = NoBudget \/ Over(o, Price) <= budget THEN 480
    ELSE (480 * budget) \div Over(o, Price)

IsWorn(i) == i \in worn
duplicate_penalty(o) == Share(o, 25, Count(o, IsWorn))

(* The adapter leaves every embedding None: the cosine base is neutral. A  *)
(* list is compared as it was typed with the whole ids of the other pieces.*)
(* Mutant: the item itself is not taken out.                               *)
MutPartners(o, i) == {o[r] : r \in DOMAIN o}

Partners(o, i) == {o[r] : r \in DOMAIN o} \ {i}
Boost(o) == Cardinality({r \in DOMAIN o : closet[o[r]].pairs_well_with \cap Partners(o, o[r]) # {}})
Penalty(o) == Cardinality({r \in DOMAIN o : closet[o[r]].avoid_pairing_with \cap Partners(o, o[r]) # {}})

(* Mutant: only the bonus is capped. *)
MutClamp(k) == IF k > 10 THEN 10 ELSE k

Clamp(k) == IF k < 0 THEN 0 ELSE IF k > 10 THEN 10 ELSE k
compute_compatibility(o) == 120 * Clamp(5 + Boost(o) - 2 * Penalty(o))

score_outfit(o) ==
    style_match(o) + compute_compatibility(o) + season_score(o) + occasion_match(o)
        + budget_alignment(o) - duplicate_penalty(o)

----------------------------------------------------------------------------
(* collage.py *)

(* Mutant: a coat has the tile of the shoes. *)
MutLayoutPieced == [top |-> 0, bottom |-> 1, footwear |-> 2, outer |-> 2]

LayoutPieced == [top |-> 0, bottom |-> 1, footwear |-> 2, outer |-> 3]
LayoutDress == [dress |-> 0, footwear |-> 1]
Layout(o) == IF "dress" \in DOMAIN o THEN LayoutDress ELSE LayoutPieced

(* A role without a slot is not drawn, a slot without its role stays blank. *)
Drawn(o) == DOMAIN o \cap DOMAIN Layout(o)

SlotBox(slot) ==
    LET half == Canvas \div 2
        col == slot % 2
        row == slot \div 2
    IN  [x0 |-> col * half + Gutter, y0 |-> row * half + Gutter,
         x1 |-> (col + 1) * half - Gutter, y1 |-> (row + 1) * half - Gutter]

----------------------------------------------------------------------------
(* The steps: what the commands and the pushes change between two rankings. *)

Init ==
    /\ \E w \in Starts :
          /\ closet = w.closet /\ rows = w.rows /\ worn = w.worn
          /\ favorite = w.favorite /\ disliked = w.disliked /\ budget = w.budget
    /\ month = 2 /\ edits = 0

Edits == edits < MaxEdits /\ edits' = edits + 1

Active == {rows[k] : k \in DOMAIN rows}

(* handle_edit_item replaces one column of an item. A list is stored as it *)
(* was typed: a short id is looked up for the item to edit only.           *)
handle_edit_item(i) ==
    /\ Edits
    /\ \/ \E c \in Categories : closet' = [closet EXCEPT ![i].category = c]
       \/ \E c \in Colors : closet' = [closet EXCEPT ![i].color_primary = c]
       \/ \E f \in Tiers \cup {Unknown} : closet' = [closet EXCEPT ![i].formality = f]
       \/ \E l \in SeasonLists : closet' = [closet EXCEPT ![i].seasons = l]
       \/ \E p \in Prices : closet' = [closet EXCEPT ![i].price = p]
       \/ \E l \in Lists : closet' = [closet EXCEPT ![i].pairs_well_with = l]
       \/ \E l \in Lists : closet' = [closet EXCEPT ![i].avoid_pairing_with = l]
    /\ UNCHANGED <<rows, month, worn, profile>>

(* An item that is added is the newest row. *)
AddItem(i) ==
    /\ Edits
    /\ i \notin Active /\ rows' = <<i>> \o rows
    /\ UNCHANGED <<closet, month, worn, profile>>

(* Other items may go on naming it. *)
Forget(i) ==
    /\ Edits
    /\ \E k \in DOMAIN rows :
          rows[k] = i /\ rows' = SubSeq(rows, 1, k - 1) \o SubSeq(rows, k + 1, Len(rows))
    /\ UNCHANGED <<closet, month, worn, profile>>

(* A push saves one of the candidates, and a season may begin. *)
Push ==
    /\ Edits
    /\ LET c == generate_candidates
       IN  \E k \in DOMAIN c : worn' = worn \cup {c[k][r] : r \in DOMAIN c[k]}
    /\ month' \in {month, (month % 12) + 1}
    /\ UNCHANGED <<closet, rows, profile>>

(* An outfit leaves the history that is looked at. *)
Fade(i) ==
    /\ Edits
    /\ i \in worn /\ worn' = worn \ {i}
    /\ UNCHANGED <<closet, rows, month, profile>>

EditProfile ==
    /\ Edits
    /\ \/ \E c \in Colors : favorite' = favorite \cup {c} /\ UNCHANGED <<disliked, budget>>
       \/ \E c \in Colors : disliked' = disliked \cup {c} /\ UNCHANGED <<favorite, budget>>
       \/ \E b \in Budgets : budget' = b /\ UNCHANGED <<favorite, disliked>>
    /\ UNCHANGED <<closet, rows, month, worn>>

Next ==
    \/ \E i \in Ids : handle_edit_item(i) \/ AddItem(i) \/ Forget(i) \/ Fade(i)
    \/ Push \/ EditProfile

Spec == Init /\ [][Next]_vars

----------------------------------------------------------------------------
(* Properties. *)

(* What an outfit is: a dress or a top and a bottom, with shoes, and a coat *)
(* on the pieces when there is one for the season.                         *)
For(role) == {i \in Active : Wearable(i, role)}
DressOutfits == {[dress |-> d, footwear |-> f] : d \in For("dress"), f \in For("footwear")}
PieceOutfits ==
    IF For("outer") = {}
    THEN {[top |-> t, bottom |-> b, footwear |-> f] :
             t \in For("top"), b \in For("bottom"), f \in For("footwear")}
    ELSE {[top |-> t, bottom |-> b, footwear |-> f, outer |-> c] :
             t \in For("top"), b \in For("bottom"), f \in For("footwear"), c \in For("outer")}
Outfits == DressOutfits \cup PieceOutfits

(* Dresses first, then by the rows of their pieces, the top before all.    *)
Row(i) == CHOOSE k \in DOMAIN rows : rows[k] = i
Major == [dress |-> 1, top |-> 1, bottom |-> 2, footwear |-> 3, outer |-> 4]
Precedes(o, p) ==
    \/ "dress" \in DOMAIN o /\ "dress" \notin DOMAIN p
    \/ /\ DOMAIN o = DOMAIN p
       /\ \E r \in DOMAIN o :
             /\ Row(o[r]) < Row(p[r])
             /\ \A q \in DOMAIN o : Major[q] < Major[r] => o[q] = p[q]

(* The walk over the products, cut off at the cap, finds the outfits there *)
(* are, each of them once, and leaves out none that comes before another.  *)
CandidatesAreTheOutfits ==
    LET c == generate_candidates
        found == {c[k] : k \in DOMAIN c}
    IN  /\ found \subseteq Outfits
        /\ Len(c) = MaxCandidates \/ found = Outfits
        /\ \A j, k \in DOMAIN c : j < k => Precedes(c[j], c[k])
        /\ \A o \in Outfits \ found, k \in DOMAIN c : Precedes(c[k], o)

(* Each sub-score is in its unit interval, weighted, and the total lies in *)
(* [-25, 100], for every outfit and whatever the operator entered.         *)
ScoreInRange ==
    \A o \in Outfits :
        /\ style_match(o) \in 0..(35 * 48)
        /\ compute_compatibility(o) \in 0..(25 * 48)
        /\ season_score(o) \in 0..(15 * 48)
        /\ occasion_match(o) \in 0..(15 * 48)
        /\ budget_alignment(o) \in 0..(10 * 48)
        /\ duplicate_penalty(o) \in 0..(25 * 48)
        /\ score_outfit(o) \in (-25 * 48)..(100 * 48)

(* An affinity, a favourite, a season or a budget that is added, a clash,  *)
(* a dislike or a price that is taken off: nothing speaks against an outfit *)
(* that did not before, and whatever spoke for it still does.              *)
Kinder(a, b) ==
    /\ a.formality = b.formality /\ a.color_primary = b.color_primary
    /\ a.seasons \subseteq b.seasons /\ b.price <= a.price
    /\ a.pairs_well_with \subseteq b.pairs_well_with
    /\ b.avoid_pairing_with \subseteq a.avoid_pairing_with

Milder ==
    /\ derive_season' = derive_season
    /\ \A i \in Ids : Kinder(closet[i], closet'[i])
    /\ worn' \subseteq worn
    /\ favorite \subseteq favorite' /\ disliked' \subseteq disliked
    /\ budget' = budget \/ budget \in 1..budget'
Harsher ==
    /\ derive_season' = derive_season
    /\ \A i \in Ids : Kinder(closet'[i], closet[i])
    /\ worn \subseteq worn'
    /\ favorite' \subseteq favorite /\ disliked \subseteq disliked'
    /\ budget' = budget \/ budget' \in 1..budget

(* Item i gets other lists, and nothing else changes. *)
Curates(i) ==
    /\ closet' = [closet EXCEPT ![i].pairs_well_with = closet'[i].pairs_well_with,
                               ![i].avoid_pairing_with = closet'[i].avoid_pairing_with]
    /\ UNCHANGED <<rows, month, worn, profile>>

(* A list of i names, by its whole id, a piece that i is worn with in o.   *)
Names(l, i, o) == \E q, r \in DOMAIN o : o[q] = i /\ o[r] # i /\ o[r] \in l

(* Clashes of three pieces use up the compatibility. *)
Spent(o) ==
    /\ compute_compatibility(o) = 0
    /\ Cardinality({r \in DOMAIN o : Names(closet[o[r]].avoid_pairing_with, o[r], o)}) >= 3

(* A list that comes to name a piece moves the score of the outfit, by 2.5 *)
(* points up for an affinity and by 5 down for a clash, as far as clashes  *)
(* leave any, and by nothing otherwise: it does not count for an item that *)
(* is not worn with its own, for that item itself, or for a short id.      *)
ListsCount(i, o) ==
    LET liked   == Names(closet[i].pairs_well_with, i, o)
        likes   == Names(closet'[i].pairs_well_with, i, o)
        clashed == Names(closet[i].avoid_pairing_with, i, o)
        clashes == Names(closet'[i].avoid_pairing_with, i, o)
        gain    == score_outfit(o)' - score_outfit(o)
    IN  /\ liked = likes /\ clashed = clashes => gain = 0
        /\ ~liked /\ likes /\ clashed = clashes => gain = 120 \/ (Spent(o)' /\ gain = 0)
        /\ liked = likes /\ ~clashed /\ clashes =>
              gain = -240 \/ (Spent(o)' /\ gain \in -239..0)

(* After a milder edit no outfit scores lower than before, and after the   *)
(* contrary none scores higher; who is added to or forgotten from the      *)
(* wardrobe changes no score of the others; and curated lists move exactly *)
(* the outfits they name, neither ignored nor counted where they do not    *)
(* apply (score.py, compatibility.py:137-148 on what items.py:245 stores). *)
EditsActAsMeant ==
    [][/\ Milder => \A o \in Outfits : o \in Outfits' => score_outfit(o)' >= score_outfit(o)
       /\ Harsher => \A o \in Outfits : o \in Outfits' => score_outfit(o)' <= score_outfit(o)
       /\ \A i \in Ids : Curates(i) => \A o \in Outfits : ListsCount(i, o)
      ]_vars

(* An item that is forgotten takes no candidate along that does without it: *)
(* for all the cap, and a last coat that makes room for outfits without one. *)
ForgettingKeepsTheRest ==
    [][(\E i \in Ids : Forget(i)) =>
          LET before == generate_candidates
              after == generate_candidates'
              outfits == Outfits'
          IN  \A k \in DOMAIN before :
                  before[k] \in outfits => \E m \in DOMAIN after : m <= k /\ after[m] = before[k]
      ]_vars

(* The layout has a tile for every piece that the generator puts in an     *)
(* outfit; tiles of one outfit lie on the canvas and not on each other.    *)
Apart(a, b) == a.x1 <= b.x0 \/ b.x1 <= a.x0 \/ a.y1 <= b.y0 \/ b.y1 <= a.y0
EveryPieceIsDrawn ==
    \A o \in Outfits :
        /\ Drawn(o) = DOMAIN o
        /\ \A r \in Drawn(o) :
              LET box == SlotBox(Layout(o)[r])
              IN  /\ 0 <= box.x0 /\ box.x0 < box.x1 /\ box.x1 <= Canvas
                  /\ 0 <= box.y0 /\ box.y0 < box.y1 /\ box.y1 <= Canvas
        /\ \A q, r \in Drawn(o) :
              q # r => Apart(SlotBox(Layout(o)[q]), SlotBox(Layout(o)[r]))
=============================================================================
