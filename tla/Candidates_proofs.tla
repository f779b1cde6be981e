-------------------------- MODULE Candidates_proofs --------------------------
(***************************************************************************)
(* The candidates of Outfits are the outfits, in their order and up to the *)
(* cap, for any wardrobe and any cap.  A bucket lists the rows of a role   *)
(* from above, a product of two listings lists the pairs lexicographically, *)
(* the chain of both paths lists the outfits; a cut-off listing leaves out *)
(* nothing that comes before what it keeps.  Who is listed before and      *)
(* after an item is forgotten has no more listed ahead of it afterwards.   *)
(***************************************************************************)
EXTENDS Outfits_proofs, WellFoundedInduction

LEMMA LessThanIsWellFounded ==
    IsWellFoundedOn({ss \in Nat \X Nat : ss[1] < ss[2]}, Nat)
BY NatLessThanWellFounded DEF OpToRel

LEMMA LeastNatural ==
    ASSUME NEW S \in SUBSET Nat, S # {}
    PROVE  \E m \in S : \A k \in S : m <= k
<1> DEFINE R == {ss \in Nat \X Nat : ss[1] < ss[2]}
<1>1. IsWellFoundedOn(R, Nat)
  BY LessThanIsWellFounded
<1> HIDE DEF R
<1>2. PICK m \in S : \A k \in S : <<k, m>> \notin R
  BY <1>1, WFMin
<1>3. \A k \in S : k < m => <<k, m>> \in R
  BY DEF R
<1>4. \A k \in S : m <= k
  <2> TAKE k \in S
  <2>1. m \in Nat /\ k \in Nat /\ ~(k < m)
    BY <1>2, <1>3
  <2> QED
    BY <2>1
<1> QED
  BY <1>4

----------------------------------------------------------------------------
(* The n-th row of a set of rows.                                           *)

Upto(K, k) == {j \in K : j <= k}
Rank(K, k) == Cardinality(Upto(K, k))

LEMMA RankRange ==
    ASSUME NEW K \in SUBSET Nat, IsFiniteSet(K), NEW k \in K
    PROVE  /\ IsFiniteSet(Upto(K, k)) /\ Rank(K, k) \in Nat /\ Cardinality(K) \in Nat
           /\ Rank(K, k) \in 1..Cardinality(K)
<1>1. Upto(K, k) \in SUBSET K /\ k \in Upto(K, k)
  BY DEF Upto
<1>2. IsFiniteSet(Upto(K, k)) /\ Cardinality(Upto(K, k)) <= Cardinality(K)
  BY <1>1, FS_Subset
<1>3. Cardinality(K) \in Nat /\ Cardinality(Upto(K, k)) \in Nat
  BY <1>2, FS_CardinalityType
<1>4. Cardinality(Upto(K, k)) # 0
  BY <1>1, <1>2, FS_EmptySet
<1> QED
  BY <1>2, <1>3, <1>4 DEF Rank

LEMMA RankMono ==
    ASSUME NEW K \in SUBSET Nat, IsFiniteSet(K), NEW k \in K, NEW m \in K, k < m
    PROVE  Rank(K, k) < Rank(K, m)
<1>0. \A x \in K : x \in Int
  OBVIOUS
<1>1. m \notin Upto(K, k) /\ \A x \in Upto(K, k) \cup {m} : x \in Upto(K, m)
  BY <1>0 DEF Upto
<1>2. IsFiniteSet(Upto(K, k)) /\ IsFiniteSet(Upto(K, m))
      /\ Rank(K, k) \in Nat /\ Rank(K, m) \in Nat
  BY RankRange
<1>3. Cardinality(Upto(K, k) \cup {m}) = Rank(K, k) + 1
  BY <1>1, <1>2, FS_AddElement DEF Rank
<1>4. Cardinality(Upto(K, k) \cup {m}) <= Rank(K, m)
  BY <1>1, <1>2, FS_Subset DEF Rank
<1> QED
  BY <1>2, <1>3, <1>4

\* The next row after one of a rank has the next rank.
LEMMA RankNext ==
    ASSUME NEW K \in SUBSET Nat, IsFiniteSet(K), NEW k \in K, Rank(K, k) < Cardinality(K)
    PROVE  \E m \in K : Rank(K, m) = Rank(K, k) + 1
<1> DEFINE Rest == {j \in K : k < j}
<1>0. \A x \in K : x \in Int
  OBVIOUS
<1>1. Rest # {}
  <2>1. Upto(K, k) # K
    BY RankRange DEF Rank
  <2>2. Upto(K, k) \subseteq K
    BY DEF Upto
  <2>3. PICK x \in K : x \notin Upto(K, k)
    BY <2>1, <2>2
  <2>4. x \in Int /\ k \in Int /\ ~(x <= k)
    BY <1>0, <2>3 DEF Upto
  <2> QED
    BY <2>4
<1>2. PICK m \in Rest : \A j \in Rest : m <= j
  BY <1>1, LeastNatural
<1>3. \A x \in K : x <= m <=> (x <= k \/ x = m)
  <2> TAKE x \in K
  <2>1. x \in Int /\ k \in Int /\ m \in Int /\ k < m /\ m \in K
    BY <1>0, <1>2
  <2>2. k < x => m <= x
    BY <1>2
  <2> QED
    BY <2>1, <2>2
<1>4. Upto(K, m) = Upto(K, k) \cup {m}
  BY <1>2, <1>3 DEF Upto
<1>5. m \notin Upto(K, k)
  BY <1>0, <1>2 DEF Upto
<1>6. Rank(K, m) = Rank(K, k) + 1
  BY <1>4, <1>5, RankRange, FS_AddElement DEF Rank
<1> QED
  BY <1>2, <1>6

LEMMA RankFirst ==
    ASSUME NEW K \in SUBSET Nat, IsFiniteSet(K), K # {}
    PROVE  \E m \in K : Rank(K, m) = 1
<1>0. \A x \in K : x \in Int
  OBVIOUS
<1>1. PICK m \in K : \A j \in K : m <= j
  BY LeastNatural
<1>2. Upto(K, m) = {m}
  <2>1. \A x \in K : x <= m <=> x = m
    BY <1>0, <1>1
  <2> QED
    BY <1>1, <2>1 DEF Upto
<1> QED
  BY <1>2, FS_Singleton DEF Rank

LEMMA RankOnto ==
    ASSUME NEW K \in SUBSET Nat, IsFiniteSet(K), NEW n \in 1..Cardinality(K)
    PROVE  \E k \in K : Rank(K, k) = n
<1>0. Cardinality(K) \in Nat /\ K # {}
  BY FS_CardinalityType, FS_EmptySet
<1> DEFINE Missed == {i \in 1..Cardinality(K) : \A k \in K : Rank(K, k) # i}
<1>1. SUFFICES ASSUME Missed # {} PROVE FALSE
  OBVIOUS
<1>2. PICK i \in Missed : \A j \in Missed : i <= j
  <2>1. Missed \in SUBSET Nat
    BY <1>0
  <2> HIDE DEF Missed
  <2> QED
    BY <2>1, <1>1, LeastNatural
<1>3. i # 1
  BY <1>0, <1>2, RankFirst
<1>4. i - 1 \in 1..Cardinality(K) /\ i - 1 \notin Missed
  BY <1>0, <1>2, <1>3
<1>5. PICK k \in K : Rank(K, k) = i - 1
  BY <1>4
<1>6. \E m \in K : Rank(K, m) = i
  BY <1>0, <1>2, <1>4, <1>5, RankNext
<1> QED
  BY <1>2, <1>6

LEMMA NthFacts ==
    ASSUME NEW K \in SUBSET Nat, IsFiniteSet(K), NEW n \in 1..Cardinality(K)
    PROVE  Nth(K, n) \in K /\ Rank(K, Nth(K, n)) = n
BY RankOnto DEF Nth, Rank, Upto

----------------------------------------------------------------------------
(* Listings, products and buckets.                                          *)

\* q lists the elements of S, each pair of them in the order B.
Listing(q, S, B) ==
    /\ q \in Seq(S)
    /\ \A x \in S : \E k \in DOMAIN q : q[k] = x
    /\ \A j, k \in DOMAIN q : j < k => <<q[j], q[k]>> \in B

LEMMA Tabled ==
    ASSUME NEW S, NEW n \in Nat, NEW q \in [1..n -> S]
    PROVE  q \in Seq(S) /\ Len(q) = n /\ DOMAIN q = 1..n
OBVIOUS

Lex(S, T, B, C) ==
    {w \in (S \X T) \X (S \X T) :
        \/ <<w[1][1], w[2][1]>> \in B
        \/ w[1][1] = w[2][1] /\ <<w[1][2], w[2][2]>> \in C}

LEMMA DivModNamed ==
    ASSUME NEW n \in Nat, n > 0, NEW m \in Nat,
           NEW e \in Int, e = m \div n, NEW f \in Int, f = m % n
    PROVE  e >= 0 /\ f \in 0..(n - 1) /\ m = n * e + f
<1>1. e >= 0 /\ f \in 0..(n - 1)
  OBVIOUS
<1>2. m = n * e + f
  OBVIOUS
<1> QED
  BY <1>1, <1>2

LEMMA DivMod ==
    ASSUME NEW n \in Nat \ {0}, NEW m \in Nat
    PROVE  \E e \in Nat, f \in 0..(n - 1) : e = m \div n /\ f = m % n /\ m = n * e + f
<1>1. n \in Nat /\ n > 0
  OBVIOUS
<1>2. PICK e \in Int, f \in Int : e = m \div n /\ f = m % n
  BY <1>1
<1>3. e >= 0 /\ f \in 0..(n - 1) /\ m = n * e + f
  BY <1>1, <1>2, DivModNamed
<1>4. e \in Nat
  BY <1>3
<1> QED
  BY <1>2, <1>3, <1>4, Zenon

LEMMA Digits ==
    ASSUME NEW n \in Nat \ {0}, NEW a \in Nat, NEW m \in 0..(a * n - 1)
    PROVE  \E d \in 0..(a - 1), r \in 0..(n - 1) :
              d = m \div n /\ r = m % n /\ m = n * d + r
<1>0. m \in Nat /\ m < a * n
  OBVIOUS
<1>1. PICK d \in Nat, r \in 0..(n - 1) : d = m \div n /\ r = m % n /\ m = n * d + r
  BY <1>0, DivMod
<1>2. n * d < a * n
  BY <1>0, <1>1
<1>3. ~(d >= a)
  <2>1. d >= a => n * d >= a * n
    OBVIOUS
  <2> QED
    BY <1>2, <2>1
<1>4. d \in 0..(a - 1)
  BY <1>3
<1> QED
  BY <1>1, <1>4

LEMMA Compose ==
    ASSUME NEW n \in Nat \ {0}, NEW a \in Nat, NEW d \in 0..(a - 1), NEW r \in 0..(n - 1)
    PROVE  /\ d * n + r \in 0..(a * n - 1)
           /\ (d * n + r) \div n = d /\ (d * n + r) % n = r
<1>1. (d + 1) * n <= a * n
  OBVIOUS
<1>2. (d + 1) * n = d * n + n
  OBVIOUS
<1>3. d * n \in Nat
  OBVIOUS
<1>4. d * n + r \in 0..(a * n - 1)
  BY <1>1, <1>2, <1>3
<1>5. PICK m \in Nat : m = d * n + r
  BY <1>3
<1>6. PICK e \in Nat : e = m \div n
  OBVIOUS
<1>7. PICK f \in 0..(n - 1) : f = m % n /\ m = n * e + f
  BY <1>6
<1>8. ~(e < d)
  <2>1. e < d => (e + 1) * n <= d * n
    OBVIOUS
  <2>2. (e + 1) * n = n * e + n
    OBVIOUS
  <2> QED
    BY <1>5, <1>7, <2>1, <2>2
<1>9. ~(d < e)
  <2>1. d < e => (d + 1) * n <= e * n
    OBVIOUS
  <2> QED
    BY <1>2, <1>5, <1>7, <2>1
<1>10. e = d
  BY <1>8, <1>9
<1> QED
  BY <1>4, <1>5, <1>6, <1>7, <1>10

LEMMA ProductListing ==
    ASSUME NEW S, NEW T, NEW B, NEW C, NEW s, NEW t, Listing(s, S, B), Listing(t, T, C)
    PROVE  Listing(product(s, t), S \X T, Lex(S, T, B, C))
<1>1. s \in Seq(S) /\ t \in Seq(T)
  BY DEF Listing
<1>2. PICK a \in Nat : a = Len(s) /\ DOMAIN s = 1..a /\ \A k \in 1..a : s[k] \in S
  BY <1>1
<1>3. PICK n \in Nat : n = Len(t) /\ DOMAIN t = 1..n /\ \A k \in 1..n : t[k] \in T
  BY <1>1
<1>4. PICK w \in Nat : w = a * n
  OBVIOUS
<1>5. product(s, t) = [k \in 1..w |-> <<s[((k - 1) \div n) + 1], t[((k - 1) % n) + 1]>>]
  BY <1>2, <1>3, <1>4 DEF product
<1>6. ASSUME NEW k \in 1..w
      PROVE  \E d \in 0..(a - 1), r \in 0..(n - 1) :
                /\ d = (k - 1) \div n /\ r = (k - 1) % n
                /\ k - 1 = n * d + r
  <2>1. n # 0
    BY <1>4
  <2>2. PICK m \in 0..(a * n - 1) : m = k - 1
    BY <1>4
  <2>3. n \in Nat \ {0}
    BY <2>1
  <2>4. PICK d \in 0..(a - 1), r \in 0..(n - 1) :
           d = m \div n /\ r = m % n /\ m = n * d + r
    BY <2>3, Digits
  <2> QED
    BY <2>2, <2>4
<1>7. product(s, t) \in [1..w -> S \X T]
  <2>1. ASSUME NEW k \in 1..w
        PROVE  <<s[((k - 1) \div n) + 1], t[((k - 1) % n) + 1]>> \in S \X T
    <3>1. PICK d \in 0..(a - 1), r \in 0..(n - 1) : d = (k - 1) \div n /\ r = (k - 1) % n
      BY <1>6
    <3>2. d + 1 \in 1..a /\ r + 1 \in 1..n
      OBVIOUS
    <3> QED
      BY <3>1, <3>2, <1>2, <1>3
  <2> QED
    BY <2>1, <1>5
<1>8. product(s, t) \in Seq(S \X T) /\ DOMAIN product(s, t) = 1..w
  BY <1>7, Tabled
<1>9. ASSUME NEW x \in S \X T
      PROVE  \E k \in 1..w : product(s, t)[k] = x
  <2>1. PICK i \in 1..a, j \in 1..n : s[i] = x[1] /\ t[j] = x[2]
    BY <1>2, <1>3 DEF Listing
  <2>2. PICK d \in 0..(a - 1), r \in 0..(n - 1) : i = d + 1 /\ j = r + 1
    <3>1. i - 1 \in 0..(a - 1) /\ j - 1 \in 0..(n - 1) /\ i = (i - 1) + 1 /\ j = (j - 1) + 1
      OBVIOUS
    <3> QED
      BY <3>1
  <2>3. d * n + r \in 0..(a * n - 1) /\ (d * n + r) \div n = d /\ (d * n + r) % n = r
    BY <2>2, Compose
  <2>4. PICK k \in 1..w : k - 1 = d * n + r
    <3>1. d * n + r + 1 \in 1..w /\ (d * n + r + 1) - 1 = d * n + r
      BY <1>4, <2>3
    <3> QED
      BY <3>1
  <2>5. product(s, t)[k] = <<s[d + 1], t[r + 1]>>
    BY <1>5, <2>3, <2>4
  <2> QED
    BY <2>1, <2>2, <2>5
<1>10. ASSUME NEW j \in 1..w, NEW k \in 1..w, j < k
       PROVE  <<product(s, t)[j], product(s, t)[k]>> \in Lex(S, T, B, C)
  <2>1. PICK dj \in 0..(a - 1), rj \in 0..(n - 1) :
           /\ dj = (j - 1) \div n /\ rj = (j - 1) % n /\ j - 1 = n * dj + rj
    BY <1>6
  <2>2. PICK dk \in 0..(a - 1), rk \in 0..(n - 1) :
           /\ dk = (k - 1) \div n /\ rk = (k - 1) % n /\ k - 1 = n * dk + rk
    BY <1>6
  <2>3. product(s, t)[j] = <<s[dj + 1], t[rj + 1]>> /\ product(s, t)[k] = <<s[dk + 1], t[rk + 1]>>
    BY <1>5, <2>1, <2>2
  <2>4. PICK pj \in Nat, pk \in Nat : pj = n * dj /\ pk = n * dk
    OBVIOUS
  <2>5. dj < dk \/ (dj = dk /\ rj < rk)
    <3>1. dk < dj => pk + n <= pj
      <4>1. dk < dj => n * (dk + 1) <= n * dj
        OBVIOUS
      <4>2. n * (dk + 1) = n * dk + n
        OBVIOUS
      <4> QED
        BY <2>4, <4>1, <4>2
    <3>2. j - 1 = pj + rj /\ k - 1 = pk + rk
      BY <2>1, <2>2, <2>4
    <3>3. dj = dk => pj = pk
      BY <2>4
    <3>4. /\ j \in Int /\ k \in Int /\ rj \in 0..(n - 1) /\ rk \in 0..(n - 1)
          /\ dj \in Int /\ dk \in Int
      OBVIOUS
    <3> HIDE <2>4
    <3> QED
      BY <1>10, <3>1, <3>2, <3>3, <3>4
  <2>6. dj < dk => <<s[dj + 1], s[dk + 1]>> \in B
    <3>1. dj + 1 \in DOMAIN s /\ dk + 1 \in DOMAIN s /\ (dj < dk => dj + 1 < dk + 1)
      BY <1>2
    <3> QED
      BY <3>1 DEF Listing
  <2>7. rj < rk => <<t[rj + 1], t[rk + 1]>> \in C
    <3>1. rj + 1 \in DOMAIN t /\ rk + 1 \in DOMAIN t /\ (rj < rk => rj + 1 < rk + 1)
      BY <1>3
    <3> QED
      BY <3>1 DEF Listing
  <2>8. product(s, t)[j] \in S \X T /\ product(s, t)[k] \in S \X T
    BY <1>7
  <2> QED
    BY <2>3, <2>5, <2>6, <2>7, <2>8 DEF Lex
<1> QED
  BY <1>8, <1>9, <1>10 DEF Listing

\* A listing of the images, when the map keeps the order and leaves out none.
LEMMA ImageListing ==
    ASSUME NEW c, NEW S, NEW B, Listing(c, S, B), NEW T, NEW D, NEW F \in [S -> T],
           \A y \in T : \E x \in S : F[x] = y,
           \A x, y \in S : <<x, y>> \in B => <<F[x], F[y]>> \in D
    PROVE  Listing([k \in DOMAIN c |-> F[c[k]]], T, D)
<1>1. PICK n \in Nat : n = Len(c) /\ DOMAIN c = 1..n /\ \A k \in 1..n : c[k] \in S
  BY DEF Listing
<1> DEFINE f == [k \in DOMAIN c |-> F[c[k]]]
<1>2. f \in [1..n -> T]
  BY <1>1
<1>3. f \in Seq(T) /\ DOMAIN f = 1..n
  BY <1>2, Tabled
<1>4. ASSUME NEW y \in T PROVE \E k \in 1..n : f[k] = y
  <2>1. PICK x \in S : F[x] = y
    OBVIOUS
  <2>2. PICK k \in 1..n : c[k] = x
    BY <1>1 DEF Listing
  <2> QED
    BY <1>1, <2>1, <2>2
<1>5. ASSUME NEW j \in 1..n, NEW k \in 1..n, j < k PROVE <<f[j], f[k]>> \in D
  <2>1. <<c[j], c[k]>> \in B
    BY <1>1, <1>5 DEF Listing
  <2> QED
    BY <1>1, <2>1
<1> HIDE DEF f
<1>6. Listing(f, T, D)
  BY <1>3, <1>4, <1>5 DEF Listing
<1> QED
  BY <1>6 DEF f

\* Two listings one after the other.
LEMMA ChainListing ==
    ASSUME NEW a, NEW S, NEW B, Listing(a, S, B), NEW b, NEW T, NEW C, Listing(b, T, C),
           NEW D, B \subseteq D, C \subseteq D, S \X T \subseteq D
    PROVE  Listing(a \o b, S \cup T, D)
<1>1. PICK m \in Nat : m = Len(a) /\ DOMAIN a = 1..m /\ \A k \in 1..m : a[k] \in S
  BY DEF Listing
<1>2. PICK n \in Nat : n = Len(b) /\ DOMAIN b = 1..n /\ \A k \in 1..n : b[k] \in T
  BY DEF Listing
<1>3. a \in Seq(S \cup T) /\ b \in Seq(S \cup T)
  BY DEF Listing
<1>4. a \o b \in Seq(S \cup T) /\ Len(a \o b) = m + n /\ DOMAIN (a \o b) = 1..(m + n)
  BY <1>1, <1>2, <1>3
<1>5. \A k \in 1..(m + n) : (a \o b)[k] = IF k <= m THEN a[k] ELSE b[k - m]
  BY <1>1, <1>2, <1>3
<1>6. ASSUME NEW x \in S \cup T PROVE \E k \in 1..(m + n) : (a \o b)[k] = x
  <2>1. CASE x \in S
    <3>1. PICK k \in 1..m : a[k] = x
      BY <1>1, <2>1 DEF Listing
    <3>2. k \in 1..(m + n) /\ k <= m
      OBVIOUS
    <3> QED
      BY <1>5, <3>1, <3>2
  <2>2. CASE x \in T
    <3>1. PICK k \in 1..n : b[k] = x
      BY <1>2, <2>2 DEF Listing
    <3>2. m + k \in 1..(m + n) /\ ~(m + k <= m) /\ (m + k) - m = k
      OBVIOUS
    <3> QED
      BY <1>5, <3>1, <3>2
  <2> QED
    BY <2>1, <2>2
<1>7. ASSUME NEW j \in 1..(m + n), NEW k \in 1..(m + n), j < k
      PROVE  <<(a \o b)[j], (a \o b)[k]>> \in D
  <2>1. CASE k <= m
    <3>1. j \in 1..m /\ k \in 1..m
      BY <1>7, <2>1
    <3>2. <<a[j], a[k]>> \in B
      BY <1>1, <1>7, <3>1 DEF Listing
    <3>3. (a \o b)[j] = a[j]
      BY <1>1, <1>3, <3>1
    <3>4. (a \o b)[k] = a[k]
      BY <1>1, <1>3, <3>1
    <3> QED
      BY <3>2, <3>3, <3>4
  <2>2. CASE j <= m /\ ~(k <= m)
    <3>1. j \in 1..m /\ k - m \in 1..n
      BY <2>2
    <3>2. a[j] \in S /\ b[k - m] \in T
      BY <1>1, <1>2, <3>1
    <3> QED
      BY <1>5, <2>2, <3>2
  <2>3. CASE ~(j <= m)
    <3>1. j - m \in 1..n /\ k - m \in 1..n /\ j - m < k - m /\ ~(k <= m)
      BY <1>7, <2>3
    <3>2. <<b[j - m], b[k - m]>> \in C
      BY <1>2, <3>1 DEF Listing
    <3> QED
      BY <1>5, <2>3, <3>1, <3>2
  <2> QED
    BY <2>1, <2>2, <2>3
<1> QED
  BY <1>4, <1>6, <1>7 DEF Listing

----------------------------------------------------------------------------
(* The wardrobe.                                                            *)

Distinct == \A j, k \in DOMAIN rows : rows[j] = rows[k] => j = k
RowOrder == {w \in Ids \X Ids : Row(w[1]) < Row(w[2])}

LEMMA RowFacts ==
    ASSUME Typed, Distinct, NEW k \in DOMAIN rows
    PROVE  Row(rows[k]) = k
BY DEF Row, Distinct

LEMMA BucketListing ==
    ASSUME Typed, Distinct, NEW role
    PROVE  Listing(Bucket(role), For(role), RowOrder)
<1> DEFINE K == {k \in DOMAIN rows : Wearable(rows[k], role)}
<1>1. DOMAIN rows = 1..Len(rows) /\ Len(rows) \in Nat /\ \A k \in DOMAIN rows : rows[k] \in Ids
  BY DEF Typed
<1>2. K \in SUBSET (1..Len(rows)) /\ K \in SUBSET Nat
  BY <1>1
<1>3. IsFiniteSet(K)
  <2>1. PICK l \in Nat : l = Len(rows)
    BY <1>1
  <2>2. IsFiniteSet(1..l)
    BY FS_Interval
  <2> QED
    BY <1>2, <2>1, <2>2, FS_Subset
<1>4. PICK n \in Nat : n = Cardinality(K)
  BY <1>3, FS_CardinalityType
<1>5. \A k \in K : k \in DOMAIN rows /\ rows[k] \in For(role)
  BY DEF For, Active
<1>6. \A i \in For(role) : \E k \in K : rows[k] = i
  BY DEF For, Active
<1>7. Bucket(role) = [i \in 1..n |-> rows[Nth(K, i)]]
  BY <1>4 DEF Bucket
<1> HIDE DEF K
<1>8. \A i \in 1..n : Nth(K, i) \in K /\ Rank(K, Nth(K, i)) = i
  BY <1>2, <1>3, <1>4, NthFacts
<1>9. Bucket(role) \in [1..n -> For(role)]
  BY <1>5, <1>7, <1>8
<1>10. Bucket(role) \in Seq(For(role)) /\ DOMAIN Bucket(role) = 1..n
  BY <1>9, Tabled
<1>11. ASSUME NEW j \in 1..n, NEW k \in 1..n, j < k
       PROVE  <<Bucket(role)[j], Bucket(role)[k]>> \in RowOrder
  <2>1. PICK p \in K, q \in K : p = Nth(K, j) /\ q = Nth(K, k)
    BY <1>8
  <2>2. Rank(K, p) = j /\ Rank(K, q) = k /\ p \in Nat /\ q \in Nat
    BY <1>2, <1>8, <2>1
  <2>3. p < q
    <3>1. q < p => Rank(K, q) < Rank(K, p)
      BY <1>2, <1>3, RankMono
    <3>2. p # q
      BY <1>11, <2>2
    <3> QED
      BY <1>11, <2>2, <3>1, <3>2
  <2>4. Row(rows[p]) = p /\ Row(rows[q]) = q
    BY <1>5, RowFacts
  <2>5. rows[p] \in Ids /\ rows[q] \in Ids
    BY <1>1, <1>5
  <2> QED
    BY <1>7, <2>1, <2>3, <2>4, <2>5 DEF RowOrder
<1>12. ASSUME NEW i \in For(role) PROVE \E k \in 1..n : Bucket(role)[k] = i
  <2>1. PICK p \in K : rows[p] = i
    BY <1>6
  <2>2. PICK k \in 1..n : k = Rank(K, p)
    BY <1>2, <1>3, <1>4, RankRange
  <2>3. PICK q \in K : q = Nth(K, k) /\ Rank(K, q) = k
    BY <1>8
  <2>4. q = p
    <3>1. p \in Nat /\ q \in Nat /\ k \in Nat
      BY <1>2
    <3>2. p < q => Rank(K, p) < Rank(K, q)
      BY <1>2, <1>3, RankMono
    <3>3. q < p => Rank(K, q) < Rank(K, p)
      BY <1>2, <1>3, RankMono
    <3> QED
      BY <2>2, <2>3, <3>1, <3>2, <3>3
  <2> QED
    BY <1>7, <2>1, <2>3, <2>4
<1> QED
  BY <1>10, <1>11, <1>12 DEF Listing

----------------------------------------------------------------------------
(* The two paths and their chain.                                           *)

Before == {w \in Outfits \X Outfits : Precedes(w[1], w[2])}

LEMMA DressOrder ==
    ASSUME NEW d, NEW f, NEW e, NEW g,
           Row(d) < Row(e) \/ (d = e /\ Row(f) < Row(g))
    PROVE  Precedes([dress |-> d, footwear |-> f], [dress |-> e, footwear |-> g])
<1> DEFINE o == [dress |-> d, footwear |-> f]
           p == [dress |-> e, footwear |-> g]
<1>1. DOMAIN o = {"dress", "footwear"} /\ DOMAIN p = {"dress", "footwear"}
  OBVIOUS
<1>2. CASE Row(d) < Row(e)
  <2>1. "dress" \in DOMAIN o /\ Row(o["dress"]) < Row(p["dress"])
    BY <1>2
  <2>2. \A q \in DOMAIN o : ~(Major[q] < Major["dress"])
    BY <1>1 DEF Major
  <2> QED
    BY <1>1, <2>1, <2>2 DEF Precedes
<1>3. CASE d = e /\ Row(f) < Row(g)
  <2>1. "footwear" \in DOMAIN o /\ Row(o["footwear"]) < Row(p["footwear"])
    BY <1>3
  <2>2. \A q \in DOMAIN o : Major[q] < Major["footwear"] => o[q] = p[q]
    BY <1>1, <1>3 DEF Major
  <2> QED
    BY <1>1, <2>1, <2>2 DEF Precedes
<1> QED
  BY <1>2, <1>3

LEMMA DressListing ==
    ASSUME Typed, Distinct
    PROVE  Listing(DressCombos, DressOutfits, Before)
<1> DEFINE c == product(Bucket("dress"), Bucket("footwear"))
           S == For("dress") \X For("footwear")
           B == Lex(For("dress"), For("footwear"), RowOrder, RowOrder)
           F == [x \in S |-> [dress |-> x[1], footwear |-> x[2]]]
<1>1. Listing(c, S, B)
  BY BucketListing, ProductListing
<1>2. F \in [S -> DressOutfits]
  BY DEF DressOutfits
<1>3. \A y \in DressOutfits : \E x \in S : F[x] = y
  <2> TAKE y \in DressOutfits
  <2>1. PICK d \in For("dress"), f \in For("footwear") : y = [dress |-> d, footwear |-> f]
    BY DEF DressOutfits
  <2>2. <<d, f>> \in S /\ F[<<d, f>>] = y
    BY <2>1
  <2> QED
    BY <2>2
<1>4. \A x, y \in S : <<x, y>> \in B => <<F[x], F[y]>> \in Before
  <2> TAKE x, y \in S
  <2> HAVE <<x, y>> \in B
  <2>1. PICK d, e \in For("dress"), f, g \in For("footwear") : x = <<d, f>> /\ y = <<e, g>>
    OBVIOUS
  <2>2. Row(d) < Row(e) \/ (d = e /\ Row(f) < Row(g))
    BY <2>1 DEF Lex, RowOrder
  <2>3. F[x] = [dress |-> d, footwear |-> f] /\ F[y] = [dress |-> e, footwear |-> g]
    BY <2>1
  <2>4. F[x] \in Outfits /\ F[y] \in Outfits
    BY <1>2 DEF Outfits
  <2>5. Precedes(F[x], F[y])
    BY <2>2, <2>3, DressOrder
  <2> QED
    BY <2>4, <2>5 DEF Before
<1>5. DressCombos = [k \in DOMAIN c |-> F[c[k]]]
  <2>1. \A k \in DOMAIN c : c[k] \in S
    BY <1>1 DEF Listing
  <2>2. \A k \in DOMAIN c : F[c[k]] = [dress |-> c[k][1], footwear |-> c[k][2]]
    BY <2>1
  <2> QED
    BY <2>2 DEF DressCombos
<1> HIDE DEF c, S, B, F
<1>6. Listing([k \in DOMAIN c |-> F[c[k]]], DressOutfits, Before)
  BY <1>1, <1>2, <1>3, <1>4, ImageListing
<1> QED
  BY <1>5, <1>6

LEMMA PieceOrder ==
    ASSUME NEW t, NEW b, NEW f, NEW u, NEW a, NEW g,
           \/ Row(t) < Row(u)
           \/ t = u /\ Row(b) < Row(a)
           \/ t = u /\ b = a /\ Row(f) < Row(g)
    PROVE  Precedes([top |-> t, bottom |-> b, footwear |-> f],
                    [top |-> u, bottom |-> a, footwear |-> g])
<1> DEFINE o == [top |-> t, bottom |-> b, footwear |-> f]
           p == [top |-> u, bottom |-> a, footwear |-> g]
<1>1. DOMAIN o = {"top", "bottom", "footwear"} /\ DOMAIN p = {"top", "bottom", "footwear"}
  OBVIOUS
<1>2. CASE Row(t) < Row(u)
  <2>1. "top" \in DOMAIN o /\ Row(o["top"]) < Row(p["top"])
    BY <1>2
  <2>2. \A q \in DOMAIN o : ~(Major[q] < Major["top"])
    BY <1>1 DEF Major
  <2> QED
    BY <1>1, <2>1, <2>2 DEF Precedes
<1>3. CASE t = u /\ Row(b) < Row(a)
  <2>1. "bottom" \in DOMAIN o /\ Row(o["bottom"]) < Row(p["bottom"])
    BY <1>3
  <2>2. \A q \in DOMAIN o : Major[q] < Major["bottom"] => o[q] = p[q]
    BY <1>1, <1>3 DEF Major
  <2> QED
    BY <1>1, <2>1, <2>2 DEF Precedes
<1>4. CASE t = u /\ b = a /\ Row(f) < Row(g)
  <2>1. "footwear" \in DOMAIN o /\ Row(o["footwear"]) < Row(p["footwear"])
    BY <1>4
  <2>2. \A q \in DOMAIN o : Major[q] < Major["footwear"] => o[q] = p[q]
    BY <1>1, <1>4 DEF Major
  <2> QED
    BY <1>1, <2>1, <2>2 DEF Precedes
<1> QED
  BY <1>2, <1>3, <1>4

LEMMA CoatOrder ==
    ASSUME NEW t, NEW b, NEW f, NEW c, NEW u, NEW a, NEW g, NEW d,
           \/ Row(t) < Row(u)
           \/ t = u /\ Row(b) < Row(a)
           \/ t = u /\ b = a /\ Row(f) < Row(g)
           \/ t = u /\ b = a /\ f = g /\ Row(c) < Row(d)
    PROVE  Precedes([top |-> t, bottom |-> b, footwear |-> f, outer |-> c],
                    [top |-> u, bottom |-> a, footwear |-> g, outer |-> d])
<1> DEFINE o == [top |-> t, bottom |-> b, footwear |-> f, outer |-> c]
           p == [top |-> u, bottom |-> a, footwear |-> g, outer |-> d]
<1>1. /\ DOMAIN o = {"top", "bottom", "footwear", "outer"}
      /\ DOMAIN p = {"top", "bottom", "footwear", "outer"}
  OBVIOUS
<1>2. CASE Row(t) < Row(u)
  <2>1. "top" \in DOMAIN o /\ Row(o["top"]) < Row(p["top"])
    BY <1>2
  <2>2. \A q \in DOMAIN o : ~(Major[q] < Major["top"])
    BY <1>1 DEF Major
  <2> QED
    BY <1>1, <2>1, <2>2 DEF Precedes
<1>3. CASE t = u /\ Row(b) < Row(a)
  <2>1. "bottom" \in DOMAIN o /\ Row(o["bottom"]) < Row(p["bottom"])
    BY <1>3
  <2>2. \A q \in DOMAIN o : Major[q] < Major["bottom"] => o[q] = p[q]
    BY <1>1, <1>3 DEF Major
  <2> QED
    BY <1>1, <2>1, <2>2 DEF Precedes
<1>4. CASE t = u /\ b = a /\ Row(f) < Row(g)
  <2>1. "footwear" \in DOMAIN o /\ Row(o["footwear"]) < Row(p["footwear"])
    BY <1>4
  <2>2. \A q \in DOMAIN o : Major[q] < Major["footwear"] => o[q] = p[q]
    BY <1>1, <1>4 DEF Major
  <2> QED
    BY <1>1, <2>1, <2>2 DEF Precedes
<1>5. CASE t = u /\ b = a /\ f = g /\ Row(c) < Row(d)
  <2>1. "outer" \in DOMAIN o /\ Row(o["outer"]) < Row(p["outer"])
    BY <1>5
  <2>2. \A q \in DOMAIN o : Major[q] < Major["outer"] => o[q] = p[q]
    BY <1>1, <1>5 DEF Major
  <2> QED
    BY <1>1, <2>1, <2>2 DEF Precedes
<1> QED
  BY <1>2, <1>3, <1>4, <1>5

Uncoated == (For("top") \X For("bottom")) \X For("footwear")
Coated == Uncoated \X For("outer")
UncoatedOrder ==
    Lex(For("top") \X For("bottom"), For("footwear"),
        Lex(For("top"), For("bottom"), RowOrder, RowOrder), RowOrder)
CoatedOrder == Lex(Uncoated, For("outer"), UncoatedOrder, RowOrder)
ThreePieces == product(product(Bucket("top"), Bucket("bottom")), Bucket("footwear"))
FourPieces == product(ThreePieces, Bucket("outer"))

LEMMA PieceProducts ==
    ASSUME Typed, Distinct
    PROVE  /\ Listing(ThreePieces, Uncoated, UncoatedOrder)
           /\ Listing(FourPieces, Coated, CoatedOrder)
<1>1. Listing(product(Bucket("top"), Bucket("bottom")), For("top") \X For("bottom"),
              Lex(For("top"), For("bottom"), RowOrder, RowOrder))
  BY BucketListing, ProductListing
<1>2. Listing(ThreePieces, Uncoated, UncoatedOrder)
  BY <1>1, BucketListing, ProductListing DEF ThreePieces, Uncoated, UncoatedOrder
<1>3. Listing(FourPieces, Coated, CoatedOrder)
  BY <1>2, BucketListing, ProductListing DEF FourPieces, Coated, CoatedOrder
<1> QED
  BY <1>2, <1>3

LEMMA CoatOrNone ==
    ASSUME Typed, Distinct
    PROVE  Bucket("outer") = <<>> <=> For("outer") = {}
<1>1. Listing(Bucket("outer"), For("outer"), RowOrder)
  BY BucketListing
<1>2. ASSUME For("outer") = {} PROVE Bucket("outer") = <<>>
  <2>1. Bucket("outer") \in Seq({})
    BY <1>1, <1>2 DEF Listing
  <2> QED
    BY <2>1
<1>3. ASSUME Bucket("outer") = <<>> PROVE For("outer") = {}
  <2>1. DOMAIN Bucket("outer") = {}
    BY <1>3
  <2> QED
    BY <1>1, <2>1 DEF Listing
<1> QED
  BY <1>2, <1>3

LEMMA UncoatedListing ==
    ASSUME Typed, Distinct, For("outer") = {}
    PROVE  Listing(PieceCombos, PieceOutfits, Before)
<1> DEFINE F == [x \in Uncoated |->
                    [top |-> x[1][1], bottom |-> x[1][2], footwear |-> x[2]]]
<1>1. Listing(ThreePieces, Uncoated, UncoatedOrder)
  BY PieceProducts
<1>2. PieceOutfits = {[top |-> t, bottom |-> b, footwear |-> f] :
                         t \in For("top"), b \in For("bottom"), f \in For("footwear")}
  BY DEF PieceOutfits
<1>3. ASSUME NEW x \in Uncoated
      PROVE  \E t \in For("top"), b \in For("bottom"), f \in For("footwear") :
                x = <<<<t, b>>, f>>
  BY DEF Uncoated
<1>4. F \in [Uncoated -> PieceOutfits]
  <2>1. ASSUME NEW x \in Uncoated PROVE F[x] \in PieceOutfits
    <3>1. PICK t \in For("top"), b \in For("bottom"), f \in For("footwear") :
             x = <<<<t, b>>, f>>
      BY <1>3
    <3>2. F[x] = [top |-> t, bottom |-> b, footwear |-> f]
      BY <3>1
    <3> QED
      BY <1>2, <3>2
  <2> QED
    BY <2>1
<1>5. \A y \in PieceOutfits : \E x \in Uncoated : F[x] = y
  <2> TAKE y \in PieceOutfits
  <2>1. PICK t \in For("top"), b \in For("bottom"), f \in For("footwear") :
           y = [top |-> t, bottom |-> b, footwear |-> f]
    BY <1>2
  <2>2. <<<<t, b>>, f>> \in Uncoated
    BY DEF Uncoated
  <2>3. F[<<<<t, b>>, f>>] = y
    BY <2>1, <2>2
  <2> QED
    BY <2>2, <2>3
<1>6. \A x, y \in Uncoated : <<x, y>> \in UncoatedOrder => <<F[x], F[y]>> \in Before
  <2> TAKE x, y \in Uncoated
  <2> HAVE <<x, y>> \in UncoatedOrder
  <2>1. PICK t \in For("top"), b \in For("bottom"), f \in For("footwear") :
           x = <<<<t, b>>, f>>
    BY <1>3
  <2>2. PICK u \in For("top"), a \in For("bottom"), g \in For("footwear") :
           y = <<<<u, a>>, g>>
    BY <1>3
  <2>3. \/ <<<<t, b>>, <<u, a>>>> \in Lex(For("top"), For("bottom"), RowOrder, RowOrder)
        \/ <<t, b>> = <<u, a>> /\ <<f, g>> \in RowOrder
    BY <2>1, <2>2 DEF UncoatedOrder, Lex
  <2>4. \/ Row(t) < Row(u)
        \/ t = u /\ Row(b) < Row(a)
        \/ t = u /\ b = a /\ Row(f) < Row(g)
    BY <2>3 DEF Lex, RowOrder
  <2>5. /\ F[x] = [top |-> t, bottom |-> b, footwear |-> f]
        /\ F[y] = [top |-> u, bottom |-> a, footwear |-> g]
    BY <2>1, <2>2
  <2>6. F[x] \in Outfits /\ F[y] \in Outfits
    BY <1>4 DEF Outfits
  <2>7. Precedes(F[x], F[y])
    BY <2>4, <2>5, PieceOrder
  <2> QED
    BY <2>6, <2>7 DEF Before
<1>7. PieceCombos = [k \in DOMAIN ThreePieces |-> F[ThreePieces[k]]]
  <2>1. \A k \in DOMAIN ThreePieces : ThreePieces[k] \in Uncoated
    BY <1>1 DEF Listing
  <2>2. \A k \in DOMAIN ThreePieces :
           F[ThreePieces[k]] = [top |-> ThreePieces[k][1][1], bottom |-> ThreePieces[k][1][2],
                                footwear |-> ThreePieces[k][2]]
    BY <2>1
  <2>3. Bucket("outer") = <<>>
    BY CoatOrNone
  <2>4. PieceCombos = [k \in DOMAIN ThreePieces |->
           [top |-> ThreePieces[k][1][1], bottom |-> ThreePieces[k][1][2],
            footwear |-> ThreePieces[k][2]]]
    BY <2>3 DEF PieceCombos, ThreePieces
  <2> QED
    BY <2>2, <2>4
<1> HIDE DEF F
<1> QED
  BY <1>1, <1>4, <1>5, <1>6, <1>7, ImageListing

LEMMA CoatedListing ==
    ASSUME Typed, Distinct, For("outer") # {}
    PROVE  Listing(PieceCombos, PieceOutfits, Before)
<1> DEFINE F == [x \in Coated |->
                    [top |-> x[1][1][1], bottom |-> x[1][1][2], footwear |-> x[1][2],
                     outer |-> x[2]]]
<1>1. Listing(FourPieces, Coated, CoatedOrder)
  BY PieceProducts
<1>2. PieceOutfits = {[top |-> t, bottom |-> b, footwear |-> f, outer |-> c] :
                         t \in For("top"), b \in For("bottom"), f \in For("footwear"),
                         c \in For("outer")}
  BY DEF PieceOutfits
<1>3. ASSUME NEW x \in Coated
      PROVE  \E t \in For("top"), b \in For("bottom"), f \in For("footwear"),
                c \in For("outer") : x = <<<<<<t, b>>, f>>, c>>
  BY DEF Coated, Uncoated
<1>4. F \in [Coated -> PieceOutfits]
  <2>1. ASSUME NEW x \in Coated PROVE F[x] \in PieceOutfits
    <3>1. PICK t \in For("top"), b \in For("bottom"), f \in For("footwear"),
               c \in For("outer") : x = <<<<<<t, b>>, f>>, c>>
      BY <1>3
    <3>2. F[x] = [top |-> t, bottom |-> b, footwear |-> f, outer |-> c]
      BY <3>1
    <3> QED
      BY <1>2, <3>2
  <2> QED
    BY <2>1
<1>5. \A y \in PieceOutfits : \E x \in Coated : F[x] = y
  <2> TAKE y \in PieceOutfits
  <2>1. PICK t \in For("top"), b \in For("bottom"), f \in For("footwear"),
             c \in For("outer") : y = [top |-> t, bottom |-> b, footwear |-> f, outer |-> c]
    BY <1>2
  <2>2. <<<<<<t, b>>, f>>, c>> \in Coated
    BY DEF Coated, Uncoated
  <2>3. F[<<<<<<t, b>>, f>>, c>>] = y
    BY <2>1, <2>2
  <2> QED
    BY <2>2, <2>3
<1>6. \A x, y \in Coated : <<x, y>> \in CoatedOrder => <<F[x], F[y]>> \in Before
  <2> TAKE x, y \in Coated
  <2> HAVE <<x, y>> \in CoatedOrder
  <2>1. PICK t \in For("top"), b \in For("bottom"), f \in For("footwear"),
             c \in For("outer") : x = <<<<<<t, b>>, f>>, c>>
    BY <1>3
  <2>2. PICK u \in For("top"), a \in For("bottom"), g \in For("footwear"),
             d \in For("outer") : y = <<<<<<u, a>>, g>>, d>>
    BY <1>3
  <2>3. \/ <<<<<<t, b>>, f>>, <<<<u, a>>, g>>>> \in UncoatedOrder
        \/ <<<<t, b>>, f>> = <<<<u, a>>, g>> /\ <<c, d>> \in RowOrder
    BY <2>1, <2>2 DEF CoatedOrder, Lex
  <2>4. \/ <<<<t, b>>, <<u, a>>>> \in Lex(For("top"), For("bottom"), RowOrder, RowOrder)
        \/ <<t, b>> = <<u, a>> /\ <<f, g>> \in RowOrder
        \/ t = u /\ b = a /\ f = g /\ <<c, d>> \in RowOrder
    BY <2>3 DEF UncoatedOrder, Lex
  <2>5. \/ Row(t) < Row(u)
        \/ t = u /\ Row(b) < Row(a)
        \/ t = u /\ b = a /\ Row(f) < Row(g)
        \/ t = u /\ b = a /\ f = g /\ Row(c) < Row(d)
    BY <2>4 DEF Lex, RowOrder
  <2>6. /\ F[x] = [top |-> t, bottom |-> b, footwear |-> f, outer |-> c]
        /\ F[y] = [top |-> u, bottom |-> a, footwear |-> g, outer |-> d]
    BY <2>1, <2>2
  <2>7. F[x] \in Outfits /\ F[y] \in Outfits
    BY <1>4 DEF Outfits
  <2>8. Precedes(F[x], F[y])
    BY <2>5, <2>6, CoatOrder
  <2> QED
    BY <2>7, <2>8 DEF Before
<1>7. PieceCombos = [k \in DOMAIN FourPieces |-> F[FourPieces[k]]]
  <2>1. \A k \in DOMAIN FourPieces : FourPieces[k] \in Coated
    BY <1>1 DEF Listing
  <2>2. \A k \in DOMAIN FourPieces :
           F[FourPieces[k]] = [top |-> FourPieces[k][1][1][1], bottom |-> FourPieces[k][1][1][2],
                               footwear |-> FourPieces[k][1][2], outer |-> FourPieces[k][2]]
    BY <2>1
  <2>3. Bucket("outer") # <<>>
    BY CoatOrNone
  <2>4. PieceCombos = [k \in DOMAIN FourPieces |->
           [top |-> FourPieces[k][1][1][1], bottom |-> FourPieces[k][1][1][2],
            footwear |-> FourPieces[k][1][2], outer |-> FourPieces[k][2]]]
    BY <2>3 DEF PieceCombos, FourPieces, ThreePieces
  <2> QED
    BY <2>2, <2>4
<1> HIDE DEF F
<1> QED
  BY <1>1, <1>4, <1>5, <1>6, <1>7, ImageListing

LEMMA ComboListing ==
    ASSUME Typed, Distinct
    PROVE  Listing(DressCombos \o PieceCombos, Outfits, Before)
<1>1. Listing(DressCombos, DressOutfits, Before)
  BY DressListing
<1>2. Listing(PieceCombos, PieceOutfits, Before)
  BY UncoatedListing, CoatedListing
<1>3. \A o \in DressOutfits : "dress" \in DOMAIN o
  BY DEF DressOutfits
<1>4. \A p \in PieceOutfits : "dress" \notin DOMAIN p
  BY DEF PieceOutfits
<1>5. DressOutfits \X PieceOutfits \subseteq Before
  BY <1>3, <1>4 DEF Before, Outfits, Precedes
<1> QED
  BY <1>1, <1>2, <1>5, ChainListing DEF Outfits

----------------------------------------------------------------------------
(* The cap.                                                                 *)

\* c keeps of S at most cap elements, those that come first.
KeepsTheFirst(c, S, B, cap) ==
    /\ \A k \in DOMAIN c : c[k] \in S
    /\ Len(c) = cap \/ \A x \in S : \E k \in DOMAIN c : c[k] = x
    /\ \A j, k \in DOMAIN c : j < k => <<c[j], c[k]>> \in B
    /\ \A x \in S, k \in DOMAIN c :
          (\A j \in DOMAIN c : c[j] # x) => <<c[k], x>> \in B

\* A listing that is cut off leaves out nothing that comes before what it keeps.
LEMMA CutListing ==
    ASSUME NEW q, NEW S, NEW B, Listing(q, S, B), NEW cap \in Nat, NEW c,
           c = SubSeq(q, 1, IF Len(q) < cap THEN Len(q) ELSE cap)
    PROVE  KeepsTheFirst(c, S, B, cap)
<1>1. PICK n \in Nat : n = Len(q) /\ DOMAIN q = 1..n /\ \A k \in 1..n : q[k] \in S
  BY DEF Listing
<1>2. PICK m \in Nat : m <= n /\ m <= cap /\ m = (IF n < cap THEN n ELSE cap)
  <2>1. CASE n < cap
    BY <2>1
  <2>2. CASE ~(n < cap)
    BY <2>2
  <2> QED
    BY <2>1, <2>2
<1>3. Len(c) = m /\ DOMAIN c = 1..m /\ \A k \in 1..m : c[k] = q[k]
  <2>1. q \in Seq(S)
    BY DEF Listing
  <2>2. c = SubSeq(q, 1, m)
    BY <1>1, <1>2
  <2> QED
    BY <2>1, <2>2, <1>1, <1>2
<1>4. \A k \in 1..m : k \in 1..n
  BY <1>2
<1>5. \A j, k \in 1..n : j < k => <<q[j], q[k]>> \in B
  BY <1>1 DEF Listing
<1>6. \A x \in S : \E k \in 1..n : q[k] = x
  BY <1>1 DEF Listing
<1>7. Len(c) = cap \/ \A x \in S : \E k \in DOMAIN c : c[k] = x
  <2>1. CASE n < cap
    BY <1>2, <1>3, <1>6, <2>1
  <2>2. CASE ~(n < cap)
    BY <1>2, <1>3, <2>2
  <2> QED
    BY <2>1, <2>2
<1>8. ASSUME NEW x \in S, NEW k \in DOMAIN c, \A j \in DOMAIN c : c[j] # x
      PROVE  <<c[k], x>> \in B
  <2>1. PICK i \in 1..n : q[i] = x
    BY <1>6
  <2>2. i \notin 1..m
    BY <1>3, <1>8, <2>1
  <2>3. k \in 1..m /\ k \in 1..n /\ k < i
    BY <1>3, <1>4, <2>2
  <2> QED
    BY <1>3, <1>5, <2>1, <2>3
<1>9. \A k \in DOMAIN c : c[k] \in S
  BY <1>1, <1>3, <1>4
<1>10. \A j, k \in DOMAIN c : j < k => <<c[j], c[k]>> \in B
  BY <1>3, <1>4, <1>5
<1> QED
  BY <1>7, <1>8, <1>9, <1>10, Zenon DEF KeepsTheFirst

LEMMA CandidatesOfDistinctRows ==
    ASSUME Typed, Distinct
    PROVE  CandidatesAreTheOutfits
<1> DEFINE c == generate_candidates
           found == {c[k] : k \in DOMAIN c}
           q == DressCombos \o PieceCombos
<1>1. Listing(q, Outfits, Before)
  BY ComboListing
<1>2. c = SubSeq(q, 1, IF Len(q) < MaxCandidates THEN Len(q) ELSE MaxCandidates)
  BY DEF generate_candidates
<1>3. MaxCandidates \in Nat
  BY OutfitsAssumption
<1> HIDE DEF c, q
<1>4. KeepsTheFirst(c, Outfits, Before, MaxCandidates)
  BY <1>1, <1>2, <1>3, CutListing
<1>5. found \subseteq Outfits
  BY <1>4 DEF KeepsTheFirst
<1>6. Len(c) = MaxCandidates \/ found = Outfits
  BY <1>4, <1>5 DEF KeepsTheFirst
<1>7. \A j, k \in DOMAIN c : j < k => Precedes(c[j], c[k])
  BY <1>4 DEF KeepsTheFirst, Before
<1>8. \A o \in Outfits \ found, k \in DOMAIN c : Precedes(c[k], o)
  BY <1>4 DEF KeepsTheFirst, Before
<1> QED
  BY <1>5, <1>6, <1>7, <1>8 DEF c, CandidatesAreTheOutfits

----------------------------------------------------------------------------
(* No item has two rows.                                                    *)

LEMMA AddedDistinct ==
    ASSUME Typed, Distinct, NEW i \in Ids, AddItem(i)
    PROVE  Distinct'
<1>1. PICK n \in Nat : n = Len(rows) /\ DOMAIN rows = 1..n
  BY DEF Typed
<1>2. rows \in Seq(Ids) /\ rows' = <<i>> \o rows /\ \A k \in 1..n : rows[k] # i
  BY <1>1 DEF AddItem, Active, Typed
<1>3. DOMAIN rows' = 1..(n + 1) /\ rows'[1] = i
  BY <1>1, <1>2
<1>4. ASSUME NEW k \in 1..(n + 1), k # 1
      PROVE  k - 1 \in 1..n /\ rows'[k] = rows[k - 1]
  <2>1. k - 1 \in 1..n
    BY <1>4
  <2>2. <<i>> \in Seq(Ids) /\ Len(<<i>>) = 1
    OBVIOUS
  <2> QED
    BY <1>1, <1>2, <1>4, <2>1, <2>2
<1>5. ASSUME NEW j \in 1..(n + 1), NEW k \in 1..(n + 1), rows'[j] = rows'[k]
      PROVE  j = k
  <2>1. CASE j = 1 /\ k = 1
    BY <2>1
  <2>2. CASE j = 1 /\ k # 1
    BY <1>2, <1>3, <1>4, <1>5, <2>2
  <2>3. CASE j # 1 /\ k = 1
    BY <1>2, <1>3, <1>4, <1>5, <2>3
  <2>4. CASE j # 1 /\ k # 1
    <3>1. j - 1 = k - 1
      BY <1>1, <1>4, <1>5, <2>4 DEF Distinct
    <3> QED
      BY <3>1
  <2> QED
    BY <2>1, <2>2, <2>3, <2>4
<1> QED
  BY <1>3, <1>5 DEF Distinct

\* The rows after the one that is forgotten move up.
LEMMA ForgottenRows ==
    ASSUME Typed, NEW i \in Ids, Forget(i)
    PROVE  \E n \in Nat : \E m \in 1..n :
              /\ DOMAIN rows = 1..n /\ DOMAIN rows' = 1..(n - 1)
              /\ \A k \in 1..(n - 1) : rows'[k] = IF k < m THEN rows[k] ELSE rows[k + 1]
<1>1. PICK n \in Nat : n = Len(rows) /\ DOMAIN rows = 1..n
  BY DEF Typed
<1>2. PICK m \in 1..n : rows' = SubSeq(rows, 1, m - 1) \o SubSeq(rows, m + 1, n)
  BY <1>1 DEF Forget
<1> DEFINE a == SubSeq(rows, 1, m - 1)
           b == SubSeq(rows, m + 1, n)
<1>3. rows \in Seq(Ids)
  BY DEF Typed
<1>4. a \in Seq(Ids) /\ Len(a) = m - 1 /\ \A k \in 1..(m - 1) : a[k] = rows[k]
  BY <1>1, <1>3
<1>5. b \in Seq(Ids) /\ Len(b) = n - m /\ \A k \in 1..(n - m) : b[k] = rows[k + m]
  BY <1>1, <1>3
<1>6. rows' = a \o b
  BY <1>2
<1> HIDE DEF a, b
<1>7. DOMAIN rows' = 1..(n - 1)
  BY <1>4, <1>5, <1>6
<1>8. \A k \in 1..(n - 1) : rows'[k] = IF k < m THEN rows[k] ELSE rows[k + 1]
  <2> TAKE k \in 1..(n - 1)
  <2>1. CASE k < m
    <3>1. k \in 1..(m - 1)
      BY <2>1
    <3> QED
      BY <1>4, <1>5, <1>6, <2>1, <3>1
  <2>2. CASE ~(k < m)
    <3>1. k - (m - 1) \in 1..(n - m) /\ (k - (m - 1)) + m = k + 1
      BY <2>2
    <3>2. rows'[k] = b[k - (m - 1)]
      BY <1>4, <1>5, <1>6, <2>2, <3>1
    <3> QED
      BY <1>5, <2>2, <3>1, <3>2
  <2> QED
    BY <2>1, <2>2
<1> QED
  BY <1>1, <1>7, <1>8

LEMMA ForgottenDistinct ==
    ASSUME Typed, Distinct, NEW i \in Ids, Forget(i)
    PROVE  Distinct'
<1>1. PICK n \in Nat : \E m \in 1..n :
         /\ DOMAIN rows = 1..n /\ DOMAIN rows' = 1..(n - 1)
         /\ \A k \in 1..(n - 1) : rows'[k] = IF k < m THEN rows[k] ELSE rows[k + 1]
  BY ForgottenRows
<1>2. PICK m \in 1..n :
         /\ DOMAIN rows = 1..n /\ DOMAIN rows' = 1..(n - 1)
         /\ \A k \in 1..(n - 1) : rows'[k] = IF k < m THEN rows[k] ELSE rows[k + 1]
  BY <1>1
<1>3. \A k \in 1..(n - 1) : rows'[k] = IF k < m THEN rows[k] ELSE rows[k + 1]
  BY <1>2
<1>4. ASSUME NEW j \in 1..(n - 1), NEW k \in 1..(n - 1), rows'[j] = rows'[k]
      PROVE  j = k
  <2>1. PICK p \in 1..n : p = (IF j < m THEN j ELSE j + 1) /\ rows'[j] = rows[p]
    <3>1. CASE j < m
      BY <1>3, <3>1
    <3>2. CASE ~(j < m)
      BY <1>3, <3>2
    <3> QED
      BY <3>1, <3>2
  <2>2. PICK q \in 1..n : q = (IF k < m THEN k ELSE k + 1) /\ rows'[k] = rows[q]
    <3>1. CASE k < m
      BY <1>3, <3>1
    <3>2. CASE ~(k < m)
      BY <1>3, <3>2
    <3> QED
      BY <3>1, <3>2
  <2>3. p = q
    BY <1>1, <1>4, <2>1, <2>2 DEF Distinct
  <2> QED
    BY <2>1, <2>2, <2>3
<1> QED
  BY <1>2, <1>4 DEF Distinct

LEMMA DistinctPreserved == Typed /\ Distinct /\ [Next]_vars => Distinct'
<1> SUFFICES ASSUME Typed, Distinct, [Next]_vars PROVE Distinct'
  OBVIOUS
<1>1. ASSUME UNCHANGED rows PROVE Distinct'
  BY <1>1 DEF Distinct
<1>2. ASSUME NEW i \in Ids, handle_edit_item(i) PROVE Distinct'
  BY <1>1, <1>2 DEF handle_edit_item
<1>3. ASSUME NEW i \in Ids, Fade(i) PROVE Distinct'
  BY <1>1, <1>3 DEF Fade
<1>4. CASE Push
  BY <1>1, <1>4 DEF Push
<1>5. CASE EditProfile
  BY <1>1, <1>5 DEF EditProfile
<1>6. CASE UNCHANGED vars
  BY <1>1, <1>6 DEF vars
<1> QED
  BY <1>2, <1>3, <1>4, <1>5, <1>6, AddedDistinct, ForgottenDistinct DEF Next

\* generate_candidates finds every outfit there is, once, in the order of the rows, up to
\* the cap, and what the cap leaves out comes after all it keeps: for any wardrobe and cap.
THEOREM CandidatesComplete == Spec => []CandidatesAreTheOutfits
<1>1. Init => Typed /\ Distinct
  BY InitTyped, OutfitsAssumption DEF Init, Distinct
<1>2. Typed /\ Distinct /\ [Next]_vars => (Typed /\ Distinct)'
  BY TypePreserved, DistinctPreserved
<1>3. Typed /\ Distinct => CandidatesAreTheOutfits
  BY CandidatesOfDistinctRows
<1> QED
  BY <1>1, <1>2, <1>3, PTL DEF Spec

----------------------------------------------------------------------------
(* Forgetting an item.                                                      *)

LEMMA GrowingIndex ==
    ASSUME NEW m \in Nat, NEW n \in Nat, NEW f \in [1..m -> 1..n],
           \A i, j \in 1..m : i < j => f[i] < f[j]
    PROVE  \A i \in 1..m : i <= f[i]
<1> DEFINE S == {i \in 1..m : f[i] < i}
<1>1. SUFFICES ASSUME S # {} PROVE FALSE
  <2>1. \A i \in 1..m : f[i] \in 1..n
    OBVIOUS
  <2> QED
    BY <1>1, <2>1
<1>2. S \in SUBSET Nat
  OBVIOUS
<1>3. PICK i \in S : \A j \in S : i <= j
  <2> HIDE DEF S
  <2> QED
    BY <1>1, <1>2, LeastNatural
<1>4. i \in 1..m /\ f[i] < i /\ f[i] \in 1..n
  BY <1>3
<1>5. i - 1 \in 1..m /\ i - 1 \notin S
  BY <1>3, <1>4
<1>6. f[i - 1] \in 1..n /\ ~(f[i - 1] < i - 1) /\ f[i - 1] < f[i]
  BY <1>4, <1>5
<1> QED
  BY <1>4, <1>6

\* Who is listed in both has no more before it in the one whose earlier ones the other
\* has too, in the same order.
LEMMA Placement ==
    ASSUME NEW q, NEW S, NEW B, Listing(q, S, B), NEW p, NEW T, NEW C, Listing(p, T, C),
           NEW k \in DOMAIN q, NEW m \in DOMAIN p, p[m] = q[k],
           \A i \in 1..m : p[i] \in S,
           \A x, y \in S : <<x, y>> \in C => <<x, y>> \in B,
           \A x, y \in S : ~(<<x, y>> \in B /\ <<y, x>> \in B)
    PROVE  m <= k
<1>1. PICK n \in Nat : n = Len(q) /\ DOMAIN q = 1..n /\ \A i \in 1..n : q[i] \in S
  BY DEF Listing
<1>2. PICK l \in Nat : l = Len(p) /\ DOMAIN p = 1..l
  BY DEF Listing
<1>3. m \in 1..l /\ m \in Nat /\ \A i \in 1..m : i \in 1..l
  BY <1>2
<1>4. \A i, j \in 1..n : i < j => <<q[i], q[j]>> \in B
  BY <1>1 DEF Listing
<1>5. \A i, j \in 1..m : i < j => <<p[i], p[j]>> \in B
  BY <1>2, <1>3 DEF Listing
<1>6. \A i \in 1..m : \E j \in 1..n : q[j] = p[i]
  BY <1>1 DEF Listing
<1> DEFINE f == [i \in 1..m |-> CHOOSE j \in 1..n : q[j] = p[i]]
<1>7. f \in [1..m -> 1..n] /\ \A i \in 1..m : q[f[i]] = p[i]
  BY <1>6
<1> HIDE DEF f
<1>8. ASSUME NEW i \in 1..m, NEW j \in 1..m, i < j PROVE f[i] < f[j]
  <2>1. PICK a \in 1..n, b \in 1..n : a = f[i] /\ b = f[j] /\ q[a] = p[i] /\ q[b] = p[j]
    BY <1>7
  <2>2. <<q[a], q[b]>> \in B /\ q[a] \in S /\ q[b] \in S
    BY <1>1, <1>5, <1>8, <2>1
  <2>3. <<q[b], q[a]>> \notin B
    BY <2>2
  <2>4. a # b /\ ~(b < a)
    BY <1>4, <2>2, <2>3
  <2> QED
    BY <2>1, <2>4
<1>9. m <= f[m]
  <2>1. m \in 1..m
    BY <1>3
  <2> QED
    BY <1>3, <1>7, <1>8, <2>1, GrowingIndex
<1>10. f[m] = k
  <2>1. PICK a \in 1..n : a = f[m] /\ q[a] = p[m]
    BY <1>3, <1>7
  <2>2. k \in 1..n /\ q[k] = q[a] /\ q[k] \in S
    BY <1>1, <2>1
  <2>3. <<q[k], q[k]>> \notin B
    BY <2>2
  <2>4. ~(a < k) /\ ~(k < a)
    BY <1>4, <2>2, <2>3
  <2> QED
    BY <2>1, <2>2, <2>4
<1> QED
  BY <1>9, <1>10

MadeOfPieces ==
    \A o \in Outfits :
        /\ \A r \in DOMAIN o : o[r] \in Active
        /\ "dress" \in DOMAIN o => o \in DressOutfits
        /\ "dress" \notin DOMAIN o =>
              o \in PieceOutfits /\ ("outer" \in DOMAIN o <=> For("outer") # {})

LEMMA Pieces == MadeOfPieces
<1> SUFFICES ASSUME NEW o \in Outfits
             PROVE  /\ \A r \in DOMAIN o : o[r] \in Active
                    /\ "dress" \in DOMAIN o => o \in DressOutfits
                    /\ "dress" \notin DOMAIN o =>
                          o \in PieceOutfits /\ ("outer" \in DOMAIN o <=> For("outer") # {})
  BY DEF MadeOfPieces
<1>1. CASE o \in DressOutfits
  BY <1>1 DEF DressOutfits, For
<1>2. CASE o \in PieceOutfits /\ For("outer") = {}
  <2>1. PICK t \in For("top"), b \in For("bottom"), f \in For("footwear") :
           o = [top |-> t, bottom |-> b, footwear |-> f]
    BY <1>2 DEF PieceOutfits
  <2> QED
    BY <1>2, <2>1 DEF For
<1>3. CASE o \in PieceOutfits /\ For("outer") # {}
  <2>1. PICK t \in For("top"), b \in For("bottom"), f \in For("footwear"),
             c \in For("outer") : o = [top |-> t, bottom |-> b, footwear |-> f, outer |-> c]
    BY <1>3 DEF PieceOutfits
  <2>2. DOMAIN o = {"top", "bottom", "footwear", "outer"}
    BY <2>1
  <2>3. \A r \in DOMAIN o : o[r] \in Active
    BY <2>1, <2>2 DEF For
  <2> QED
    BY <1>3, <2>2, <2>3
<1> QED
  BY <1>1, <1>2, <1>3 DEF Outfits

LEMMA OneWay ==
    ASSUME Typed, NEW o \in Outfits, NEW p \in Outfits
    PROVE  ~(Precedes(o, p) /\ Precedes(p, o))
<1> SUFFICES ASSUME Precedes(o, p), Precedes(p, o) PROVE FALSE
  OBVIOUS
<1>1. \A i \in Active : Row(i) \in Int
  BY DEF Typed, Active, Row
<1>2. DOMAIN o = DOMAIN p
  BY DEF Precedes
<1>3. PICK r \in DOMAIN o :
         Row(o[r]) < Row(p[r]) /\ \A q \in DOMAIN o : Major[q] < Major[r] => o[q] = p[q]
  BY <1>2 DEF Precedes
<1>4. PICK s \in DOMAIN o :
         Row(p[s]) < Row(o[s]) /\ \A q \in DOMAIN o : Major[q] < Major[s] => o[q] = p[q]
  BY <1>2 DEF Precedes
<1>5. /\ Row(o[r]) \in Int /\ Row(p[r]) \in Int /\ Row(o[s]) \in Int /\ Row(p[s]) \in Int
  BY <1>1, <1>2, Pieces DEF MadeOfPieces
<1>6. o[r] # p[r] /\ o[s] # p[s] /\ r # s
  BY <1>3, <1>4, <1>5
<1>7. ~(Major[r] < Major[s]) /\ ~(Major[s] < Major[r])
  BY <1>3, <1>4, <1>6
<1>8. DOMAIN o \in {{"dress", "footwear"}, {"top", "bottom", "footwear"},
                    {"top", "bottom", "footwear", "outer"}}
  BY Shape
<1>9. \A x, y \in DOMAIN o : x # y => Major[x] < Major[y] \/ Major[y] < Major[x]
  BY <1>8 DEF Major
<1> QED
  BY <1>6, <1>7, <1>9

\* Forgetting takes items out of every role, and keeps the order of the others.
LEMMA ForgottenRoles ==
    ASSUME Typed, NEW i \in Ids, Forget(i)
    PROVE  Active' \subseteq Active /\ \A role : For(role)' \subseteq For(role)
<1>1. PICK n \in Nat : \E m \in 1..n :
         /\ DOMAIN rows = 1..n /\ DOMAIN rows' = 1..(n - 1)
         /\ \A k \in 1..(n - 1) : rows'[k] = IF k < m THEN rows[k] ELSE rows[k + 1]
  BY ForgottenRows
<1>2. \A k \in DOMAIN rows' : rows'[k] \in Active
  <2> TAKE k \in DOMAIN rows'
  <2>1. k \in 1..n /\ k + 1 \in 1..n /\ (rows'[k] = rows[k] \/ rows'[k] = rows[k + 1])
    BY <1>1
  <2> QED
    BY <1>1, <2>1 DEF Active
<1>3. Active' \subseteq Active
  BY <1>2 DEF Active
<1>4. closet' = closet /\ month' = month
  BY DEF Forget
<1>5. \A role : For(role)' \subseteq For(role)
  BY <1>3, <1>4 DEF For, Wearable, MatchesSeason, derive_season
<1> QED
  BY <1>3, <1>5

LEMMA ForgottenOrder ==
    ASSUME Typed, Distinct, Distinct', NEW i \in Ids, Forget(i),
           NEW x \in Active', NEW y \in Active', Row(x)' < Row(y)'
    PROVE  Row(x) < Row(y)
<1>1. PICK n \in Nat : \E m \in 1..n :
         /\ DOMAIN rows = 1..n /\ DOMAIN rows' = 1..(n - 1)
         /\ \A k \in 1..(n - 1) : rows'[k] = IF k < m THEN rows[k] ELSE rows[k + 1]
  BY ForgottenRows
<1>2. PICK m \in 1..n :
         /\ DOMAIN rows = 1..n /\ DOMAIN rows' = 1..(n - 1)
         /\ \A k \in 1..(n - 1) : rows'[k] = IF k < m THEN rows[k] ELSE rows[k + 1]
  BY <1>1
<1>3. ASSUME NEW z \in Ids, NEW k \in 1..(n - 1), z = rows'[k]
      PROVE  Row(z) = (IF k < m THEN k ELSE k + 1) /\ Row(z)' = k
  <2>1. Row(z)' = k
    BY <1>2, <1>3 DEF Distinct, Row
  <2>2. CASE k < m
    <3>1. k \in DOMAIN rows /\ z = rows[k]
      BY <1>2, <1>3, <2>2
    <3> QED
      BY <2>1, <2>2, <3>1, RowFacts
  <2>3. CASE ~(k < m)
    <3>1. k + 1 \in DOMAIN rows /\ z = rows[k + 1]
      BY <1>2, <1>3, <2>3
    <3> QED
      BY <2>1, <2>3, <3>1, RowFacts
  <2> QED
    BY <2>2, <2>3
<1>4. PICK j \in 1..(n - 1) : x = rows'[j]
  BY <1>2 DEF Active
<1>5. PICK k \in 1..(n - 1) : y = rows'[k]
  BY <1>2 DEF Active
<1>6. x \in Ids /\ y \in Ids
  <2>1. x \in Active /\ y \in Active
    BY ForgottenRoles
  <2> QED
    BY <2>1 DEF Active, Typed
<1>7. Row(x)' = j /\ Row(x) = (IF j < m THEN j ELSE j + 1)
  BY <1>3, <1>4, <1>6
<1>8. Row(y)' = k /\ Row(y) = (IF k < m THEN k ELSE k + 1)
  BY <1>3, <1>5, <1>6
<1> QED
  BY <1>7, <1>8

LEMMA EarlierOutfit ==
    ASSUME Typed, NEW i \in Ids, Forget(i),
           NEW o \in Outfits, o \in Outfits',
           NEW y \in Outfits', y = o \/ Precedes(y, o)'
    PROVE  y \in Outfits
<1>1. MadeOfPieces'
  BY Pieces, PTL
<1>2. \A role : For(role)' \subseteq For(role)
  BY ForgottenRoles
<1>3. ASSUME y \in DressOutfits' PROVE y \in DressOutfits
  BY <1>2, <1>3 DEF DressOutfits
<1>4. CASE "dress" \in DOMAIN y
  BY <1>1, <1>3, <1>4 DEF MadeOfPieces, Outfits
<1>5. CASE "dress" \notin DOMAIN y
  <2>1. DOMAIN y = DOMAIN o
    BY <1>5 DEF Precedes
  <2>2. y \in PieceOutfits' /\ ("outer" \in DOMAIN o <=> For("outer")' # {})
    BY <1>1, <1>5, <2>1 DEF MadeOfPieces
  <2>3. "outer" \in DOMAIN o <=> For("outer") # {}
    BY <1>5, <2>1, Pieces DEF MadeOfPieces
  <2>4. For("outer")' = {} <=> For("outer") = {}
    BY <2>2, <2>3
  <2>5. CASE For("outer") = {}
    <3>1. PICK t \in For("top")', b \in For("bottom")', f \in For("footwear")' :
             y = [top |-> t, bottom |-> b, footwear |-> f]
      BY <2>2, <2>4, <2>5 DEF PieceOutfits
    <3>2. t \in For("top") /\ b \in For("bottom") /\ f \in For("footwear")
      BY <1>2
    <3> QED
      BY <2>5, <3>1, <3>2 DEF PieceOutfits, Outfits
  <2>6. CASE For("outer") # {}
    <3>1. PICK t \in For("top")', b \in For("bottom")', f \in For("footwear")',
               c \in For("outer")' :
             y = [top |-> t, bottom |-> b, footwear |-> f, outer |-> c]
      BY <2>2, <2>4, <2>6 DEF PieceOutfits
    <3>2. t \in For("top") /\ b \in For("bottom") /\ f \in For("footwear") /\ c \in For("outer")
      BY <1>2
    <3> QED
      BY <2>6, <3>1, <3>2 DEF PieceOutfits, Outfits
  <2> QED
    BY <2>5, <2>6
<1> QED
  BY <1>4, <1>5

LEMMA EarlierOrder ==
    ASSUME Typed, Distinct, Distinct', NEW i \in Ids, Forget(i),
           NEW o \in Outfits, NEW p \in Outfits, <<o, p>> \in Before'
    PROVE  <<o, p>> \in Before
<1>1. o \in Outfits' /\ p \in Outfits' /\ Precedes(o, p)'
  BY DEF Before
<1>2. CASE "dress" \in DOMAIN o /\ "dress" \notin DOMAIN p
  BY <1>2 DEF Before, Precedes
<1>3. CASE ~("dress" \in DOMAIN o /\ "dress" \notin DOMAIN p)
  <2>1. DOMAIN o = DOMAIN p
    BY <1>1, <1>3 DEF Precedes
  <2>2. PICK r \in DOMAIN o :
           /\ Row(o[r])' < Row(p[r])'
           /\ \A q \in DOMAIN o : Major[q] < Major[r] => o[q] = p[q]
    BY <1>1, <1>3 DEF Precedes
  <2>3. MadeOfPieces'
    BY Pieces, PTL
  <2>4. o[r] \in Active' /\ p[r] \in Active'
    BY <1>1, <2>1, <2>3 DEF MadeOfPieces
  <2>5. Row(o[r]) < Row(p[r])
    BY <2>2, <2>4, ForgottenOrder
  <2>6. Precedes(o, p)
    BY <2>1, <2>2, <2>5 DEF Precedes
  <2> QED
    BY <2>6 DEF Before
<1> QED
  BY <1>2, <1>3

LEMMA PrimedListing ==
    Typed' /\ Distinct' => Listing((DressCombos \o PieceCombos)', Outfits', Before')
<1>1. Typed /\ Distinct => Listing(DressCombos \o PieceCombos, Outfits, Before)
  BY ComboListing
<1>2. (Typed /\ Distinct)' => (Listing(DressCombos \o PieceCombos, Outfits, Before))'
  BY <1>1, PTL
<1> QED
  BY <1>2 DEF Listing

LEMMA PrefixFacts ==
    ASSUME NEW q, NEW S, NEW B, Listing(q, S, B), NEW cap \in Nat, NEW c,
           c = SubSeq(q, 1, IF Len(q) < cap THEN Len(q) ELSE cap)
    PROVE  /\ \A k \in DOMAIN c : k \in DOMAIN q /\ k \in Nat /\ k <= cap /\ c[k] = q[k]
           /\ \A k \in DOMAIN q : k <= cap => k \in DOMAIN c
<1>1. PICK n \in Nat : n = Len(q) /\ DOMAIN q = 1..n /\ q \in Seq(S)
  BY DEF Listing
<1>2. PICK m \in Nat : m <= n /\ m <= cap /\ m = (IF n < cap THEN n ELSE cap)
  <2>1. CASE n < cap
    BY <2>1
  <2>2. CASE ~(n < cap)
    BY <2>2
  <2> QED
    BY <2>1, <2>2
<1>3. Len(c) = m /\ DOMAIN c = 1..m /\ \A k \in 1..m : c[k] = q[k]
  <2>1. c = SubSeq(q, 1, m)
    BY <1>1, <1>2
  <2> QED
    BY <2>1, <1>1, <1>2
<1> QED
  BY <1>1, <1>2, <1>3

LEMMA ForgettingKeeps ==
    ASSUME Typed, Distinct, Typed', Distinct', NEW i \in Ids, Forget(i),
           NEW k \in DOMAIN generate_candidates, generate_candidates[k] \in Outfits'
    PROVE  \E m \in DOMAIN generate_candidates' :
              m <= k /\ (generate_candidates')[m] = generate_candidates[k]
<1> DEFINE q == DressCombos \o PieceCombos
           p == (DressCombos \o PieceCombos)'
           S == Outfits
           T == Outfits'
           B == Before
           C == Before'
<1>1. Listing(q, S, B)
  BY ComboListing
<1>2. Listing(p, T, C)
  BY PrimedListing
<1>3. /\ generate_candidates = SubSeq(q, 1, IF Len(q) < MaxCandidates THEN Len(q) ELSE MaxCandidates)
      /\ generate_candidates' = SubSeq(p, 1, IF Len(p) < MaxCandidates THEN Len(p) ELSE MaxCandidates)
  BY DEF generate_candidates
<1>4. MaxCandidates \in Nat
  BY OutfitsAssumption
<1>5. \A x, y \in S : <<x, y>> \in C => <<x, y>> \in B
  BY EarlierOrder
<1>6. \A x, y \in S : ~(<<x, y>> \in B /\ <<y, x>> \in B)
  BY OneWay DEF Before
<1>7. \A o \in S, y \in T : o \in T /\ (y = o \/ <<y, o>> \in C) => y \in S
  BY EarlierOutfit DEF Before
<1> HIDE DEF q, p, S, T, B, C
<1>8. k \in DOMAIN q /\ generate_candidates[k] = q[k] /\ k \in Nat /\ k <= MaxCandidates
  BY <1>1, <1>3, <1>4, PrefixFacts
<1>9. q[k] \in S /\ q[k] \in T
  BY <1>1, <1>8 DEF Listing, T
<1>10. PICK m \in DOMAIN p : p[m] = q[k]
  BY <1>2, <1>9 DEF Listing
<1>11. \A j \in 1..m : p[j] \in S
  <2> TAKE j \in 1..m
  <2>1. PICK l \in Nat : l = Len(p) /\ DOMAIN p = 1..l /\ \A n \in 1..l : p[n] \in T
    BY <1>2 DEF Listing
  <2>2. j \in 1..l /\ m \in 1..l /\ p[j] \in T
    BY <2>1
  <2>3. j = m \/ <<p[j], p[m]>> \in C
    <3>1. \A a, b \in 1..l : a < b => <<p[a], p[b]>> \in C
      BY <1>2, <2>1 DEF Listing
    <3>2. j = m \/ j < m
      BY <2>1
    <3> QED
      BY <2>2, <3>1, <3>2
  <2> QED
    BY <1>7, <1>9, <1>10, <2>2, <2>3
<1>12. m <= k
  BY <1>1, <1>2, <1>5, <1>6, <1>8, <1>10, <1>11, Placement
<1>13. m \in DOMAIN generate_candidates' /\ (generate_candidates')[m] = p[m]
  BY <1>2, <1>3, <1>4, <1>8, <1>12, PrefixFacts
<1> QED
  BY <1>8, <1>10, <1>12, <1>13

\* An item that is forgotten takes no candidate along that does without it, and costs none
\* of them its place: for any wardrobe and cap.
THEOREM ForgettingIsLocal == Spec => ForgettingKeepsTheRest
<1> DEFINE Kept ==
       (\E i \in Ids : Forget(i)) =>
          LET before == generate_candidates
              after == generate_candidates'
              outfits == Outfits'
          IN  \A k \in DOMAIN before :
                  before[k] \in outfits => \E m \in DOMAIN after : m <= k /\ after[m] = before[k]
<1>1. Init => Typed /\ Distinct
  BY InitTyped, OutfitsAssumption DEF Init, Distinct
<1>2. Typed /\ Distinct /\ [Next]_vars => (Typed /\ Distinct)'
  BY TypePreserved, DistinctPreserved
<1>3. Typed /\ Distinct /\ [Next]_vars => Kept
  BY <1>2, ForgettingKeeps
<1>4. Typed /\ Distinct /\ [Next]_vars => [Kept]_vars
  BY <1>3
<1> QED
  BY <1>1, <1>2, <1>4, PTL DEF Spec, ForgettingKeepsTheRest
=============================================================================
