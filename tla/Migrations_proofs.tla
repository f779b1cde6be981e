-------------------------- MODULE Migrations_proofs --------------------------
(***************************************************************************)
(* Theorems about Migrations, for every set of processes, every sequence   *)
(* of migration files and every bound on crashes.  The inductive invariant *)
(* says how far each process is in the migration it applies, that nothing  *)
(* below this migration is left to be recorded, and that a process past    *)
(* the first statement owns the version: nobody else is past it, and it is *)
(* not recorded.                                                           *)
(***************************************************************************)
EXTENDS Migrations, WellFoundedInduction, TLAPS

LEMMA LessThanIsWellFounded ==
    IsWellFoundedOn({ss \in Nat \X Nat : ss[1] < ss[2]}, Nat)
BY NatLessThanWellFounded DEF OpToRel

LEMMA LeastNatural ==
    ASSUME NEW S \in SUBSET Nat, S # {}
    PROVE  \E m \in S : \A k \in S : m <= k
<1> DEFINE R == {ss \in Nat \X Nat : ss[1] < ss[2]}
<1>1. IsWellFoundedOn(R, Nat)
  BY LessThanIsWellFounded
<1> HIDE DEF R
<1>2. PICK m \in S : \A k \in S : <<k, m>> \notin R
  BY <1>1, WFMin
<1>3. \A k \in S : k < m => <<k, m>> \in R
  BY DEF R
<1>4. \A k \in S : m <= k
  <2> TAKE k \in S
  <2>1. m \in Nat /\ k \in Nat /\ ~(k < m)
    BY <1>2, <1>3
  <2> QED
    BY <2>1
<1> QED
  BY <1>4

LEMMA CurrentFacts ==
    ASSUME NEW p \in Procs, todo[p] \in SUBSET Versions, todo[p] # {}
    PROVE  /\ Current(p) \in todo[p] /\ Current(p) \in Versions
           /\ \A u \in todo[p] : Current(p) <= u
<1>1. Versions \subseteq Nat
  BY MigrationsAssumption DEF Versions
<1>2. \E m \in todo[p] : \A k \in todo[p] : m <= k
  BY <1>1, LeastNatural
<1> QED
  BY <1>2 DEF Current

LEMMA SizeFacts ==
    ASSUME NEW v \in Versions
    PROVE  v \in Nat /\ v >= 1 /\ Size[v] \in Nat /\ Size[v] >= 1
BY MigrationsAssumption DEF Versions

----------------------------------------------------------------------------
(* The parts of the inductive invariant. *)

Past(p) == Applying(p) /\ ~AtTheFirst(p)

(* Where each process is. *)
Located ==
    \A p \in Procs : Applying(p) =>
        /\ todo[p] # {} /\ todo[p] \subseteq OnDisk
        /\ line[p] \in 1..Size[Current(p)]
        /\ \A k \in 1..Size[Current(p)] :
               k < line[p] \/ pc[p] = "record" => <<Current(p), k>> \in schema

(* What a process does not have to apply is recorded. *)
NothingSkipped ==
    \A p \in Procs :
        /\ Applying(p) => OnDisk \subseteq recorded \cup todo[p]
        /\ pc[p] = "up" => OnDisk \subseteq recorded

(* A process past the first statement owns its version. *)
Owned ==
    \A p \in Procs : Past(p) =>
        /\ Current(p) \notin recorded
        /\ \A q \in Procs \ {p} : Past(q) => Current(q) # Current(p)

RecordedWhole == \A v \in recorded : Whole(v)

IInv ==
    /\ TypeOK /\ Located /\ NothingSkipped /\ Owned
    /\ RecordedWhole /\ AppliedInOrder

----------------------------------------------------------------------------
(* Each group of actions preserves the parts. *)

Parts == Located /\ NothingSkipped /\ Owned /\ RecordedWhole /\ AppliedInOrder

LEMMA InitInv == Init => IInv
<1> SUFFICES ASSUME Init PROVE IInv
  OBVIOUS
<1>1. TypeOK
  BY MigrationsAssumption DEF Init, TypeOK, Versions, Steps
<1>2. Located /\ NothingSkipped /\ Owned
  BY DEF Init, Located, NothingSkipped, Owned, Past, Applying
<1>3. RecordedWhole /\ AppliedInOrder
  BY DEF Init, RecordedWhole, AppliedInOrder, Begun
<1> QED
  BY <1>1, <1>2, <1>3 DEF IInv

(* A process that is at a statement is at one of the files of the image. *)
LEMMA AppliedStatement ==
    ASSUME TypeOK, Located, NEW p \in Procs, Applying(p)
    PROVE  /\ Current(p) \in todo[p] /\ Current(p) \in Versions /\ Current(p) \in OnDisk
           /\ \A u \in todo[p] : Current(p) <= u
           /\ line[p] \in 1..Size[Current(p)]
           /\ <<Current(p), line[p]>> \in Statements
<1>1. todo[p] \in SUBSET Versions /\ todo[p] # {} /\ todo[p] \subseteq OnDisk
  BY DEF TypeOK, Located
<1>2. line[p] \in 1..Size[Current(p)]
  BY DEF Located
<1> QED
  BY <1>1, <1>2, CurrentFacts DEF Statements

LEMMA TypePreserved ==
    ASSUME TypeOK, Located, [Next]_vars
    PROVE  TypeOK'
<1>1. ASSUME NEW p \in Procs, NEW V \in SUBSET Versions, GoOn(p, V)
      PROVE  /\ pc' \in [Procs -> Steps] /\ todo' \in [Procs -> SUBSET Versions]
             /\ line' \in [Procs -> Nat]
  BY <1>1 DEF GoOn, TypeOK, Steps
<1>2. ASSUME NEW p \in Procs, Down(p)
      PROVE  /\ pc' \in [Procs -> Steps] /\ todo' \in [Procs -> SUBSET Versions]
             /\ line' \in [Procs -> Nat]
  BY <1>2 DEF Down, TypeOK, Steps
<1>3. ASSUME NEW p \in Procs, Start(p) PROVE TypeOK'
  BY <1>3 DEF Start, TypeOK, Steps
<1>4. ASSUME NEW p \in Procs, Scan(p) PROVE TypeOK'
  <2>1. Pending \in SUBSET Versions
    BY MigrationsAssumption DEF Pending, OnDisk, Versions, TypeOK
  <2>2. GoOn(p, Pending) \/ Down(p)
    BY <1>4 DEF Scan
  <2> QED
    BY <2>1, <2>2, <1>1, <1>2, <1>4 DEF Scan, TypeOK
<1>5. ASSUME NEW p \in Procs, Statement(p) PROVE TypeOK'
  <2>1. <<Current(p), line[p]>> \in Statements
    BY <1>5, AppliedStatement DEF Statement, Applying
  <2> QED
    BY <2>1, <1>5 DEF Statement, TypeOK, Steps
<1>6. ASSUME NEW p \in Procs, StatementRaises(p) \/ Exit(p) PROVE TypeOK'
  BY <1>2, <1>6 DEF StatementRaises, Exit, TypeOK
<1>7. ASSUME NEW p \in Procs, Record(p) PROVE TypeOK'
  <2>1. Current(p) \in Versions /\ todo[p] \ {Current(p)} \in SUBSET Versions
    BY <1>7, AppliedStatement DEF Record, Applying, TypeOK
  <2>2. GoOn(p, todo[p] \ {Current(p)}) \/ Down(p)
    BY <1>7 DEF Record
  <2> QED
    BY <2>1, <2>2, <1>1, <1>2, <1>7 DEF Record, TypeOK
<1>8. ASSUME NEW p \in Procs, Crash(p) PROVE TypeOK'
  BY <1>2, <1>8 DEF Crash, TypeOK
<1>9. ASSUME NEW r \in Versions, Deploy(r) PROVE TypeOK'
  BY <1>9 DEF Deploy, TypeOK
<1>10. CASE UNCHANGED vars
  BY <1>10 DEF vars, TypeOK
<1> QED
  BY <1>3, <1>4, <1>5, <1>6, <1>7, <1>8, <1>9, <1>10 DEF Next, Run

(* The place of a process that does not move. *)
LEMMA Unmoved ==
    ASSUME NEW q \in Procs, pc'[q] = pc[q], todo'[q] = todo[q], line'[q] = line[q]
    PROVE  /\ Current(q)' = Current(q)
           /\ Applying(q)' = Applying(q) /\ Past(q)' = Past(q)
<1>1. Current(q)' = Current(q)
  BY DEF Current
<1>2. Applying(q)' = Applying(q) /\ AtTheFirst(q)' = AtTheFirst(q)
  BY DEF Applying, AtTheFirst
<1> QED
  BY <1>1, <1>2 DEF Past

Alone(p) ==
    \A q \in Procs \ {p} : pc'[q] = pc[q] /\ todo'[q] = todo[q] /\ line'[q] = line[q]

LEMMA ActsAlone ==
    ASSUME TypeOK, NEW p \in Procs,
           \/ Start(p) \/ Down(p) \/ Statement(p)
           \/ \E V \in SUBSET Versions : GoOn(p, V)
    PROVE  Alone(p)
BY DEF TypeOK, Alone, Start, Down, Statement, GoOn

(* A process that stops, or starts, leaves the migration it was in. *)
LEMMA StopPreserves ==
    ASSUME IInv, NEW p \in Procs, Alone(p), pc'[p] \in {"down", "scan"},
           UNCHANGED <<release, schema, recorded>>
    PROVE  Parts'
<1>1. ~Applying(p)' /\ ~Past(p)' /\ pc'[p] # "up"
  BY DEF Applying, Past
<1>2. \A q \in Procs \ {p} :
          /\ Current(q)' = Current(q) /\ Applying(q)' = Applying(q) /\ Past(q)' = Past(q)
          /\ pc'[q] = pc[q] /\ todo'[q] = todo[q] /\ line'[q] = line[q]
  BY Unmoved DEF Alone
<1>3. Located'
  BY <1>1, <1>2 DEF IInv, Located, OnDisk
<1>4. NothingSkipped'
  BY <1>1, <1>2 DEF IInv, NothingSkipped, OnDisk
<1>5. Owned'
  BY <1>1, <1>2 DEF IInv, Owned
<1>6. RecordedWhole' /\ AppliedInOrder'
  BY DEF IInv, RecordedWhole, AppliedInOrder, Whole, Begun
<1> QED
  BY <1>3, <1>4, <1>5, <1>6 DEF Parts

(* A process goes on with the versions V when no other file of the image is *)
(* left to be recorded, and what it records is whole and its own.           *)
LEMMA GoOnPreserves ==
    ASSUME IInv, NEW p \in Procs, NEW V \in SUBSET Versions, GoOn(p, V),
           V \subseteq OnDisk, UNCHANGED <<release, schema>>,
           NEW W \in SUBSET Versions, recorded' = recorded \cup W,
           OnDisk \subseteq recorded' \cup V,
           \A v \in W : Whole(v),
           \A q \in Procs \ {p} : Past(q) => Current(q) \notin W
    PROVE  Parts'
<1>1. Alone(p)
  BY ActsAlone DEF IInv
<1>2. \A q \in Procs \ {p} :
          /\ Current(q)' = Current(q) /\ Applying(q)' = Applying(q) /\ Past(q)' = Past(q)
          /\ pc'[q] = pc[q] /\ todo'[q] = todo[q] /\ line'[q] = line[q]
  BY <1>1, Unmoved DEF Alone
<1>3. /\ pc'[p] = IF V = {} THEN "up" ELSE "apply"
      /\ todo'[p] = V /\ line'[p] = 1
  BY DEF GoOn, IInv, TypeOK
<1>4. ~Past(p)'
  BY <1>3 DEF Past, AtTheFirst, Applying
<1>5. Located'
  <2>1. \A q \in Procs \ {p} : Applying(q)' =>
            /\ todo'[q] # {} /\ todo'[q] \subseteq OnDisk'
            /\ line'[q] \in 1..Size[Current(q)']
            /\ \A k \in 1..Size[Current(q)'] :
                   k < line'[q] \/ pc'[q] = "record" => <<Current(q)', k>> \in schema'
    BY <1>2 DEF IInv, Located, OnDisk
  <2>2. ASSUME Applying(p)'
        PROVE  /\ todo'[p] # {} /\ todo'[p] \subseteq OnDisk'
               /\ line'[p] \in 1..Size[Current(p)']
               /\ \A k \in 1..Size[Current(p)'] :
                      k < line'[p] \/ pc'[p] = "record" => <<Current(p)', k>> \in schema'
    <3>1. V # {} /\ pc'[p] = "apply"
      BY <1>3, <2>2 DEF Applying
    <3>2. \E m \in V : \A k \in V : m <= k
      BY <3>1, LeastNatural, MigrationsAssumption DEF Versions
    <3>3. Current(p)' \in V
      BY <3>2, <1>3 DEF Current
    <3>4. Size[Current(p)'] \in Nat /\ Size[Current(p)'] >= 1
      BY <3>3, SizeFacts
    <3> QED
      BY <3>1, <3>4, <1>3 DEF OnDisk
  <2> QED
    BY <2>1, <2>2 DEF Located
<1>6. NothingSkipped'
  <2>1. \A q \in Procs \ {p} :
            /\ Applying(q)' => OnDisk' \subseteq recorded' \cup todo'[q]
            /\ pc'[q] = "up" => OnDisk' \subseteq recorded'
    BY <1>2 DEF IInv, NothingSkipped, OnDisk
  <2>2. /\ Applying(p)' => OnDisk' \subseteq recorded' \cup todo'[p]
        /\ pc'[p] = "up" => OnDisk' \subseteq recorded'
    BY <1>3 DEF OnDisk
  <2> QED
    BY <2>1, <2>2 DEF NothingSkipped
<1>7. Owned'
  BY <1>2, <1>4 DEF IInv, Owned
<1>8. RecordedWhole' /\ AppliedInOrder'
  BY DEF IInv, RecordedWhole, AppliedInOrder, Whole, Begun
<1> QED
  BY <1>5, <1>6, <1>7, <1>8 DEF Parts

LEMMA StatementPreserves ==
    ASSUME IInv, NEW p \in Procs, Statement(p)
    PROVE  Parts'
<1> DEFINE v == Current(p)
           l == line[p]
<1>1. Alone(p)
  BY ActsAlone DEF IInv
<1>2. \A q \in Procs \ {p} :
          /\ Current(q)' = Current(q) /\ Applying(q)' = Applying(q) /\ Past(q)' = Past(q)
          /\ pc'[q] = pc[q] /\ todo'[q] = todo[q] /\ line'[q] = line[q]
  BY <1>1, Unmoved DEF Alone
<1>3. /\ pc[p] = "apply" /\ <<v, l>> \notin schema /\ schema' = schema \cup {<<v, l>>}
      /\ UNCHANGED <<release, recorded, todo>>
  BY DEF Statement, Executed
<1>4. /\ v \in todo[p] /\ v \in Versions /\ v \in OnDisk /\ \A u \in todo[p] : v <= u
      /\ l \in 1..Size[v] /\ Size[v] \in Nat /\ v \in Nat
  BY <1>3, AppliedStatement, SizeFacts DEF IInv, Applying
<1>5. Current(p)' = v
  BY <1>3 DEF Current
<1>6. \/ l < Size[v] /\ line'[p] = l + 1 /\ pc'[p] = "apply"
      \/ l = Size[v] /\ line'[p] = l /\ pc'[p] = "record"
  <2>1. CASE l < Size[v]
    BY <2>1, <1>3 DEF Statement, IInv, TypeOK
  <2>2. CASE ~(l < Size[v])
    <3>1. l = Size[v]
      BY <2>2, <1>4
    <3> QED
      BY <2>2, <3>1, <1>3 DEF Statement, IInv, TypeOK
  <2> QED
    BY <2>1, <2>2
<1>7. /\ todo[p] # {} /\ todo[p] \subseteq OnDisk
      /\ \A k \in 1..Size[v] : k < l => <<v, k>> \in schema
  BY <1>3 DEF IInv, Located, Applying
<1> HIDE DEF v, l
<1>8. Located'
  <2>1. \A q \in Procs \ {p} : Applying(q)' =>
            /\ todo'[q] # {} /\ todo'[q] \subseteq OnDisk'
            /\ line'[q] \in 1..Size[Current(q)']
            /\ \A k \in 1..Size[Current(q)'] :
                   k < line'[q] \/ pc'[q] = "record" => <<Current(q)', k>> \in schema'
    BY <1>2, <1>3 DEF IInv, Located, OnDisk
  <2>2. line'[p] \in 1..Size[v]
    BY <1>4, <1>6
  <2>3. ASSUME NEW k \in 1..Size[v], k < line'[p] \/ pc'[p] = "record"
        PROVE  <<v, k>> \in schema'
    <3>1. k \in Nat /\ (k < l \/ k = l)
      BY <1>4, <1>6, <2>3
    <3> QED
      BY <3>1, <1>3, <1>7
  <2> QED
    BY <2>1, <2>2, <2>3, <1>3, <1>5, <1>7 DEF Located, OnDisk
<1>9. NothingSkipped'
  <2>1. Applying(p) /\ pc'[p] # "up"
    BY <1>3, <1>6 DEF Applying
  <2> QED
    BY <2>1, <1>2, <1>3 DEF IInv, NothingSkipped, OnDisk
<1>10. v \notin recorded
  BY <1>3, <1>4 DEF IInv, RecordedWhole, Whole
<1>11. ASSUME NEW q \in Procs \ {p}, Past(q), Current(q) = v
       PROVE  FALSE
  <2>1. Applying(q) /\ ~AtTheFirst(q)
    BY <1>11 DEF Past
  <2>2. line[q] \in 1..Size[v] /\ \A k \in 1..Size[v] :
            k < line[q] \/ pc[q] = "record" => <<v, k>> \in schema
    BY <2>1, <1>11 DEF IInv, Located
  <2>3. pc[q] = "record" \/ 1 < line[q]
    BY <2>1, <2>2, <1>4 DEF Applying, AtTheFirst
  <2>4. <<v, 1>> \in schema
    BY <2>2, <2>3, <1>4
  <2>5. l # 1
    BY <2>4, <1>3
  <2>6. Past(p)
    BY <2>5, <1>3 DEF Past, Applying, AtTheFirst, l
  <2> QED
    BY <2>6, <1>11 DEF IInv, Owned, v
<1>12. Owned'
  BY <1>2, <1>3, <1>5, <1>10, <1>11 DEF IInv, Owned
<1>13. RecordedWhole'
  BY <1>3 DEF IInv, RecordedWhole, Whole
<1>14. AppliedInOrder'
  <2>1. 1..(v - 1) \subseteq recorded
    <3>1. OnDisk \subseteq recorded \cup todo[p]
      BY <1>3 DEF IInv, NothingSkipped, Applying
    <3>2. \A u \in 1..(v - 1) : u \in OnDisk /\ ~(v <= u)
      BY <1>4, MigrationsAssumption DEF OnDisk, IInv, TypeOK, Versions
    <3> QED
      BY <3>1, <3>2, <1>4
  <2>2. \A u \in Versions : Begun(u)' => Begun(u) \/ u = v
    BY <1>3 DEF Begun
  <2> QED
    BY <2>1, <2>2, <1>3 DEF IInv, AppliedInOrder
<1> QED
  BY <1>8, <1>9, <1>12, <1>13, <1>14 DEF Parts

LEMMA RecordPreserves ==
    ASSUME IInv, NEW p \in Procs, Record(p)
    PROVE  Parts'
<1>1. pc[p] = "record" /\ Applying(p) /\ Past(p)
  BY DEF Record, Applying, Past, AtTheFirst
<1>2. /\ Current(p) \in todo[p] /\ Current(p) \in Versions
      /\ todo[p] \subseteq OnDisk /\ todo[p] \in SUBSET Versions
  BY <1>1, AppliedStatement DEF IInv, Located, TypeOK
<1>3. Current(p) \notin recorded
  BY <1>1 DEF IInv, Owned
<1>4. GoOn(p, todo[p] \ {Current(p)})
  BY <1>3 DEF Record
<1>5. \A u \in {Current(p)} : Whole(u)
  BY <1>1 DEF IInv, Located, Whole
<1>6. \A q \in Procs \ {p} : Past(q) => Current(q) \notin {Current(p)}
  BY <1>1 DEF IInv, Owned
<1>7. /\ recorded' = recorded \cup {Current(p)}
      /\ UNCHANGED <<release, schema>>
  BY DEF Record
<1>8. OnDisk \subseteq recorded' \cup (todo[p] \ {Current(p)})
  BY <1>1, <1>7 DEF IInv, NothingSkipped
<1> QED
  BY <1>2, <1>4, <1>5, <1>6, <1>7, <1>8, GoOnPreserves

LEMMA ScanPreserves ==
    ASSUME IInv, NEW p \in Procs, Scan(p)
    PROVE  Parts'
<1>1. UNCHANGED <<release, schema, recorded>>
  BY DEF Scan
<1>2. CASE GoOn(p, Pending)
  <2>1. Pending \in SUBSET Versions /\ Pending \subseteq OnDisk
    BY MigrationsAssumption DEF Pending, OnDisk, Versions, IInv, TypeOK
  <2>2. OnDisk \subseteq recorded' \cup Pending /\ recorded' = recorded \cup {}
    BY <1>1 DEF Pending
  <2> DEFINE W == {}
  <2>3. /\ W \in SUBSET Versions /\ recorded' = recorded \cup W
        /\ \A v \in W : Whole(v)
        /\ \A q \in Procs \ {p} : Past(q) => Current(q) \notin W
    BY <2>2
  <2> HIDE DEF W
  <2> QED
    BY <1>1, <1>2, <2>1, <2>2, <2>3, GoOnPreserves
<1>3. CASE Down(p)
  <2>1. Alone(p) /\ pc'[p] = "down"
    BY <1>3, ActsAlone DEF IInv, Down, TypeOK
  <2> QED
    BY <1>1, <2>1, StopPreserves
<1> QED
  BY <1>2, <1>3 DEF Scan

LEMMA NextInv == IInv /\ [Next]_vars => IInv'
<1> SUFFICES ASSUME IInv, [Next]_vars PROVE IInv'
  OBVIOUS
<1>1. TypeOK'
  BY TypePreserved DEF IInv
<1>2. ASSUME NEW p \in Procs, StatementRaises(p) \/ Exit(p) \/ Crash(p)
      PROVE  Parts'
  <2>1. Down(p) /\ UNCHANGED <<release, schema, recorded>>
    BY <1>2 DEF StatementRaises, Exit, Crash
  <2>2. Alone(p) /\ pc'[p] = "down"
    BY <2>1, ActsAlone DEF IInv, Down, TypeOK
  <2> QED
    BY <2>1, <2>2, StopPreserves
<1>3. ASSUME NEW p \in Procs, Start(p)
      PROVE  Parts'
  <2>1. Alone(p) /\ pc'[p] = "scan" /\ UNCHANGED <<release, schema, recorded>>
    BY <1>3, ActsAlone DEF IInv, Start, TypeOK
  <2> QED
    BY <2>1, StopPreserves
<1>4. ASSUME NEW r \in Versions, Deploy(r)
      PROVE  Parts'
  <2>1. /\ \A p \in Procs : ~Applying(p)' /\ ~Past(p)' /\ pc'[p] # "up"
        /\ UNCHANGED <<schema, recorded>>
    BY <1>4 DEF Deploy, Applying, Past
  <2>2. Located' /\ NothingSkipped' /\ Owned'
    BY <2>1 DEF Located, NothingSkipped, Owned
  <2>3. RecordedWhole' /\ AppliedInOrder'
    BY <2>1 DEF IInv, RecordedWhole, AppliedInOrder, Whole, Begun
  <2> QED
    BY <2>2, <2>3 DEF Parts
<1>5. ASSUME UNCHANGED vars
      PROVE  Parts'
  <2>1. /\ \A p \in Procs : /\ Current(p)' = Current(p) /\ Applying(p)' = Applying(p)
                            /\ Past(p)' = Past(p)
        /\ UNCHANGED <<release, schema, recorded, pc, todo, line>>
    BY <1>5, Unmoved DEF vars
  <2>2. Located' /\ NothingSkipped' /\ Owned'
    BY <2>1 DEF IInv, Located, NothingSkipped, Owned, OnDisk
  <2>3. RecordedWhole' /\ AppliedInOrder'
    BY <2>1 DEF IInv, RecordedWhole, AppliedInOrder, Whole, Begun
  <2> QED
    BY <2>2, <2>3 DEF Parts
<1>6. Parts'
  BY <1>2, <1>3, <1>4, <1>5, ScanPreserves, StatementPreserves, RecordPreserves
  DEF Next, Run
<1> QED
  BY <1>1, <1>6 DEF IInv, Parts

LEMMA Inductive == Spec => []IInv
BY InitInv, NextInv, PTL DEF Spec

----------------------------------------------------------------------------
(* The theorems. *)

(* The variables keep their types. *)
THEOREM TypeCorrect == Spec => []TypeOK
<1>1. IInv => TypeOK
  BY DEF IInv
<1> QED
  BY <1>1, Inductive, PTL

(* A recorded version took effect to its last statement, and whoever is    *)
(* past run_migrations() has every version of its image recorded.          *)
THEOREM ServedSchemaIsWhole == Spec => []RecordedIsWhole
<1>1. IInv => RecordedIsWhole
  BY DEF IInv, RecordedWhole, NothingSkipped, RecordedIsWhole
<1> QED
  BY <1>1, Inductive, PTL

(* Two processes are never both past the first statement of one version. *)
THEOREM VersionHasOneOwner == Spec => []OneApplies
<1>1. ASSUME IInv, NEW p \in Procs, NEW q \in Procs, p # q,
             Applying(p), Applying(q), Current(p) = Current(q)
      PROVE  AtTheFirst(p) \/ AtTheFirst(q)
  BY <1>1 DEF IInv, Owned, Past
<1>2. IInv => OneApplies
  BY <1>1 DEF OneApplies
<1> QED
  BY <1>2, Inductive, PTL

(* No statement takes effect before every lower version is recorded. *)
THEOREM VersionsAreInOrder == Spec => []AppliedInOrder
<1>1. IInv => AppliedInOrder
  BY DEF IInv
<1> QED
  BY <1>1, Inductive, PTL
----------------------------------------------------------------------------
(* Where the database stands. *)

(* The statements of a version took effect from the first one on. *)
InSequence ==
    \A v \in Versions : \A k \in 1..Size[v] :
        <<v, k>> \in schema => \A j \in 1..(k - 1) : <<v, j>> \in schema

(* What a statement finds: its version is the first that is not recorded,  *)
(* and the statements before it are in effect.                             *)
LEMMA AppliedVersion ==
    ASSUME IInv, NEW p \in Procs, Applying(p), Current(p) \notin recorded
    PROVE  /\ Current(p) \in Versions /\ Current(p) \in OnDisk
           /\ Current(p) \notin recorded /\ 1..(Current(p) - 1) \subseteq recorded
<1>1. /\ Current(p) \in Versions /\ Current(p) \in OnDisk
      /\ \A u \in todo[p] : Current(p) <= u
  BY AppliedStatement DEF IInv
<1>2. OnDisk \subseteq recorded \cup todo[p]
  BY DEF IInv, NothingSkipped
<1>3. \A u \in 1..(Current(p) - 1) : u \in OnDisk /\ ~(Current(p) <= u)
  <2>1. Current(p) \in Nat /\ release \in Nat /\ Current(p) <= release
    BY <1>1, SizeFacts, MigrationsAssumption DEF OnDisk, IInv, TypeOK, Versions
  <2> QED
    BY <2>1 DEF OnDisk
<1> QED
  BY <1>1, <1>2, <1>3

LEMMA StatementFacts ==
    ASSUME IInv, NEW p \in Procs, Statement(p)
    PROVE  /\ Current(p) \in Versions /\ Current(p) \in OnDisk
           /\ Current(p) \notin recorded /\ 1..(Current(p) - 1) \subseteq recorded
           /\ line[p] \in 1..Size[Current(p)]
           /\ <<Current(p), line[p]>> \notin schema
           /\ \A j \in 1..(line[p] - 1) : <<Current(p), j>> \in schema
           /\ schema' = schema \cup {<<Current(p), line[p]>>}
<1>1. /\ Applying(p) /\ <<Current(p), line[p]>> \notin schema
      /\ schema' = schema \cup {<<Current(p), line[p]>>}
  BY DEF Statement, Executed, Applying
<1>2. Current(p) \in Versions /\ line[p] \in 1..Size[Current(p)]
  BY <1>1, AppliedStatement DEF IInv
<1>3. Current(p) \notin recorded
  BY <1>1, <1>2 DEF IInv, RecordedWhole, Whole
<1>4. \A j \in 1..(line[p] - 1) : j \in 1..Size[Current(p)] /\ j < line[p]
  BY <1>2, SizeFacts
<1>5. \A k \in 1..Size[Current(p)] : k < line[p] => <<Current(p), k>> \in schema
  BY <1>1 DEF IInv, Located
<1>6. \A j \in 1..(line[p] - 1) : <<Current(p), j>> \in schema
  BY <1>4, <1>5
<1>7. /\ Current(p) \in OnDisk /\ 1..(Current(p) - 1) \subseteq recorded
  BY <1>1, <1>3, AppliedVersion
<1> QED
  BY <1>1, <1>2, <1>3, <1>6, <1>7

LEMMA SequencePreserved ==
    ASSUME IInv, InSequence, [Next]_vars
    PROVE  InSequence'
<1>1. ASSUME NEW p \in Procs, Statement(p) PROVE InSequence'
  <2> DEFINE w == Current(p)
             l == line[p]
  <2>1. /\ w \in Versions /\ l \in 1..Size[w] /\ schema' = schema \cup {<<w, l>>}
        /\ \A j \in 1..(l - 1) : <<w, j>> \in schema
    BY <1>1, StatementFacts
  <2> HIDE DEF w, l
  <2> QED
    BY <2>1 DEF InSequence
<1>2. ASSUME UNCHANGED schema PROVE InSequence'
  BY <1>2 DEF InSequence
<1>3. CASE \E p \in Procs : Start(p) \/ Scan(p) \/ StatementRaises(p) \/ Record(p) \/ Exit(p) \/ Crash(p)
  BY <1>2, <1>3 DEF Start, Scan, StatementRaises, Record, Exit, Crash
<1>4. CASE (\E r \in Versions : Deploy(r)) \/ UNCHANGED vars
  BY <1>2, <1>4 DEF Deploy, vars
<1> QED
  BY <1>1, <1>3, <1>4 DEF Next, Run

Sequential == IInv /\ InSequence

LEMMA InductiveSequence == Spec => []Sequential
<1>1. Init => InSequence
  BY DEF Init, InSequence
<1>2. IInv /\ InSequence /\ [Next]_vars => InSequence'
  BY SequencePreserved
<1> QED
  BY <1>1, <1>2, Inductive, PTL DEF Spec, Sequential

(* A set of numbers that holds all below each of its own is an interval. *)
LEMMA ClosedIsPrefix ==
    ASSUME NEW n \in Nat, NEW S \in SUBSET (1..n),
           \A v \in S : 1..(v - 1) \subseteq S
    PROVE  \E m \in 0..n : S = 1..m
<1> DEFINE T == (1..(n + 1)) \ S
<1>1. T \in SUBSET Nat /\ n + 1 \in T
  OBVIOUS
<1>2. PICK m \in T : \A k \in T : m <= k
  BY <1>1, LeastNatural
<1>3. m - 1 \in 0..n
  BY <1>2
<1>4. \A v \in 1..(m - 1) : v \in S
  BY <1>2
<1>5. \A v \in S : v \in 1..(m - 1)
  <2> SUFFICES ASSUME NEW v \in S, ~(v <= m - 1) PROVE FALSE
    OBVIOUS
  <2>1. m # v /\ m \in 1..(v - 1)
    BY <1>2
  <2> QED
    BY <1>2, <2>1
<1> QED
  BY <1>3, <1>4, <1>5

LEMMA PositionFacts ==
    ASSUME NEW q \in Positions
    PROVE  /\ q = <<q[1], q[2]>> /\ q[1] \in 0..Latest /\ q[2] \in Nat
           /\ q[1] < Latest => q[1] + 1 \in Versions /\ q[2] \in 0..Size[q[1] + 1]
           /\ q[1] = Latest => q[2] = 0
<1>1. CASE q = <<Latest, 0>>
  BY <1>1, MigrationsAssumption
<1>2. CASE q \in UNION {{v - 1} \X (0..Size[v]) : v \in Versions}
  <2>1. PICK v \in Versions : q \in {v - 1} \X (0..Size[v])
    BY <1>2
  <2>2. v \in 1..Latest /\ Size[v] \in Nat
    BY SizeFacts DEF Versions
  <2>3. q = <<q[1], q[2]>> /\ q[1] = v - 1 /\ q[2] \in 0..Size[v]
    BY <2>1
  <2> QED
    BY <2>2, <2>3, MigrationsAssumption DEF Versions
<1> QED
  BY <1>1, <1>2 DEF Positions

LEMMA IsAPosition ==
    ASSUME NEW n \in Nat, n + 1 \in Versions, NEW k \in 0..Size[n + 1]
    PROVE  <<n, k>> \in Positions
<1>1. n = (n + 1) - 1
  OBVIOUS
<1>2. <<n, k>> \in {(n + 1) - 1} \X (0..Size[n + 1])
  BY <1>1
<1> QED
  BY <1>2 DEF Positions

(* A position is named by the database that stands at it. *)
Unambiguous == \A q \in Positions : StandsAt(q) => Position = q

LEMMA PositionIsUnique == Unambiguous
<1> SUFFICES ASSUME NEW q \in Positions, NEW r \in Positions, StandsAt(q), StandsAt(r)
             PROVE  q = r
  BY DEF Unambiguous, Position
<1> DEFINE n == q[1]  k == q[2]  j == r[2]
<1>1. /\ q = <<n, k>> /\ n \in 0..Latest /\ k \in Nat
      /\ n < Latest => n + 1 \in Versions /\ k \in 0..Size[n + 1]
      /\ n = Latest => k = 0
  BY PositionFacts
<1>2. r[1] = n
  <2>1. r[1] \in Nat /\ n \in Nat /\ 1..n = 1..r[1]
    BY PositionFacts, MigrationsAssumption DEF StandsAt
  <2>2. (n = 0 \/ n \in 1..r[1]) /\ (r[1] = 0 \/ r[1] \in 1..n)
    BY <2>1
  <2> QED
    BY <2>1, <2>2
<1>3. /\ r = <<n, j>> /\ j \in Nat
      /\ n < Latest => j \in 0..Size[n + 1]
      /\ n = Latest => j = 0
  BY <1>2, PositionFacts
<1> HIDE DEF n, k, j
<1>4. CASE n = Latest
  BY <1>1, <1>3, <1>4
<1>5. CASE n < Latest
  <2>1. n + 1 \in Versions /\ Size[n + 1] \in Nat /\ n \in Nat
    BY <1>1, <1>5, SizeFacts, MigrationsAssumption
  <2>2. ASSUME NEW i \in 1..Size[n + 1] PROVE i <= k <=> i <= j
    <3>1. <<n + 1, i>> \in Statements
      BY <2>1 DEF Statements
    <3>2. <<n + 1, i>> \in schema <=> i <= k
      BY <1>1, <2>1, <3>1 DEF StandsAt, n, k
    <3>3. <<n + 1, i>> \in schema <=> i <= j
      BY <1>2, <2>1, <3>1 DEF StandsAt, j
    <3> QED
      BY <3>2, <3>3
  <2>3. k = 0 \/ k \in 1..Size[n + 1]
    BY <1>1, <1>5, <2>1
  <2>4. j = 0 \/ j \in 1..Size[n + 1]
    BY <1>3, <1>5, <2>1
  <2>5. k <= j /\ j <= k
    BY <1>1, <1>3, <2>2, <2>3, <2>4
  <2> QED
    BY <1>1, <1>3, <2>5
<1> QED
  BY <1>1, <1>4, <1>5, MigrationsAssumption

(* The database always stands somewhere. *)
LEMMA StandsSomewhere == Sequential => \E q \in Positions : StandsAt(q)
<1> SUFFICES ASSUME Sequential PROVE \E q \in Positions : StandsAt(q)
  OBVIOUS
<1>0. IInv /\ InSequence /\ Latest \in Nat
  BY MigrationsAssumption DEF Sequential
<1>1. /\ recorded \subseteq Versions /\ schema \subseteq Statements
      /\ RecordedWhole /\ AppliedInOrder
  BY <1>0 DEF IInv, TypeOK
<1>2. \A v \in recorded : 1..(v - 1) \subseteq recorded
  <2> SUFFICES ASSUME NEW v \in recorded PROVE 1..(v - 1) \subseteq recorded
    OBVIOUS
  <2>1. v \in Versions /\ 1 \in 1..Size[v]
    BY <1>1, SizeFacts
  <2> QED
    BY <1>1, <2>1 DEF RecordedWhole, Whole, AppliedInOrder, Begun
<1>3. PICK n \in 0..Latest : recorded = 1..n
  <2>1. recorded \in SUBSET (1..Latest)
    BY <1>1 DEF Versions
  <2> QED
    BY <1>0, <1>2, <2>1, ClosedIsPrefix
<1>4. n \in Nat
  BY <1>0
<1>5. \A s \in Statements : s[1] \in Versions /\ s[2] \in 1..Size[s[1]] /\ s = <<s[1], s[2]>>
  BY DEF Statements
<1>6. \A s \in schema : s[1] <= n + 1
  <2> SUFFICES ASSUME NEW s \in schema PROVE s[1] <= n + 1
    OBVIOUS
  <2>1. s[1] \in Versions /\ Begun(s[1]) /\ s[1] \in Nat
    BY <1>1, <1>5, SizeFacts DEF Begun
  <2>2. 1..(s[1] - 1) \subseteq 1..n
    BY <1>1, <1>3, <2>1 DEF AppliedInOrder
  <2>3. s[1] = 1 \/ s[1] - 1 \in 1..(s[1] - 1)
    BY <2>1, SizeFacts
  <2> QED
    BY <1>4, <2>1, <2>2, <2>3
<1>7. \A s \in Statements : s[1] <= n => s \in schema
  <2> SUFFICES ASSUME NEW s \in Statements, s[1] <= n PROVE s \in schema
    OBVIOUS
  <2>1. s[1] \in recorded
    BY <1>3, <1>5, SizeFacts
  <2> QED
    BY <1>1, <1>5, <2>1 DEF RecordedWhole, Whole
<1>8. CASE n = Latest
  <2>1. \A s \in Statements : s[1] \in 1..Latest
    BY <1>5 DEF Versions
  <2>2. StandsAt(<<Latest, 0>>)
    BY <1>0, <1>1, <1>3, <1>7, <1>8, <2>1 DEF StandsAt
  <2> QED
    BY <2>2 DEF Positions
<1>9. CASE n < Latest
  <2> DEFINE V == n + 1
             S == {k \in 1..Size[V] : <<V, k>> \in schema}
  <2>1. V \in Versions /\ V \in Nat /\ Size[V] \in Nat
    BY <1>0, <1>4, <1>9, SizeFacts DEF Versions
  <2>2. S \in SUBSET (1..Size[V]) /\ \A k \in S : 1..(k - 1) \subseteq S
    BY <1>0, <2>1 DEF InSequence
  <2>3. PICK k \in 0..Size[V] : S = 1..k
    <3> HIDE DEF S, V
    <3> QED
      BY <2>1, <2>2, ClosedIsPrefix
  <2>4. ASSUME NEW s \in Statements
        PROVE  s \in schema <=> s[1] <= n \/ (s[1] = n + 1 /\ s[2] <= k)
    <3>1. s[1] \in Nat /\ s[2] \in Nat /\ s = <<s[1], s[2]>> /\ s[2] \in 1..Size[s[1]]
      BY <1>5, SizeFacts
    <3>2. CASE s[1] = V
      <4>1. s \in schema <=> s[2] \in S
        BY <3>1, <3>2
      <4>2. s[2] \in S <=> s[2] <= k
        BY <2>1, <2>3, <3>1
      <4> QED
        BY <1>4, <3>2, <4>1, <4>2
    <3>3. CASE s[1] # V
      BY <1>4, <1>6, <1>7, <3>1, <3>3
    <3> QED
      BY <3>2, <3>3
  <2>5. StandsAt(<<n, k>>)
    BY <1>1, <1>3, <2>4 DEF StandsAt
  <2>6. <<n, k>> \in Positions
    BY <1>4, <2>1, <2>3, IsAPosition
  <2> QED
    BY <2>5, <2>6
<1> QED
  BY <1>0, <1>8, <1>9

----------------------------------------------------------------------------
(* The runners implement the contract. *)

Serving == {p \in Procs : pc[p] = "up"}

LEMMA ContractInit == Init => Contract!Init
<1> SUFFICES ASSUME Init PROVE Contract!Init
  OBVIOUS
<1>1. 0 + 1 \in Versions /\ 0 \in 0..Size[0 + 1]
  BY MigrationsAssumption, SizeFacts DEF Versions
<1>2. <<0, 0>> \in Positions
  BY <1>1, IsAPosition
<1>3. \A s \in Statements : s[1] \in Nat /\ s[1] >= 1 /\ s[2] \in Nat /\ s[2] >= 1
  BY SizeFacts DEF Statements
<1>4. StandsAt(<<0, 0>>)
  BY <1>3 DEF Init, StandsAt
<1>5. Position = <<0, 0>>
  BY <1>2, <1>4, PositionIsUnique DEF Unambiguous
<1> QED
  BY <1>5 DEF Init, Contract!Init

(* The position of a database, and that it stays while nothing is written. *)
LEMMA Standing ==
    ASSUME Sequential
    PROVE  Position \in Positions /\ StandsAt(Position)
BY StandsSomewhere DEF Position

LEMMA Stays ==
    ASSUME UNCHANGED <<schema, recorded>>
    PROVE  Position' = Position
BY DEF Position, StandsAt

LEMMA PositionMovesTo ==
    ASSUME NEW q \in Positions, StandsAt(q)'
    PROVE  Position' = q
<1>1. Unambiguous'
  BY PositionIsUnique, PTL
<1> QED
  BY <1>1 DEF Unambiguous

(* A process that is elsewhere leaves the others where they are. *)
LEMMA ServingOf ==
    ASSUME IInv, NEW p \in Procs, Alone(p)
    PROVE  Serving' = IF pc'[p] = "up" THEN Serving \cup {p} ELSE Serving \ {p}
BY DEF Alone, Serving

LEMMA LeaveKept ==
    ASSUME IInv, NEW p \in Procs, Alone(p), pc'[p] # "up",
           UNCHANGED <<release, schema, recorded>>
    PROVE  Contract!Leave(p)
<1>1. Position' = Position
  BY Stays
<1>2. Serving' = Serving \ {p}
  BY ServingOf
<1> QED
  BY <1>1, <1>2 DEF Serving, Contract!Leave

LEMMA ExecuteKept ==
    ASSUME Sequential, NEW p \in Procs, Statement(p)
    PROVE  Contract!Execute
<1> DEFINE v == Current(p)  l == line[p]
<1>0. IInv /\ release \in 1..Latest /\ Latest \in Nat
  BY MigrationsAssumption DEF Sequential, IInv, TypeOK, Versions
<1>1. /\ v \in Versions /\ v \in OnDisk
      /\ v \notin recorded /\ 1..(v - 1) \subseteq recorded
      /\ l \in 1..Size[v] /\ <<v, l>> \notin schema
      /\ \A j \in 1..(l - 1) : <<v, j>> \in schema
      /\ schema' = schema \cup {<<v, l>>}
  BY <1>0, StatementFacts
<1>2. UNCHANGED <<release, recorded>>
  BY DEF Statement
<1>3. PICK n \in 0..Latest, k \in Nat :
          /\ Position = <<n, k>>
          /\ n < Latest => n + 1 \in Versions /\ k \in 0..Size[n + 1]
  BY Standing, PositionFacts
<1>4. /\ recorded = 1..n
      /\ schema = {s \in Statements : s[1] <= n \/ (s[1] = n + 1 /\ s[2] <= k)}
  BY <1>3, Standing DEF StandsAt
<1>5. Serving' = Serving
  <2>1. pc[p] # "up" /\ pc'[p] # "up" /\ Alone(p)
    BY <1>0, ActsAlone DEF Statement, IInv, TypeOK
  <2> QED
    BY <1>0, <2>1, ServingOf DEF Serving
<1>6. v \in Nat /\ v >= 1 /\ v <= release /\ Size[v] \in Nat /\ l \in Nat /\ n \in Nat
  BY <1>0, <1>1, <1>3, SizeFacts DEF OnDisk
<1> HIDE DEF v, l
<1>7. v = n + 1 /\ n < release /\ n < Latest
  <2>1. v > n
    BY <1>1, <1>4, <1>6
  <2>2. v = 1 \/ v - 1 \in 1..n
    BY <1>1, <1>4, <1>6
  <2> QED
    BY <1>0, <1>6, <2>1, <2>2
<1>8. l = k + 1
  <2>1. <<v, l>> \in Statements /\ ~(l <= k)
    <3>1. <<v, l>> \in Statements
      BY <1>1 DEF Statements
    <3> QED
      BY <1>1, <1>4, <1>7, <3>1
  <2>2. l = 1 \/ l - 1 <= k
    <3>1. CASE l # 1
      <4>1. l - 1 \in 1..(l - 1)
        BY <1>1, <1>6, <3>1
      <4>2. <<v, l - 1>> \in schema
        BY <1>1, <4>1
      <4> QED
        BY <1>4, <1>6, <1>7, <4>2
    <3> QED
      BY <3>1
  <2> QED
    BY <1>3, <1>6, <2>1, <2>2
<1>9. Position' = <<n, k + 1>>
  <2>1. k + 1 \in 0..Size[n + 1] /\ n + 1 \in Versions
    BY <1>1, <1>3, <1>7, <1>8
  <2>2. <<n, k + 1>> \in Positions
    BY <1>6, <2>1, IsAPosition
  <2>3. \A s \in Statements : s[1] \in Nat /\ s[2] \in Nat /\ s = <<s[1], s[2]>>
    BY SizeFacts DEF Statements
  <2>4. <<n + 1, k + 1>> \in Statements
    BY <1>1, <1>7, <1>8 DEF Statements
  <2>5. \A s \in Statements :
            s[1] <= n \/ (s[1] = n + 1 /\ s[2] <= k + 1)
                <=> s \in schema \/ s = <<n + 1, k + 1>>
    BY <1>3, <1>4, <1>6, <2>3
  <2>6. schema' = {s \in Statements : s[1] <= n \/ (s[1] = n + 1 /\ s[2] <= k + 1)}
    BY <1>1, <1>4, <1>7, <1>8, <2>4, <2>5
  <2>7. StandsAt(<<n, k + 1>>)'
    BY <1>2, <1>4, <2>6 DEF StandsAt
  <2> QED
    BY <2>2, <2>7, PositionMovesTo
<1>10. k < Size[n + 1]
  BY <1>1, <1>3, <1>6, <1>7, <1>8
<1>11. Position[1] = n /\ Position[2] = k /\ Position'[1] = n /\ Position'[2] = k + 1
  BY <1>3, <1>9
<1> QED
  BY <1>2, <1>5, <1>7, <1>10, <1>11 DEF Serving, Contract!Execute

LEMMA RecordKept ==
    ASSUME Sequential, NEW p \in Procs, Record(p)
    PROVE  Contract!Record(p)
<1> DEFINE v == Current(p)
<1>0. IInv /\ release \in 1..Latest /\ Latest \in Nat
  BY MigrationsAssumption DEF Sequential, IInv, TypeOK, Versions
<1>1. pc[p] = "record" /\ Applying(p) /\ Past(p) /\ UNCHANGED <<release, schema>>
  BY DEF Record, Applying, Past, AtTheFirst
<1>2. /\ v \in Versions /\ v \in OnDisk /\ v \notin recorded
      /\ 1..(v - 1) \subseteq recorded /\ Whole(v)
  <2>1. v \notin recorded
    BY <1>0, <1>1 DEF IInv, Owned
  <2>2. Whole(v)
    BY <1>0, <1>1 DEF IInv, Located, Whole
  <2> QED
    BY <1>0, <1>1, <2>1, <2>2, AppliedVersion
<1>3. /\ \A u \in todo[p] : u \in OnDisk /\ v <= u
      /\ OnDisk \subseteq recorded \cup todo[p]
  BY <1>0, <1>1, AppliedStatement DEF IInv, Located, NothingSkipped
<1>4. /\ recorded' = recorded \cup {v}
      /\ GoOn(p, todo[p] \ {v})
  BY <1>2 DEF Record
<1>5. /\ pc'[p] = IF todo[p] \ {v} = {} THEN "up" ELSE "apply"
      /\ Alone(p)
  BY <1>0, <1>4, ActsAlone DEF GoOn, IInv, TypeOK
<1>6. PICK n \in 0..Latest, k \in Nat :
          /\ Position = <<n, k>>
          /\ n < Latest => n + 1 \in Versions /\ k \in 0..Size[n + 1]
  BY Standing, PositionFacts
<1>7. /\ recorded = 1..n
      /\ schema = {s \in Statements : s[1] <= n \/ (s[1] = n + 1 /\ s[2] <= k)}
  BY <1>6, Standing DEF StandsAt
<1>8. v \in Nat /\ v >= 1 /\ v <= release /\ Size[v] \in Nat /\ Size[v] >= 1 /\ n \in Nat
  BY <1>0, <1>2, <1>6, SizeFacts DEF OnDisk
<1>9. OnDisk = 1..release
  BY DEF OnDisk
<1> HIDE DEF v
<1>10. v = n + 1 /\ n < release /\ n < Latest
  <2>1. v > n
    BY <1>2, <1>7, <1>8
  <2>2. v = 1 \/ v - 1 \in 1..n
    BY <1>2, <1>7, <1>8
  <2> QED
    BY <1>0, <1>8, <2>1, <2>2
<1>11. k = Size[n + 1]
  <2>1. <<v, Size[v]>> \in schema /\ k \in 0..Size[v]
    BY <1>2, <1>6, <1>8, <1>10 DEF Whole
  <2> QED
    BY <1>7, <1>8, <1>10, <2>1
<1>12. Position' = <<n + 1, 0>>
  <2>1. <<n + 1, 0>> \in Positions
    <3>1. CASE n + 1 = Latest
      BY <3>1 DEF Positions
    <3>2. CASE n + 1 < Latest
      <4>1. (n + 1) + 1 \in Versions /\ n + 1 \in Nat
        BY <1>0, <1>8, <3>2 DEF Versions
      <4>2. 0 \in 0..Size[(n + 1) + 1]
        BY <4>1, SizeFacts
      <4> QED
        BY <4>1, <4>2, IsAPosition
    <3> QED
      BY <1>0, <1>8, <1>10, <3>1, <3>2
  <2>2. \A s \in Statements :
            s[1] \in Nat /\ s[2] \in Nat /\ s[2] >= 1 /\ s[2] <= Size[s[1]]
    BY SizeFacts DEF Statements
  <2>3. \A s \in Statements :
            s[1] <= n + 1 \/ (s[1] = (n + 1) + 1 /\ s[2] <= 0)
                <=> s[1] <= n \/ (s[1] = n + 1 /\ s[2] <= k)
    BY <1>6, <1>8, <1>11, <2>2
  <2>4. recorded' = 1..(n + 1)
    BY <1>4, <1>7, <1>8, <1>10
  <2>5. StandsAt(<<n + 1, 0>>)'
    BY <1>1, <1>7, <2>3, <2>4 DEF StandsAt
  <2> QED
    BY <2>1, <2>5, PositionMovesTo
<1>13. todo[p] \ {v} = {} <=> n + 1 = release
  <2>1. ASSUME todo[p] \ {v} = {} PROVE n + 1 = release
    <3>1. 1..release \subseteq 1..n \cup {v}
      BY <1>3, <1>7, <1>9, <2>1
    <3>2. release \in 1..release
      BY <1>0
    <3> QED
      BY <1>0, <1>8, <1>10, <3>1, <3>2
  <2>2. ASSUME n + 1 = release PROVE todo[p] \ {v} = {}
    BY <1>3, <1>8, <1>9, <1>10, <2>2
  <2> QED
    BY <2>1, <2>2
<1>14. Serving' = IF n + 1 = release THEN Serving \cup {p} ELSE Serving
  <2>1. p \notin Serving
    BY <1>1 DEF Serving
  <2> QED
    BY <1>0, <1>5, <1>13, <2>1, ServingOf
<1>15. Position[1] = n /\ Position[2] = k /\ Position'[1] = n + 1 /\ Position'[2] = 0
  BY <1>6, <1>12
<1> QED
  BY <1>1, <1>10, <1>11, <1>14, <1>15 DEF Serving, Contract!Record

LEMMA ScanKept ==
    ASSUME Sequential, NEW p \in Procs, Scan(p)
    PROVE  Contract!Serve(p) \/ Contract!Leave(p)
<1>0. IInv /\ release \in 1..Latest /\ Latest \in Nat
  BY MigrationsAssumption DEF Sequential, IInv, TypeOK, Versions
<1>1. UNCHANGED <<release, schema, recorded>> /\ Position' = Position
  BY Stays DEF Scan
<1>2. Alone(p)
  <2>1. Pending \in SUBSET Versions
    BY <1>0 DEF Pending, OnDisk, Versions
  <2>2. GoOn(p, Pending) \/ Down(p)
    BY DEF Scan
  <2> QED
    BY <1>0, <2>1, <2>2, ActsAlone DEF IInv
<1>3. CASE pc'[p] # "up"
  BY <1>0, <1>1, <1>2, <1>3, LeaveKept
<1>4. CASE pc'[p] = "up"
  <2>1. recorded \subseteq OnDisk /\ Pending = {}
    BY <1>0, <1>4 DEF Scan, GoOn, Down, IInv, TypeOK
  <2>2. recorded = 1..release
    BY <2>1 DEF Pending, OnDisk
  <2>3. Position[1] \in 0..Latest /\ recorded = 1..Position[1]
    BY Standing, PositionFacts DEF StandsAt
  <2>4. Position[1] = release
    <3> DEFINE n == Position[1]
    <3>1. n \in Nat /\ 1..n = 1..release /\ release \in 1..release
      BY <1>0, <2>2, <2>3
    <3> HIDE DEF n
    <3>2. release \in 1..n /\ (n = 0 \/ n \in 1..release)
      BY <3>1
    <3>3. n = release
      BY <1>0, <3>1, <3>2
    <3> QED
      BY <3>3 DEF n
  <2>5. Serving' = Serving \cup {p}
    BY <1>0, <1>2, <1>4, ServingOf
  <2> QED
    BY <1>1, <2>4, <2>5 DEF Serving, Contract!Serve
<1> QED
  BY <1>3, <1>4

LEMMA ContractStep ==
    ASSUME Sequential, [Next]_vars
    PROVE  [Contract!Next]_(Contract!vars)
<1>0. IInv
  BY DEF Sequential
<1>1. ASSUME NEW p \in Procs, Start(p) PROVE Contract!Next
  <2>1. Alone(p) /\ pc'[p] # "up" /\ UNCHANGED <<release, schema, recorded>>
    BY <1>0, <1>1, ActsAlone DEF Start, IInv, TypeOK
  <2> QED
    BY <1>0, <2>1, LeaveKept DEF Contract!Next
<1>2. ASSUME NEW p \in Procs, StatementRaises(p) \/ Exit(p) \/ Crash(p) PROVE Contract!Next
  <2>1. Down(p) /\ UNCHANGED <<release, schema, recorded>>
    BY <1>2 DEF StatementRaises, Exit, Crash
  <2>2. Alone(p) /\ pc'[p] # "up"
    BY <1>0, <2>1, ActsAlone DEF IInv, Down, TypeOK
  <2> QED
    BY <1>0, <2>1, <2>2, LeaveKept DEF Contract!Next
<1>3. ASSUME NEW p \in Procs, Scan(p) PROVE Contract!Next
  BY <1>3, ScanKept DEF Contract!Next
<1>4. ASSUME NEW p \in Procs, Statement(p) PROVE Contract!Next
  BY <1>4, ExecuteKept DEF Contract!Next
<1>5. ASSUME NEW p \in Procs, Record(p) PROVE Contract!Next
  BY <1>5, RecordKept DEF Contract!Next
<1>6. ASSUME NEW r \in Versions, Deploy(r) PROVE Contract!Next
  <2>1. Serving = {} /\ Serving' = {} /\ release' = r /\ Position' = Position
    BY <1>6, Stays DEF Deploy, Serving
  <2> QED
    BY <2>1 DEF Serving, Versions, Contract!Next, Contract!Deploy
<1>7. CASE UNCHANGED vars
  <2>1. Serving' = Serving /\ release' = release /\ Position' = Position
    BY <1>7, Stays DEF vars, Serving
  <2> QED
    BY <2>1 DEF Serving, Contract!vars
<1> QED
  BY <1>1, <1>2, <1>3, <1>4, <1>5, <1>6, <1>7 DEF Next, Run

(* Any number of runners, images and crashes look like one runner that     *)
(* goes through the migrations statement by statement, never back, and a   *)
(* process serves only when the last version of its image is reached.      *)
THEOREM RunnersImplementContract == Spec => ImplementsContract
<1>1. Init => Contract!Init
  BY ContractInit
<1>2. Sequential /\ [Next]_vars => [Contract!Next]_(Contract!vars)
  BY ContractStep
<1>3. Spec => Contract!Spec
  BY <1>1, <1>2, InductiveSequence, PTL DEF Spec, Contract!Spec
<1>4. Spec => [](\E q \in Positions : StandsAt(q))
  BY StandsSomewhere, InductiveSequence, PTL
<1> QED
  BY <1>3, <1>4 DEF ImplementsContract

=============================================================================
