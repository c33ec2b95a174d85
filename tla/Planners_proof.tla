---------------------------- MODULE Planners_proof ----------------------------
(***************************************************************************)
(* The two planners: recipes over an inventory, and colour transforms.     *)
(*                                                                         *)
(* The walker, the inventory and the plan, for any streams and recipes.    *)
(* The invariant of the walk has, for each saved snapshot, the q that      *)
(* saved it: no record since is outside it, and the snapshot is what the   *)
(* records in force at that q say.  That is what a Q goes back to.         *)
(*                                                                         *)
(* Keys and transforms determine each other, for any requests, profiles    *)
(* and links.  The invariant KInv says which entries the history can hold, *)
(* and that a link that was selected is one that was observed, between the *)
(* colour spaces of the request: the key takes the spaces of the request,  *)
(* the transform those of the link.  And a plan answers all that was       *)
(* observed: DInv says what each resolver has decided of the elements      *)
(* before its position, and that the decisions already settled stay as     *)
(* they are.                                                               *)
(***************************************************************************)
EXTENDS RecipePlan, TransformPlan, ProofFacts

(* Before record i nothing was refused.                                     *)
Accepted(records, i) ==
  /\ \A k \in 1..(i - 1) : records[k].op # "malformed"
  /\ \A k \in 0..(i - 1) : Depth(records, k) >= 0

(* Record p is the q that saved the snapshot of level l and is still open.  *)
Opened(records, i, l, p, snapshot) ==
  /\ Depth(records, p - 1) = l - 1
  /\ \A k \in p..(i - 1) : Depth(records, k) >= l
  /\ SnapshotIs(records, InForce(records, p), snapshot)

WalkIs(records, i, snapshot, saved) ==
  /\ i \in 1..(Len(records) + 1)
  /\ Accepted(records, i)
  /\ SnapshotIs(records, InForce(records, i), snapshot)
  /\ Len(saved) = Depth(records, i - 1)
  /\ \A l \in 1..Len(saved) : \E p \in 1..(i - 1) : Opened(records, i, l, p, saved[l])

-----------------------------------------------------------------------------
(* Counting one record more.                                                *)
LEMMA CountStep ==
  ASSUME NEW records, NEW i \in Nat \ {0}, NEW op
  PROVE  /\ Count(records, i, op) \in Nat
         /\ Count(records, i - 1, op) \in Nat
         /\ Count(records, i, op) =
              Count(records, i - 1, op) + (IF records[i].op = op THEN 1 ELSE 0)
<1> DEFINE S(n) == {j \in 1..n : records[j].op = op}
<1>1. \A n \in Nat : IsFiniteSet(S(n))
  <2> SUFFICES ASSUME NEW n \in Nat PROVE IsFiniteSet(S(n))
    OBVIOUS
  <2>1. IsFiniteSet(1..n)
    BY FS_Interval
  <2>2. S(n) \in SUBSET (1..n)
    OBVIOUS
  <2>3. QED
    BY <2>1, <2>2, FS_Subset
<1>2. S(i) = IF records[i].op = op THEN S(i - 1) \cup {i} ELSE S(i - 1)
  OBVIOUS
<1>3. i \notin S(i - 1)
  OBVIOUS
<1>4. i - 1 \in Nat
  OBVIOUS
<1>5. Count(records, i, op) = Cardinality(S(i)) /\ Count(records, i - 1, op) = Cardinality(S(i - 1))
  BY DEF Count
<1> HIDE DEF S
<1>6. Cardinality(S(i)) \in Nat /\ Cardinality(S(i - 1)) \in Nat
  BY <1>1, <1>4, FS_CardinalityType
<1>7. CASE records[i].op = op
  <2>1. Cardinality(S(i - 1) \cup {i}) = Cardinality(S(i - 1)) + 1
    BY <1>1, <1>3, <1>4, FS_AddElement
  <2>2. QED
    BY <2>1, <1>2, <1>5, <1>6, <1>7
<1>8. QED
  BY <1>2, <1>5, <1>6, <1>7

(* A q is one level deeper, a Q one less deep, any other record as deep.    *)
LEMMA DepthStep ==
  ASSUME NEW records, NEW i \in Nat \ {0}
  PROVE  /\ Depth(records, i) \in Int
         /\ Depth(records, i - 1) \in Int
         /\ Depth(records, 0) = 0
         /\ Depth(records, i) =
              Depth(records, i - 1) + (IF records[i].op = "q" THEN 1
                                       ELSE IF records[i].op = "Q" THEN -1 ELSE 0)
<1>1. /\ Count(records, i, "q") \in Nat
      /\ Count(records, i - 1, "q") \in Nat
      /\ Count(records, i, "q") =
           Count(records, i - 1, "q") + (IF records[i].op = "q" THEN 1 ELSE 0)
  BY CountStep
<1>2. /\ Count(records, i, "Q") \in Nat
      /\ Count(records, i - 1, "Q") \in Nat
      /\ Count(records, i, "Q") =
           Count(records, i - 1, "Q") + (IF records[i].op = "Q" THEN 1 ELSE 0)
  BY CountStep
<1>3. Depth(records, 0) = 0
  <2>1. {j \in 1..0 : records[j].op = "q"} = {} /\ {j \in 1..0 : records[j].op = "Q"} = {}
    OBVIOUS
  <2>2. Count(records, 0, "q") = 0 /\ Count(records, 0, "Q") = 0
    BY <2>1, FS_EmptySet DEF Count
  <2>3. QED
    BY <2>2 DEF Depth
<1>4. QED
  BY <1>1, <1>2, <1>3 DEF Depth

LEMMA DepthType ==
  ASSUME NEW records, NEW i \in Nat
  PROVE  Depth(records, i) \in Int
<1>1. CASE i = 0
  <2>1. 1 \in Nat \ {0} /\ 1 - 1 = 0
    OBVIOUS
  <2>2. Depth(records, 1 - 1) \in Int
    BY <2>1, DepthStep
  <2>3. QED
    BY <2>1, <2>2, <1>1
<1>2. CASE i # 0
  BY <1>2, DepthStep
<1>3. QED
  BY <1>1, <1>2

-----------------------------------------------------------------------------
(* A record that closes nothing comes into force beside those in force.     *)
LEMMA InForceGrows ==
  ASSUME NEW records, NEW i \in Nat \ {0}, records[i].op # "Q"
  PROVE  InForce(records, i + 1) = InForce(records, i) \cup {i}
<1> DEFINE D(k) == Depth(records, k)
<1>1. \A k \in Nat : D(k) \in Int
  BY DepthType
<1>2. D(i) >= D(i - 1)
  BY DepthStep, <1>1
<1>3. InForce(records, i + 1) = {j \in 1..i : \A k \in j..i : D(k) >= D(j)}
  BY DEF InForce
<1>4. InForce(records, i) = {j \in 1..(i - 1) : \A k \in j..(i - 1) : D(k) >= D(j)}
  BY DEF InForce
<1> HIDE DEF D
<1>5. ASSUME NEW j \in 1..(i - 1), \A k \in j..(i - 1) : D(k) >= D(j)
      PROVE  \A k \in j..i : D(k) >= D(j)
  <2>1. D(i - 1) >= D(j) /\ D(i - 1) \in Int /\ D(j) \in Int /\ D(i) \in Int
    BY <1>5, <1>1
  <2>2. D(i) >= D(j)
    BY <2>1, <1>2
  <2>3. QED
    BY <2>2, <1>5
<1>6. \A k \in i..i : D(k) >= D(i)
  <2>1. D(i) \in Int
    BY <1>1
  <2>2. QED
    BY <2>1
<1>7. \A j \in 1..i : j = i \/ j \in 1..(i - 1)
  OBVIOUS
<1>8. \A j \in 1..(i - 1) : (\A k \in j..i : D(k) >= D(j)) => \A k \in j..(i - 1) : D(k) >= D(j)
  OBVIOUS
<1>9. \A j : j \in InForce(records, i + 1) <=> j \in InForce(records, i) \cup {i}
  <2>1. \A j : j \in InForce(records, i + 1) => j \in InForce(records, i) \cup {i}
    BY <1>3, <1>4, <1>7, <1>8
  <2>2. \A j \in InForce(records, i) : j \in InForce(records, i + 1)
    BY <1>3, <1>4, <1>5
  <2>3. i \in InForce(records, i + 1)
    BY <1>3, <1>6
  <2>4. QED
    BY <2>1, <2>2, <2>3
<1>10. QED
  BY <1>9

(* A Q puts in force what was in force at its q, and itself.                *)
LEMMA InForceReturns ==
  ASSUME NEW records, NEW i \in Nat \ {0}, records[i].op = "Q",
         NEW l \in Int, NEW p \in 1..(i - 1),
         Depth(records, i - 1) = l,
         Depth(records, p - 1) = l - 1,
         \A k \in p..(i - 1) : Depth(records, k) >= l
  PROVE  InForce(records, i + 1) = InForce(records, p) \cup {i}
<1> DEFINE D(k) == Depth(records, k)
<1>1. \A k \in Nat : D(k) \in Int
  BY DepthType
<1>2. D(i) = l - 1
  BY DepthStep, <1>1
<1>3. InForce(records, i + 1) = {j \in 1..i : \A k \in j..i : D(k) >= D(j)}
  BY DEF InForce
<1>4. InForce(records, p) = {j \in 1..(p - 1) : \A k \in j..(p - 1) : D(k) >= D(j)}
  BY DEF InForce
<1>5. D(p - 1) = l - 1 /\ \A k \in p..(i - 1) : D(k) >= l
  OBVIOUS
<1> HIDE DEF D
<1>6. ASSUME NEW j \in 1..(p - 1), \A k \in j..(p - 1) : D(k) >= D(j)
      PROVE  j \in 1..i /\ \A k \in j..i : D(k) >= D(j)
  <2>1. l - 1 >= D(j) /\ D(j) \in Int
    BY <1>6, <1>5, <1>1
  <2>2. ASSUME NEW k \in j..i PROVE D(k) >= D(j)
    <3>1. k \in j..(p - 1) \/ k \in p..(i - 1) \/ k = i
      OBVIOUS
    <3>2. D(k) \in Int
      BY <1>1
    <3>3. QED
      BY <3>1, <3>2, <2>1, <1>6, <1>5, <1>2
  <2>3. QED
    BY <2>2
<1>7. ASSUME NEW j \in 1..i, \A k \in j..i : D(k) >= D(j), j # i
      PROVE  j \in 1..(p - 1) /\ \A k \in j..(p - 1) : D(k) >= D(j)
  <2>1. l - 1 >= D(j)
    BY <1>7, <1>2
  <2>2. j \notin p..(i - 1)
    BY <2>1, <1>5, <1>1
  <2>3. j \in 1..(p - 1)
    BY <2>2, <1>7
  <2>4. QED
    BY <2>3, <1>7
<1>8. \A k \in i..i : D(k) >= D(i)
  BY <1>2
<1>9. \A j : j \in InForce(records, i + 1) <=> j \in InForce(records, p) \cup {i}
  <2>1. \A j : j \in InForce(records, i + 1) => j \in InForce(records, p) \cup {i}
    BY <1>3, <1>4, <1>7
  <2>2. \A j \in InForce(records, p) : j \in InForce(records, i + 1)
    BY <1>3, <1>4, <1>6
  <2>3. i \in InForce(records, i + 1)
    BY <1>3, <1>8
  <2>4. QED
    BY <2>1, <2>2, <2>3
<1>10. QED
  BY <1>9

-----------------------------------------------------------------------------
InForceIn(records, S, i) == i \in 1..Len(records) /\ S \subseteq 1..(i - 1)

(* A later record of an operator is its last; any other changes nothing.    *)
LEMMA LastOfStep ==
  ASSUME NEW records, NEW i, NEW S, InForceIn(records, S, i), Len(records) \in Nat, NEW op
  PROVE  LastOf(records, S \cup {i}, op) =
           IF records[i].op = op THEN i ELSE LastOf(records, S, op)
<1> DEFINE T == {j \in S : records[j].op = op}
<1> DEFINE U == {j \in S \cup {i} : records[j].op = op}
<1>1. i \in Nat /\ \A j \in S : j \in Nat /\ j < i
  BY DEF InForceIn
<1>2. LastOf(records, S, op) =
        IF T = {} THEN NoSource ELSE CHOOSE j \in T : \A k \in T : k <= j
  BY DEF LastOf
<1>3. LastOf(records, S \cup {i}, op) =
        IF U = {} THEN NoSource ELSE CHOOSE j \in U : \A k \in U : k <= j
  BY DEF LastOf
<1>4. CASE records[i].op = op
  <2>1. i \in U
    BY <1>4
  <2>2. \A k \in U : k <= i /\ k \in Nat
    BY <1>1
  <2>3. \A j \in U : (\A k \in U : k <= j) => j = i
    BY <2>1, <2>2, <1>1
  <2> HIDE DEF U
  <2>4. (CHOOSE j \in U : \A k \in U : k <= j) = i
    BY <2>1, <2>2, <2>3
  <2>5. U # {}
    BY <2>1
  <2>6. LastOf(records, S \cup {i}, op) = CHOOSE j \in U : \A k \in U : k <= j
    BY <2>5, <1>3, Zenon
  <2>7. LastOf(records, S \cup {i}, op) = i
    BY <2>6, <2>4, Zenon
  <2>8. QED
    BY <2>7, <1>4
<1>5. CASE records[i].op # op
  <2>1. U = T
    BY <1>5
  <2> HIDE DEF U, T
  <2>2. QED
    BY <2>1, <1>2, <1>3, <1>5, Zenon
<1>6. QED
  BY <1>4, <1>5

(* The last record of an operator is one of those in force, or NoSource.    *)
LEMMA LastOfIn ==
  ASSUME NEW records, NEW i, NEW S, InForceIn(records, S, i), Len(records) \in Nat, NEW op
  PROVE  LET j == LastOf(records, S, op)
         IN  j # NoSource => j \in S /\ j \in 1..Len(records) /\ records[j].op = op
<1> DEFINE T == {j \in S : records[j].op = op}
<1>1. i \in Nat /\ i <= Len(records) /\ \A j \in S : j \in 1..(i - 1)
  BY DEF InForceIn
<1>2. LastOf(records, S, op) =
        IF T = {} THEN NoSource ELSE CHOOSE j \in T : \A k \in T : k <= j
  BY DEF LastOf
<1>3. CASE T # {}
  <2>1. T \in SUBSET Nat /\ \A j \in T : j <= i
    BY <1>1
  <2>2. PICK j \in T : \A k \in T : k <= j
    <3> HIDE DEF T
    <3> QED BY <2>1, <1>1, <1>3, GreatestElement
  <2>3. LastOf(records, S, op) \in T
    <3> HIDE DEF T
    <3> QED BY <2>2, <1>2, <1>3
  <2>4. QED
    BY <2>3, <1>1
<1>4. QED
  BY <1>2, <1>3

(* A record that sets no state leaves the snapshot the one it says.         *)
LEMMA SnapshotKept ==
  ASSUME NEW records, NEW i, NEW S, InForceIn(records, S, i), Len(records) \in Nat,
         records[i].op \notin {"stroking", "nonstroking", "Tr", "cm"},
         NEW snapshot, SnapshotIs(records, S, snapshot)
  PROVE  SnapshotIs(records, S \cup {i}, snapshot)
<1>1. \A op \in {"stroking", "nonstroking", "Tr"} :
        LastOf(records, S \cup {i}, op) = LastOf(records, S, op)
  BY LastOfStep
<1>2. {j \in S \cup {i} : records[j].op = "cm"} = {j \in S : records[j].op = "cm"}
  OBVIOUS
<1>3. MatrixIs(records, S \cup {i}, snapshot.ctm)
  BY <1>2 DEF MatrixIs, SnapshotIs
<1>4. ColorIs(records, S \cup {i}, "stroking", snapshot.stroking_color)
  BY <1>1 DEF ColorIs, SnapshotIs
<1>5. ColorIs(records, S \cup {i}, "nonstroking", snapshot.nonstroking_color)
  BY <1>1 DEF ColorIs, SnapshotIs
<1>6. ModeIs(records, S \cup {i}, snapshot.text_rendering_mode)
  BY <1>1 DEF ModeIs, SnapshotIs
<1>7. QED
  BY <1>3, <1>4, <1>5, <1>6 DEF SnapshotIs

(* A record that sets a colour or the text mode.                            *)
LEMMA SnapshotSet ==
  ASSUME NEW records, NEW i, NEW S, InForceIn(records, S, i), Len(records) \in Nat,
         NEW snapshot \in Snapshot, SnapshotIs(records, S, snapshot),
         NEW color, color.source = i,
         color.space = records[i].space, color.components = records[i].components
  PROVE  /\ records[i].op = "stroking" =>
              SnapshotIs(records, S \cup {i}, [snapshot EXCEPT !.stroking_color = color])
         /\ records[i].op = "nonstroking" =>
              SnapshotIs(records, S \cup {i}, [snapshot EXCEPT !.nonstroking_color = color])
         /\ records[i].op = "Tr" =>
              SnapshotIs(records, S \cup {i},
                [snapshot EXCEPT !.text_rendering_mode = FromPdfValue(records[i].value)])
<1>1. \A op : LastOf(records, S \cup {i}, op) =
                IF records[i].op = op THEN i ELSE LastOf(records, S, op)
  BY LastOfStep
<1>2. ASSUME records[i].op # "cm", NEW ctm, MatrixIs(records, S, ctm)
      PROVE  MatrixIs(records, S \cup {i}, ctm)
  <2>1. {j \in S \cup {i} : records[j].op = "cm"} = {j \in S : records[j].op = "cm"}
    BY <1>2
  <2>2. QED
    BY <2>1, <1>2 DEF MatrixIs
<1>3. i # NoSource
  BY DEF InForceIn, NoSource
<1>4. ASSUME records[i].op = "stroking"
      PROVE  SnapshotIs(records, S \cup {i}, [snapshot EXCEPT !.stroking_color = color])
  <2> DEFINE new == [snapshot EXCEPT !.stroking_color = color]
  <2>1. /\ new.stroking_color = color /\ new.nonstroking_color = snapshot.nonstroking_color
        /\ new.text_rendering_mode = snapshot.text_rendering_mode /\ new.ctm = snapshot.ctm
    BY DEF Snapshot
  <2> HIDE DEF new
  <2>2. ColorIs(records, S \cup {i}, "stroking", new.stroking_color)
    BY <2>1, <1>1, <1>3, <1>4 DEF ColorIs
  <2>3. ColorIs(records, S \cup {i}, "nonstroking", new.nonstroking_color)
    BY <2>1, <1>1, <1>4 DEF ColorIs, SnapshotIs
  <2>4. ModeIs(records, S \cup {i}, new.text_rendering_mode)
    BY <2>1, <1>1, <1>4 DEF ModeIs, SnapshotIs
  <2>5. MatrixIs(records, S \cup {i}, new.ctm)
    BY <2>1, <1>2, <1>4 DEF SnapshotIs
  <2>6. QED
    BY <2>2, <2>3, <2>4, <2>5 DEF SnapshotIs, new
<1>5. ASSUME records[i].op = "nonstroking"
      PROVE  SnapshotIs(records, S \cup {i}, [snapshot EXCEPT !.nonstroking_color = color])
  <2> DEFINE new == [snapshot EXCEPT !.nonstroking_color = color]
  <2>1. /\ new.nonstroking_color = color /\ new.stroking_color = snapshot.stroking_color
        /\ new.text_rendering_mode = snapshot.text_rendering_mode /\ new.ctm = snapshot.ctm
    BY DEF Snapshot
  <2> HIDE DEF new
  <2>2. ColorIs(records, S \cup {i}, "nonstroking", new.nonstroking_color)
    BY <2>1, <1>1, <1>3, <1>5 DEF ColorIs
  <2>3. ColorIs(records, S \cup {i}, "stroking", new.stroking_color)
    BY <2>1, <1>1, <1>5 DEF ColorIs, SnapshotIs
  <2>4. ModeIs(records, S \cup {i}, new.text_rendering_mode)
    BY <2>1, <1>1, <1>5 DEF ModeIs, SnapshotIs
  <2>5. MatrixIs(records, S \cup {i}, new.ctm)
    BY <2>1, <1>2, <1>5 DEF SnapshotIs
  <2>6. QED
    BY <2>2, <2>3, <2>4, <2>5 DEF SnapshotIs, new
<1>6. ASSUME records[i].op = "Tr"
      PROVE  SnapshotIs(records, S \cup {i},
                [snapshot EXCEPT !.text_rendering_mode = FromPdfValue(records[i].value)])
  <2> DEFINE new == [snapshot EXCEPT !.text_rendering_mode = FromPdfValue(records[i].value)]
  <2>1. /\ new.nonstroking_color = snapshot.nonstroking_color
        /\ new.stroking_color = snapshot.stroking_color
        /\ new.text_rendering_mode = FromPdfValue(records[i].value) /\ new.ctm = snapshot.ctm
    BY DEF Snapshot
  <2> HIDE DEF new
  <2>2. ColorIs(records, S \cup {i}, "nonstroking", new.nonstroking_color)
    BY <2>1, <1>1, <1>6 DEF ColorIs, SnapshotIs
  <2>3. ColorIs(records, S \cup {i}, "stroking", new.stroking_color)
    BY <2>1, <1>1, <1>6 DEF ColorIs, SnapshotIs
  <2>4. ModeIs(records, S \cup {i}, new.text_rendering_mode)
    BY <2>1, <1>1, <1>3, <1>6 DEF ModeIs
  <2>5. MatrixIs(records, S \cup {i}, new.ctm)
    BY <2>1, <1>2, <1>6 DEF SnapshotIs
  <2>6. QED
    BY <2>2, <2>3, <2>4, <2>5 DEF SnapshotIs, new
<1>7. QED
  BY <1>4, <1>5, <1>6

(* A cm comes before the matrices it is after.                              *)
LEMMA SnapshotConcat ==
  ASSUME NEW records, NEW i, NEW S, InForceIn(records, S, i), Len(records) \in Nat,
         NEW snapshot \in Snapshot, SnapshotIs(records, S, snapshot),
         records[i].op = "cm", records[i].matrix \in Matrices
  PROVE  SnapshotIs(records, S \cup {i},
           [snapshot EXCEPT !.ctm = <<records[i].matrix>> \o @])
<1> DEFINE new == [snapshot EXCEPT !.ctm = <<records[i].matrix>> \o @]
<1>1. /\ new.nonstroking_color = snapshot.nonstroking_color
      /\ new.stroking_color = snapshot.stroking_color
      /\ new.text_rendering_mode = snapshot.text_rendering_mode
      /\ new.ctm = <<records[i].matrix>> \o snapshot.ctm
  BY DEF Snapshot
<1> HIDE DEF new
<1>2. \A op \in {"stroking", "nonstroking", "Tr"} :
        LastOf(records, S \cup {i}, op) = LastOf(records, S, op)
  BY LastOfStep
<1>3. ColorIs(records, S \cup {i}, "nonstroking", new.nonstroking_color)
  BY <1>1, <1>2 DEF ColorIs, SnapshotIs
<1>4. ColorIs(records, S \cup {i}, "stroking", new.stroking_color)
  BY <1>1, <1>2 DEF ColorIs, SnapshotIs
<1>5. ModeIs(records, S \cup {i}, new.text_rendering_mode)
  BY <1>1, <1>2 DEF ModeIs, SnapshotIs
<1>6. MatrixIs(records, S \cup {i}, new.ctm)
  <2> DEFINE T == {j \in S : records[j].op = "cm"}
  <2> DEFINE From(j) == {k \in T : j <= k}
  <2>1. {j \in S \cup {i} : records[j].op = "cm"} = T \cup {i}
    OBVIOUS
  <2>2. i \in Nat /\ i \notin T /\ \A j \in T : j \in Nat /\ j < i
    BY DEF InForceIn
  <2>3. IsFiniteSet(T)
    <3>1. IsFiniteSet(1..(i - 1))
      BY <2>2, FS_Interval
    <3>2. T \in SUBSET (1..(i - 1))
      BY DEF InForceIn
    <3>3. QED
      BY <3>1, <3>2, FS_Subset
  <2>4. Len(snapshot.ctm) = Cardinality(T)
        /\ \A j \in T : snapshot.ctm[Cardinality(From(j))] = records[j].matrix
    BY DEF SnapshotIs, MatrixIs
  <2>5. \A j \in T \cup {i} : {k \in T \cup {i} : j <= k} = From(j) \cup {i}
    BY <2>2
  <2>6. \A j \in T \cup {i} : From(j) \in SUBSET T /\ i \notin From(j)
    BY <2>2
  <2>7. \A j \in T : j \in From(j)
    BY <2>2
  <2>8. From(i) = {}
    BY <2>2
  <2> HIDE DEF T, From
  <2>9. snapshot.ctm \in Seq(Matrices)
    BY DEF Snapshot
  <2>10. /\ Len(new.ctm) = 1 + Len(snapshot.ctm)
         /\ new.ctm[1] = records[i].matrix
         /\ \A n \in 1..Len(snapshot.ctm) : new.ctm[n + 1] = snapshot.ctm[n]
    BY <2>9, <1>1
  <2>11. Cardinality(T \cup {i}) = Cardinality(T) + 1 /\ Cardinality(T) \in Nat
    BY <2>2, <2>3, FS_AddElement, FS_CardinalityType
  <2>12. Len(new.ctm) = Cardinality(T \cup {i})
    BY <2>10, <2>11, <2>4
  <2>13. ASSUME NEW j \in T \cup {i}
         PROVE  new.ctm[Cardinality(From(j) \cup {i})] = records[j].matrix
    <3>1. IsFiniteSet(From(j))
      BY <2>3, <2>6, FS_Subset
    <3>2. Cardinality(From(j) \cup {i}) = Cardinality(From(j)) + 1 /\ Cardinality(From(j)) \in Nat
      BY <3>1, <2>6, FS_AddElement, FS_CardinalityType
    <3>3. CASE j = i
      <4>1. Cardinality(From(j)) = 0
        BY <3>3, <2>8, FS_EmptySet
      <4>2. QED
        BY <4>1, <3>2, <3>3, <2>10
    <3>4. CASE j \in T
      <4>1. Cardinality(From(j)) # 0
        BY <3>1, <3>4, <2>7, FS_EmptySet
      <4>2. Cardinality(From(j)) <= Cardinality(T)
        BY <2>3, <2>6, FS_Subset
      <4>3. Cardinality(From(j)) \in 1..Len(snapshot.ctm)
        BY <4>1, <4>2, <3>2, <2>4, <2>11
      <4>4. QED
        BY <4>3, <3>2, <3>4, <2>4, <2>10
    <3>5. QED
      BY <3>3, <3>4
  <2>14. \A j \in T \cup {i} :
           new.ctm[Cardinality({k \in T \cup {i} : j <= k})] = records[j].matrix
    BY <2>13, <2>5, Zenon
  <2>15. QED
    BY <2>1, <2>12, <2>14 DEF MatrixIs
<1>7. QED
  BY <1>3, <1>4, <1>5, <1>6 DEF SnapshotIs, new

-----------------------------------------------------------------------------
(* A walk starts with nothing in force and nothing saved.                   *)
LEMMA WalkStarts ==
  ASSUME NEW records, Len(records) \in Nat
  PROVE  WalkIs(records, 1, PageDefault, <<>>)
<1>1. Depth(records, 0) = 0
  <2>1. 1 \in Nat \ {0}
    OBVIOUS
  <2>2. QED
    BY <2>1, DepthStep
<1>2. InForce(records, 1) = {}
  BY DEF InForce
<1>3. Accepted(records, 1)
  BY <1>1 DEF Accepted
<1>4. \A op : {j \in {} : records[j].op = op} = {}
  OBVIOUS
<1>5. \A op : LastOf(records, {}, op) = NoSource
  BY <1>4 DEF LastOf
<1>6. MatrixIs(records, {}, <<>>)
  <2>1. Cardinality({}) = 0
    BY FS_EmptySet
  <2>2. QED
    BY <2>1, <1>4 DEF MatrixIs
<1>7. SnapshotIs(records, {}, PageDefault)
  BY <1>5, <1>6 DEF SnapshotIs, PageDefault, ColorIs, ModeIs, DefaultColor
<1>8. QED
  BY <1>1, <1>2, <1>3, <1>7 DEF WalkIs

(* What a walk at record i owes the steps below.                            *)
LEMMA WalkFacts ==
  ASSUME NEW records, Len(records) \in Nat, NEW i \in 1..Len(records),
         NEW snapshot, NEW saved, WalkIs(records, i, snapshot, saved)
  PROVE  /\ InForceIn(records, InForce(records, i), i)
         /\ SnapshotIs(records, InForce(records, i), snapshot)
         /\ i \in Nat \ {0}
         /\ records[i].op # "malformed" /\ Depth(records, i) >= 0 => Accepted(records, i + 1)
<1>1. SnapshotIs(records, InForce(records, i), snapshot) /\ Accepted(records, i)
  BY DEF WalkIs
<1>2. InForceIn(records, InForce(records, i), i)
  BY DEF InForceIn, InForce
<1>3. ASSUME records[i].op # "malformed", Depth(records, i) >= 0
      PROVE  Accepted(records, i + 1)
  BY <1>1, <1>3 DEF Accepted
<1>4. QED
  BY <1>1, <1>2, <1>3

(* The saved snapshots are those of the same q's as long as none is closed. *)
LEMMA OpenedStep ==
  ASSUME NEW records, NEW i \in Nat \ {0}, NEW l \in Int, NEW p \in 1..(i - 1),
         NEW snapshot, Opened(records, i, l, p, snapshot), Depth(records, i) >= l
  PROVE  p \in 1..((i + 1) - 1) /\ Opened(records, i + 1, l, p, snapshot)
BY DEF Opened

(* A record that neither saves nor restores.                                *)
LEMMA WalkAdvances ==
  ASSUME NEW records, Len(records) \in Nat, NEW i \in 1..Len(records),
         NEW snapshot, NEW saved, Len(saved) \in Nat, WalkIs(records, i, snapshot, saved),
         records[i].op \notin {"q", "Q", "malformed"},
         NEW next, SnapshotIs(records, InForce(records, i) \cup {i}, next)
  PROVE  WalkIs(records, i + 1, next, saved)
<1>1. i \in Nat \ {0} /\ i + 1 \in 1..(Len(records) + 1)
  OBVIOUS
<1>2. Depth(records, i) = Depth(records, i - 1) /\ Depth(records, i) \in Int
  BY DepthStep, <1>1
<1>3. Len(saved) = Depth(records, i)
  BY <1>2 DEF WalkIs
<1>4. Accepted(records, i + 1)
  BY <1>3, WalkFacts
<1>5. InForce(records, i + 1) = InForce(records, i) \cup {i}
  BY <1>1, InForceGrows
<1>6. \A l \in 1..Len(saved) : \E p \in 1..((i + 1) - 1) : Opened(records, i + 1, l, p, saved[l])
  <2> SUFFICES ASSUME NEW l \in 1..Len(saved)
               PROVE  \E p \in 1..((i + 1) - 1) : Opened(records, i + 1, l, p, saved[l])
    OBVIOUS
  <2>1. PICK p \in 1..(i - 1) : Opened(records, i, l, p, saved[l])
    BY DEF WalkIs
  <2>2. Depth(records, i) >= l
    BY <1>3
  <2>3. QED
    BY <2>1, <2>2, <1>1, OpenedStep
<1>7. (i + 1) - 1 = i
  OBVIOUS
<1>8. QED
  BY <1>1, <1>3, <1>4, <1>5, <1>6, <1>7 DEF WalkIs

(* A q saves what is in force at it.                                        *)
LEMMA WalkSaves ==
  ASSUME NEW records, Len(records) \in Nat, NEW i \in 1..Len(records),
         NEW snapshot \in Snapshot, NEW saved \in Seq(Snapshot),
         WalkIs(records, i, snapshot, saved), records[i].op = "q"
  PROVE  WalkIs(records, i + 1, snapshot, Append(saved, snapshot))
<1> DEFINE deeper == Append(saved, snapshot)
<1>1. i \in Nat \ {0} /\ i + 1 \in 1..(Len(records) + 1)
  OBVIOUS
<1>2. Depth(records, i) = Depth(records, i - 1) + 1 /\ Depth(records, i) \in Int
  BY DepthStep, <1>1
<1>3. /\ Len(deeper) = Len(saved) + 1 /\ Len(saved) \in Nat
      /\ deeper[Len(saved) + 1] = snapshot
      /\ \A l \in 1..Len(saved) : deeper[l] = saved[l]
  OBVIOUS
<1>4. Len(saved) = Depth(records, i - 1)
  BY DEF WalkIs
<1> HIDE DEF deeper
<1>5. Accepted(records, i + 1)
  BY <1>2, <1>3, <1>4, WalkFacts
<1>6. InForce(records, i + 1) = InForce(records, i) \cup {i}
  BY <1>1, InForceGrows
<1>7. SnapshotIs(records, InForce(records, i + 1), snapshot)
  BY <1>6, WalkFacts, SnapshotKept
<1>8. \A l \in 1..Len(deeper) : \E p \in 1..((i + 1) - 1) : Opened(records, i + 1, l, p, deeper[l])
  <2> SUFFICES ASSUME NEW l \in 1..Len(deeper)
               PROVE  \E p \in 1..((i + 1) - 1) : Opened(records, i + 1, l, p, deeper[l])
    OBVIOUS
  <2>1. CASE l = Len(saved) + 1
    <3>1. Depth(records, i - 1) = l - 1
      BY <2>1, <1>4, <1>3
    <3>2. \A k \in i..((i + 1) - 1) : Depth(records, k) >= l
      BY <2>1, <1>2, <1>3, <1>4
    <3>3. SnapshotIs(records, InForce(records, i), deeper[l])
      BY <2>1, <1>3, WalkFacts
    <3>4. i \in 1..((i + 1) - 1)
      OBVIOUS
    <3>5. QED
      BY <3>1, <3>2, <3>3, <3>4 DEF Opened
  <2>2. CASE l # Len(saved) + 1
    <3>1. l \in 1..Len(saved)
      BY <2>2, <1>3
    <3>2. PICK p \in 1..(i - 1) : Opened(records, i, l, p, saved[l])
      BY <3>1 DEF WalkIs
    <3>3. Depth(records, i) >= l
      BY <3>1, <1>2, <1>3, <1>4
    <3>4. deeper[l] = saved[l]
      BY <3>1, <1>3
    <3>5. l \in Int
      BY <3>1
    <3>6. QED
      BY <3>2, <3>3, <3>4, <3>5, <1>1, OpenedStep
  <2>3. QED
    BY <2>1, <2>2
<1>9. Len(deeper) = Depth(records, (i + 1) - 1)
  BY <1>2, <1>3, <1>4
<1>10. QED
  BY <1>1, <1>5, <1>7, <1>8, <1>9 DEF WalkIs, deeper

(* A Q goes back to the snapshot of the q it closes.                        *)
LEMMA WalkRestores ==
  ASSUME NEW records, Len(records) \in Nat, NEW i \in 1..Len(records),
         NEW snapshot, NEW saved \in Seq(Snapshot), saved # <<>>,
         WalkIs(records, i, snapshot, saved), records[i].op = "Q"
  PROVE  WalkIs(records, i + 1, saved[Len(saved)], SubSeq(saved, 1, Len(saved) - 1))
<1>1. i \in Nat \ {0} /\ i + 1 \in 1..(Len(records) + 1)
  OBVIOUS
<1>2. Depth(records, i) = Depth(records, i - 1) - 1 /\ Depth(records, i) \in Int
  <2>1. /\ Depth(records, i) \in Int
        /\ Depth(records, i - 1) \in Int
        /\ Depth(records, i) =
             Depth(records, i - 1) + (IF records[i].op = "q" THEN 1
                                      ELSE IF records[i].op = "Q" THEN -1 ELSE 0)
    BY DepthStep, <1>1
  <2>2. records[i].op # "q"
    OBVIOUS
  <2>3. QED
    BY <2>1, <2>2
<1> DEFINE l == Len(saved)
           back == SubSeq(saved, 1, Len(saved) - 1)
<1>3. /\ Len(back) = l - 1 /\ l \in Nat \ {0}
      /\ \A k \in 1..Len(back) : back[k] = saved[k]
  BY Popped
<1>4. l = Depth(records, i - 1)
  BY DEF WalkIs
<1>5. PICK p \in 1..(i - 1) : Opened(records, i, l, p, saved[l])
  BY <1>3 DEF WalkIs
<1> HIDE DEF l, back
<1>6. Accepted(records, i + 1)
  BY <1>2, <1>3, <1>4, WalkFacts
<1>7. InForce(records, i + 1) = InForce(records, p) \cup {i}
  <2>1. /\ Depth(records, p - 1) = l - 1
        /\ \A k \in p..(i - 1) : Depth(records, k) >= l
    BY <1>5 DEF Opened
  <2>2. l \in Int
    BY <1>3
  <2>3. Depth(records, i - 1) = l
    BY <1>4
  <2>4. QED
    BY <2>1, <2>2, <2>3, <1>1, InForceReturns
<1>8. SnapshotIs(records, InForce(records, i + 1), saved[l])
  <2>1. SnapshotIs(records, InForce(records, p), saved[l])
    BY <1>5 DEF Opened
  <2>2. InForceIn(records, InForce(records, p), i)
    <3>1. InForce(records, p) \subseteq 1..(p - 1)
      BY DEF InForce
    <3>2. QED
      BY <3>1 DEF InForceIn
  <2>3. QED
    BY <2>1, <2>2, <1>7, SnapshotKept
<1>9. \A k \in 1..Len(back) : \E r \in 1..((i + 1) - 1) : Opened(records, i + 1, k, r, back[k])
  <2> SUFFICES ASSUME NEW k \in 1..Len(back)
               PROVE  \E r \in 1..((i + 1) - 1) : Opened(records, i + 1, k, r, back[k])
    OBVIOUS
  <2>1. k \in 1..l /\ k <= l - 1 /\ k \in Int
    BY <1>3
  <2>2. PICK r \in 1..(i - 1) : Opened(records, i, k, r, saved[k])
    BY <2>1 DEF WalkIs, l
  <2>3. Depth(records, i) >= k
    BY <2>1, <1>2, <1>3, <1>4
  <2>4. back[k] = saved[k]
    BY <1>3
  <2>5. QED
    BY <2>1, <2>2, <2>3, <2>4, <1>1, OpenedStep
<1>10. Len(back) = Depth(records, (i + 1) - 1)
  BY <1>1, <1>2, <1>3, <1>4
<1>11. QED
  BY <1>1, <1>6, <1>8, <1>9, <1>10 DEF WalkIs, l, back

-----------------------------------------------------------------------------
(* A walk is refused at the record where its records stop, and nowhere else.*)
LEMMA StopsIs ==
  ASSUME NEW records, Len(records) \in Nat, NEW i \in 1..(Len(records) + 1),
         Accepted(records, i),
         i = Len(records) + 1 \/ records[i].op = "malformed" \/ Depth(records, i) < 0
  PROVE  Stops(records) = i
<1> DEFINE Stop(n) ==
      /\ n = Len(records) + 1 \/ records[n].op = "malformed" \/ Depth(records, n) < 0
      /\ \A j \in 1..(n - 1) : records[j].op # "malformed" /\ Depth(records, j) >= 0
<1>1. Stop(i)
  BY DEF Accepted
<1>2. ASSUME NEW n \in 1..(Len(records) + 1), Stop(n)
      PROVE  n = i
  <2>1. ~(n < i)
    <3>1. SUFFICES ASSUME n < i PROVE FALSE
      OBVIOUS
    <3>2. n # Len(records) + 1 /\ n \in 1..(i - 1) /\ Depth(records, n) \in Int
      BY <3>1, DepthType
    <3>3. records[n].op # "malformed" /\ Depth(records, n) >= 0
      BY <3>2, <1>1
    <3>4. QED
      BY <3>2, <3>3, <1>2
  <2>2. ~(i < n)
    <3>1. SUFFICES ASSUME i < n PROVE FALSE
      OBVIOUS
    <3>2. i # Len(records) + 1 /\ i \in 1..(n - 1) /\ Depth(records, i) \in Int
      BY <3>1, DepthType
    <3>3. records[i].op # "malformed" /\ Depth(records, i) >= 0
      BY <3>2, <1>2
    <3>4. QED
      BY <3>2, <3>3, <1>1
  <2>3. QED
    BY <2>1, <2>2
<1>3. Stops(records) = CHOOSE n \in 1..(Len(records) + 1) : Stop(n)
  BY DEF Stops
<1> HIDE DEF Stop
<1>4. QED
  BY <1>1, <1>2, <1>3

-----------------------------------------------------------------------------
(* What the operands of a record are.                                       *)
LEMMA RecordFields ==
  ASSUME NEW r \in Record
  PROVE  /\ r.op = "cm" => r.matrix \in Matrices
         /\ r.op \in {"stroking", "nonstroking"} =>
              r.space \in DeviceSpace /\ r.components \in Components
BY DEF Record

LEMMA OpType ==
  ASSUME WalkTypeOK, call <= Len(calls)
  PROVE  /\ Records \in Seq(Record) /\ Len(Records) \in Nat
         /\ calls[call] \in BuildCall /\ call \in 1..Len(calls)
         /\ at <= Len(Records) => Op \in Record /\ at \in 1..Len(Records)
<1>1. call \in 1..Len(calls) /\ calls[call] \in BuildCall
  BY ElementOfSeq DEF WalkTypeOK
<1>2. Records \in Seq(Record)
  BY <1>1 DEF Records, BuildCall
<1>3. Len(Records) \in Nat
  BY <1>2, LenProperties
<1>4. at <= Len(Records) => Op \in Record /\ at \in 1..Len(Records)
  BY <1>2, <1>3, ElementOfSeq DEF Op, WalkTypeOK
<1>5. QED
  BY <1>1, <1>2, <1>3, <1>4

LEMMA FromPdfValueType ==
  ASSUME NEW value
  PROVE  FromPdfValue(value) \in Mode
<1>1. CASE value \in 0..3
  <2>1. value = 0 \/ value = 1 \/ value = 2 \/ value = 3
    BY <1>1
  <2>2. QED
    BY <2>1, <1>1 DEF FromPdfValue, Mode
<1>2. CASE value \notin 0..3
  BY <1>2 DEF FromPdfValue, Mode
<1>3. QED
  BY <1>1, <1>2

(* The walker's own state stays of its type.                                *)
LEMMA WalkTyped ==
  ASSUME WalkTypeOK, ChangeState \/ Observing
  PROVE  at' \in Nat \ {0} /\ state' \in Snapshot /\ stack' \in Seq(Snapshot)
<1>1. Walking /\ at' = at + 1
  BY DEF ChangeState, Observing, Save, Restore, ConcatMatrix, SetStrokingColor,
         SetNonstrokingColor, SetTextRenderingMode, Is
<1>2. Op \in Record /\ at' \in Nat \ {0}
  BY <1>1, OpType DEF Walking, WalkTypeOK
<1>3. state \in Snapshot /\ stack \in Seq(Snapshot)
  BY DEF WalkTypeOK
<1>4. CASE Save
  BY <1>2, <1>3, <1>4 DEF Save
<1>5. CASE Restore
  <2>1. stack # <<>> /\ stack' = SubSeq(stack, 1, Len(stack) - 1) /\ state' = stack[Len(stack)]
    BY <1>5 DEF Restore
  <2>2. stack' \in Seq(Snapshot) /\ Len(stack) \in 1..Len(stack)
    BY <2>1, <1>3, Popped
  <2>3. state' \in Snapshot
    BY <2>1, <2>2, <1>3, ElementOfSeq
  <2>4. QED
    BY <2>2, <2>3, <1>2
<1>6. CASE ConcatMatrix
  <2>1. Op.matrix \in Matrices
    BY <1>2, <1>6, RecordFields DEF ConcatMatrix, Is
  <2>2. <<Op.matrix>> \o state.ctm \in Seq(Matrices)
    BY <2>1, <1>3 DEF Snapshot
  <2>3. QED
    BY <2>2, <1>2, <1>3, <1>6 DEF ConcatMatrix, Snapshot
<1>7. CASE SetStrokingColor \/ SetNonstrokingColor
  <2>1. SourcedColor \in DeviceColor
    BY <1>2, <1>7, RecordFields
       DEF SetStrokingColor, SetNonstrokingColor, Is, SourcedColor, DeviceColor, WalkTypeOK
  <2>2. QED
    BY <2>1, <1>2, <1>3, <1>7 DEF SetStrokingColor, SetNonstrokingColor, Snapshot
<1>8. CASE SetTextRenderingMode
  BY <1>2, <1>3, <1>8, FromPdfValueType DEF SetTextRenderingMode, Snapshot
<1>9. CASE Observing
  BY <1>2, <1>3, <1>9 DEF Observing
<1>10. QED
  BY <1>4, <1>5, <1>6, <1>7, <1>8, <1>9 DEF ChangeState

(* Each step of a walk keeps its invariant.                                 *)
LEMMA WalkStep ==
  ASSUME WalkTypeOK, call <= Len(calls), WalkIs(Records, at, state, stack),
         ChangeState \/ Observing
  PROVE  WalkIs(Records, at', state', stack')
<1>1. Walking /\ at' = at + 1
  BY DEF ChangeState, Observing, Save, Restore, ConcatMatrix, SetStrokingColor,
         SetNonstrokingColor, SetTextRenderingMode, Is
<1>2. /\ Len(Records) \in Nat /\ at \in 1..Len(Records) /\ Op \in Record /\ Op = Records[at]
  BY <1>1, OpType DEF Walking, Op
<1>3. state \in Snapshot /\ stack \in Seq(Snapshot) /\ Len(stack) \in Nat
  BY LenProperties DEF WalkTypeOK
<1>4. /\ InForceIn(Records, InForce(Records, at), at)
      /\ SnapshotIs(Records, InForce(Records, at), state)
  BY <1>2, WalkFacts
<1>5. ASSUME NEW next, Op.op \notin {"q", "Q", "malformed"},
             SnapshotIs(Records, InForce(Records, at) \cup {at}, next)
      PROVE  WalkIs(Records, at + 1, next, stack)
  BY <1>2, <1>3, <1>5, WalkAdvances
<1>6. CASE Save
  <2>1. WalkIs(Records, at + 1, state, Append(stack, state))
    BY <1>2, <1>3, <1>6, WalkSaves DEF Save, Is
  <2>2. state' = state /\ stack' = Append(stack, state)
    BY <1>6 DEF Save
  <2>3. QED
    BY <2>1, <2>2, <1>1
<1>7. CASE Restore
  <2>1. WalkIs(Records, at + 1, stack[Len(stack)], SubSeq(stack, 1, Len(stack) - 1))
    BY <1>2, <1>3, <1>7, WalkRestores DEF Restore, Is
  <2>2. state' = stack[Len(stack)] /\ stack' = SubSeq(stack, 1, Len(stack) - 1)
    BY <1>7 DEF Restore
  <2>3. QED
    BY <2>1, <2>2, <1>1
<1>8. CASE ConcatMatrix
  <2>1. Op.op = "cm" /\ state' = [state EXCEPT !.ctm = <<Op.matrix>> \o @] /\ stack' = stack
    BY <1>8 DEF ConcatMatrix, Is
  <2>2. Op.matrix \in Matrices
    BY <2>1, <1>2, RecordFields
  <2>3. SnapshotIs(Records, InForce(Records, at) \cup {at}, [state EXCEPT !.ctm = <<Op.matrix>> \o @])
    BY <2>1, <2>2, <1>2, <1>3, <1>4, SnapshotConcat
  <2>4. WalkIs(Records, at + 1, [state EXCEPT !.ctm = <<Op.matrix>> \o @], stack)
    BY <2>1, <2>3, <1>5
  <2>5. QED
    BY <2>1, <2>4, <1>1
<1>9. /\ SourcedColor.source = at /\ SourcedColor.space = Records[at].space
      /\ SourcedColor.components = Records[at].components
  BY <1>2 DEF SourcedColor
<1>10. CASE SetStrokingColor
  <2>1. /\ Op.op = "stroking" /\ stack' = stack
        /\ state' = [state EXCEPT !.stroking_color = SourcedColor]
    BY <1>10 DEF SetStrokingColor, Is
  <2>2. SnapshotIs(Records, InForce(Records, at) \cup {at}, [state EXCEPT !.stroking_color = SourcedColor])
    BY <2>1, <1>2, <1>3, <1>4, <1>9, SnapshotSet
  <2>3. WalkIs(Records, at + 1, [state EXCEPT !.stroking_color = SourcedColor], stack)
    BY <2>1, <2>2, <1>5
  <2>4. QED
    BY <2>1, <2>3, <1>1
<1>11. CASE SetNonstrokingColor
  <2>1. /\ Op.op = "nonstroking" /\ stack' = stack
        /\ state' = [state EXCEPT !.nonstroking_color = SourcedColor]
    BY <1>11 DEF SetNonstrokingColor, Is
  <2>2. SnapshotIs(Records, InForce(Records, at) \cup {at}, [state EXCEPT !.nonstroking_color = SourcedColor])
    BY <2>1, <1>2, <1>3, <1>4, <1>9, SnapshotSet
  <2>3. WalkIs(Records, at + 1, [state EXCEPT !.nonstroking_color = SourcedColor], stack)
    BY <2>1, <2>2, <1>5
  <2>4. QED
    BY <2>1, <2>3, <1>1
<1>12. CASE SetTextRenderingMode
  <2> DEFINE next == [state EXCEPT !.text_rendering_mode = FromPdfValue(Op.value)]
  <2>1. Op.op = "Tr" /\ stack' = stack /\ state' = next
    BY <1>12 DEF SetTextRenderingMode, Is
  <2>2. \E color : /\ color.source = at /\ color.space = Records[at].space
                   /\ color.components = Records[at].components
    BY <1>9
  <2>3. SnapshotIs(Records, InForce(Records, at) \cup {at}, next)
    BY <2>1, <2>2, <1>2, <1>3, <1>4, SnapshotSet
  <2> HIDE DEF next
  <2>4. WalkIs(Records, at + 1, next, stack)
    BY <2>1, <2>3, <1>5
  <2>5. QED
    BY <2>1, <2>4, <1>1
<1>13. CASE Observing
  <2>1. /\ Op.op \in {"S", "f", "B", "n", "Tj", "Do", "other"}
        /\ state' = state /\ stack' = stack
    BY <1>13 DEF Observing
  <2>2. SnapshotIs(Records, InForce(Records, at) \cup {at}, state)
    BY <2>1, <1>2, <1>4, SnapshotKept
  <2>3. WalkIs(Records, at + 1, state, stack)
    BY <2>1, <2>2, <1>5
  <2>4. QED
    BY <2>1, <2>3, <1>1
<1>14. QED
  BY <1>6, <1>7, <1>8, <1>10, <1>11, <1>12, <1>13 DEF ChangeState

-----------------------------------------------------------------------------
(* A colour painted with is that of the last setter in force.               *)
PaintedWith(records, i, color) ==
  /\ color.space \in DeviceSpace
  /\ \/ color.usage = "Stroke" /\ color.source = LastInForce(records, i, "stroking")
     \/ color.usage = "Fill" /\ color.source = LastInForce(records, i, "nonstroking")

EntryIs(c, e) ==
  /\ e.range \in 1..Len(c.records)
  /\ \/ \A j \in 1..Len(e.colors) : e.colors[j].space = "Unknown"
     \/ \A j \in 1..Len(e.colors) : PaintedWith(c.records, e.range, e.colors[j])

(* What was built of call n before its record i.                            *)
BuiltIs(c, n, i, entries) ==
  /\ \A k \in 1..Len(entries) : entries[k].call = n /\ EntryIs(c, entries[k])
  /\ \A j, k \in 1..Len(entries) : j < k => entries[j].range < entries[k].range
  /\ {entries[k].range : k \in 1..Len(entries)} = {p \in PaintsOf(c) : p < i}

(* What the inventory holds of call n once that is over.                    *)
WholeOrAbsent(entries, n, c) ==
  LET mine == {i \in 1..Len(entries) : entries[i].call = n}
  IN  /\ \A i, j \in mine : i < j => entries[i].range < entries[j].range
      /\ {entries[i].range : i \in mine} =
           (IF Stops(c.records) <= Len(c.records) THEN {} ELSE PaintsOf(c))

InventoryIs(entries, n, cs) ==
  /\ \A k \in 1..Len(entries) :
       entries[k].call \in 1..(n - 1) /\ EntryIs(cs[entries[k].call], entries[k])
  /\ \A c \in 1..(n - 1) : WholeOrAbsent(entries, c, cs[c])

-----------------------------------------------------------------------------
(* The colours observed at a record are those the walker's state says.      *)
LEMMA ObservationsAre ==
  ASSUME WalkTypeOK, SnapshotIs(Records, InForce(Records, at), state)
  PROVE  /\ Observations \in Seq(ColorObservation)
         /\ \A j \in 1..Len(Observations) : PaintedWith(Records, at, Observations[j])
<1> DEFINE S == {o \in ColorObservation : PaintedWith(Records, at, o)}
<1>1. /\ state.stroking_color \in DeviceColor /\ state.nonstroking_color \in DeviceColor
      /\ state.stroking_color.source = LastInForce(Records, at, "stroking")
      /\ state.nonstroking_color.source = LastInForce(Records, at, "nonstroking")
  BY DEF WalkTypeOK, Snapshot, SnapshotIs, ColorIs, LastInForce
<1>2. Observation("Stroke") \in S
  BY <1>1 DEF Observation, ColorObservation, DeviceColor, PaintedWith
<1>3. Observation("Fill") \in S
  BY <1>1 DEF Observation, ColorObservation, DeviceColor, PaintedWith
<1> HIDE DEF S
<1>4. Observed("Stroke") \in Seq(S) /\ Observed("Fill") \in Seq(S)
  BY <1>2, <1>3 DEF Observed
<1>5. Observations \in Seq(S)
  BY <1>4, ConcatProperties DEF Observations
<1>6. Len(Observations) \in Nat /\ \A j \in 1..Len(Observations) : Observations[j] \in S
  BY <1>5, ElementOfSeq, LenProperties
<1>7. S \subseteq ColorObservation
  BY DEF S
<1>8. Seq(S) \subseteq Seq(ColorObservation)
  BY <1>7
<1>9. QED
  BY <1>5, <1>6, <1>8 DEF S

(* At a record that paints there is one entry, of the call and the record;  *)
(* at any other there is none.                                              *)
LEMMA EntriesAre ==
  ASSUME WalkTypeOK, Walking, SnapshotIs(Records, InForce(Records, at), state)
  PROVE  \/ Entries = <<>> /\ at \notin PaintsOf(calls[call])
         \/ \E e \in InventoryEntry :
              /\ Entries = <<e>> /\ at \in PaintsOf(calls[call])
              /\ e.call = call /\ e.range = at /\ EntryIs(calls[call], e)
<1>1. /\ Op \in Record /\ at \in 1..Len(Records) /\ calls[call] \in BuildCall
      /\ call \in 1..Len(calls) /\ Op = calls[call].records[at] /\ Records = calls[call].records
  BY OpType DEF Walking, Op, Records
<1>2. at \in Nat /\ call \in Nat
  BY DEF WalkTypeOK
<1>3. /\ calls[call].page \in Nat /\ calls[call].scope \in XObjectNames \cup {PageScope}
      /\ calls[call].image_names \subseteq XObjectNames
      /\ calls[call].form_names \subseteq XObjectNames
  BY <1>1 DEF BuildCall
<1>4. /\ Observations \in Seq(ColorObservation)
      /\ \A j \in 1..Len(Observations) : PaintedWith(Records, at, Observations[j])
  BY ObservationsAre
<1>5. at \in PaintsOf(calls[call]) <=>
        \/ Op.op \in {"S", "f", "B", "Tj"}
        \/ Op.op = "Do" /\ Op.name \in calls[call].image_names \cup calls[call].form_names
  BY <1>1 DEF PaintsOf
<1>6. \A kind, colors, capabilities :
        LET e == Entry(kind, colors, capabilities)
        IN  /\ e.call = call /\ e.range = at /\ e.colors = colors
            /\ (/\ kind \in {"Vector", "Text", "Image", "FormXObject"}
                /\ colors \in Seq(ColorObservation) /\ capabilities \in SUBSET Capability)
               => e \in InventoryEntry
  BY <1>2, <1>3 DEF Entry, InventoryEntry
<1>7. ASSUME NEW kind \in {"Vector", "Text", "Image", "FormXObject"},
             NEW colors \in Seq(ColorObservation), NEW capabilities \in SUBSET Capability,
             \/ \A j \in 1..Len(colors) : colors[j].space = "Unknown"
             \/ \A j \in 1..Len(colors) : PaintedWith(Records, at, colors[j])
      PROVE  LET e == Entry(kind, colors, capabilities)
             IN  /\ e \in InventoryEntry /\ e.call = call /\ e.range = at
                 /\ EntryIs(calls[call], e)
  BY <1>1, <1>6, <1>7 DEF EntryIs
<1>8. CASE Op.op \in DOMAIN PathUses
  <2>1. Op.op \in {"S", "f", "B", "n"} /\ Uses = PathUses[Op.op]
    BY <1>8 DEF PathUses, Uses
  <2>2. Uses # {} <=> Op.op \in {"S", "f", "B"}
    BY <2>1 DEF PathUses
  <2>3. CASE Op.op = "n"
    <3>1. Entries = <<>> /\ at \notin PaintsOf(calls[call])
      BY <2>2, <2>3, <1>5 DEF Entries
    <3>2. QED
      BY <3>1
  <2>4. CASE Op.op \in {"S", "f", "B"}
    <3>1. Entries = <<Entry("Vector", Observations, {"RewriteColorOperand"})>>
      BY <2>2, <2>4, <1>8 DEF Entries
    <3>2. {"RewriteColorOperand"} \in SUBSET Capability
      BY DEF Capability
    <3>3. QED
      BY <3>1, <3>2, <2>4, <1>4, <1>5, <1>7
  <2>5. QED
    BY <2>1, <2>3, <2>4
<1>9. CASE Op.op = "Tj"
  <2> DEFINE can == IF Uses = {} THEN {} ELSE {"RewriteColorOperand", "AddTextSpreadStroke"}
  <2>1. Entries = <<Entry("Text", Observations, can)>>
    BY <1>9 DEF Entries, PathUses
  <2>2. can \in SUBSET Capability
    BY DEF Capability
  <2> HIDE DEF can
  <2>3. QED
    BY <2>1, <2>2, <1>4, <1>5, <1>7, <1>9
<1>10. Op.op = "Do" \/ Op.op \notin (DOMAIN PathUses) \cup {"Tj", "Do"} \/ Op.op \in (DOMAIN PathUses) \cup {"Tj"}
  OBVIOUS
<1>11. CASE Op.op = "Do"
  <2>1. {"ReadOnly"} \in SUBSET Capability
    BY DEF Capability
  <2>2. CASE Op.name \in calls[call].image_names
    <3>1. Entries = <<Entry("Image", <<ImageColor>>, {"ReadOnly"})>>
      BY <2>2, <1>11 DEF Entries, PathUses
    <3>2. /\ <<ImageColor>> \in Seq(ColorObservation)
          /\ \A j \in 1..Len(<<ImageColor>>) : <<ImageColor>>[j].space = "Unknown"
      BY DEF ImageColor, ColorObservation, Components, NoSource
    <3>3. QED
      BY <3>1, <3>2, <2>1, <2>2, <1>5, <1>7, <1>11
  <2>3. CASE Op.name \notin calls[call].image_names /\ Op.name \in calls[call].form_names
    <3>1. Entries = <<Entry("FormXObject", <<>>, {"ReadOnly"})>>
      BY <2>3, <1>11 DEF Entries, PathUses
    <3>2. /\ <<>> \in Seq(ColorObservation)
          /\ \A j \in 1..Len(<<>>) : <<>>[j].space = "Unknown"
      OBVIOUS
    <3>3. QED
      BY <3>1, <3>2, <2>1, <2>3, <1>5, <1>7, <1>11
  <2>4. CASE Op.name \notin calls[call].image_names \cup calls[call].form_names
    <3>1. Entries = <<>> /\ at \notin PaintsOf(calls[call])
      BY <2>4, <1>5, <1>11 DEF Entries, PathUses
    <3>2. QED
      BY <3>1
  <2>5. QED
    BY <2>2, <2>3, <2>4
<1>12. CASE Op.op \notin (DOMAIN PathUses) \cup {"Tj", "Do"}
  <2>1. Entries = <<>> /\ at \notin PaintsOf(calls[call])
    BY <1>5, <1>12 DEF Entries, PathUses
  <2>2. QED
    BY <2>1
<1>13. QED
  BY <1>8, <1>9, <1>10, <1>11, <1>12

-----------------------------------------------------------------------------
(* What was built follows the walk.                                         *)
LEMMA BuiltPasses ==
  ASSUME NEW c, NEW n, NEW i \in Nat, NEW entries,
         BuiltIs(c, n, i, entries), i \notin PaintsOf(c)
  PROVE  BuiltIs(c, n, i + 1, entries)
<1>1. {p \in PaintsOf(c) : p < i + 1} = {p \in PaintsOf(c) : p < i}
  BY DEF PaintsOf
<1>2. QED
  BY <1>1 DEF BuiltIs

LEMMA BuiltGrows ==
  ASSUME NEW c, NEW n, NEW i \in Nat, NEW entries \in Seq(InventoryEntry),
         BuiltIs(c, n, i, entries), i \in PaintsOf(c),
         NEW e \in InventoryEntry, e.call = n, e.range = i, EntryIs(c, e)
  PROVE  BuiltIs(c, n, i + 1, entries \o <<e>>)
<1> DEFINE more == entries \o <<e>>
<1>1. /\ Len(entries) \in Nat /\ Len(more) = Len(entries) + 1
      /\ more[Len(entries) + 1] = e
      /\ \A k \in 1..Len(entries) : more[k] = entries[k]
  OBVIOUS
<1> HIDE DEF more
<1>2. {p \in PaintsOf(c) : p < i + 1} = {p \in PaintsOf(c) : p < i} \cup {i}
  BY DEF PaintsOf
<1>3. {more[k].range : k \in 1..Len(more)} = {entries[k].range : k \in 1..Len(entries)} \cup {i}
  BY <1>1
<1>4. \A k \in 1..Len(more) : more[k].call = n /\ EntryIs(c, more[k])
  BY <1>1 DEF BuiltIs
<1>5. \A k \in 1..Len(entries) : entries[k].range < i
  BY DEF BuiltIs
<1>6. \A j, k \in 1..Len(more) : j < k => more[j].range < more[k].range
  BY <1>1, <1>5 DEF BuiltIs
<1>7. QED
  BY <1>2, <1>3, <1>4, <1>6 DEF BuiltIs, more

(* A call that failed leaves the inventory, and is absent from it.          *)
LEMMA InventoryWithout ==
  ASSUME NEW entries, NEW n \in Nat \ {0}, NEW cs, InventoryIs(entries, n, cs),
         Stops(cs[n].records) <= Len(cs[n].records)
  PROVE  InventoryIs(entries, n + 1, cs)
<1>1. {i \in 1..Len(entries) : entries[i].call = n} = {}
  BY DEF InventoryIs
<1>2. WholeOrAbsent(entries, n, cs[n])
  BY <1>1 DEF WholeOrAbsent
<1>3. \A c \in 1..((n + 1) - 1) : c = n \/ c \in 1..(n - 1)
  OBVIOUS
<1>4. \A k \in 1..(n - 1) : k \in 1..((n + 1) - 1)
  OBVIOUS
<1>5. QED
  BY <1>2, <1>3, <1>4 DEF InventoryIs

(* A call that succeeded adds what was built.                               *)
LEMMA InventoryWith ==
  ASSUME NEW entries \in Seq(InventoryEntry), NEW n \in Nat \ {0}, NEW cs,
         InventoryIs(entries, n, cs),
         Len(cs[n].records) \in Nat,
         Stops(cs[n].records) = Len(cs[n].records) + 1,
         NEW new \in Seq(InventoryEntry), BuiltIs(cs[n], n, Len(cs[n].records) + 1, new)
  PROVE  InventoryIs(entries \o new, n + 1, cs)
<1> DEFINE all == entries \o new
           Mine(seq, c) == {i \in 1..Len(seq) : seq[i].call = c}
<1>1. /\ Len(entries) \in Nat /\ Len(new) \in Nat /\ Len(all) = Len(entries) + Len(new)
      /\ \A k \in 1..Len(entries) : all[k] = entries[k]
      /\ \A k \in 1..Len(new) : all[Len(entries) + k] = new[k]
  BY LenProperties, ConcatProperties
<1> HIDE DEF all
<1>2. \A k \in 1..Len(entries) :
        entries[k].call \in 1..(n - 1) /\ EntryIs(cs[entries[k].call], entries[k])
  BY DEF InventoryIs
<1>3. \A k \in 1..Len(new) : new[k].call = n /\ EntryIs(cs[n], new[k])
  BY DEF BuiltIs
<1>4. \A k \in 1..Len(all) :
        \/ k \in 1..Len(entries)
        \/ k - Len(entries) \in 1..Len(new) /\ k = Len(entries) + (k - Len(entries))
  BY <1>1
<1>5. \A k \in 1..Len(all) :
        all[k].call \in 1..((n + 1) - 1) /\ EntryIs(cs[all[k].call], all[k])
  <2> SUFFICES ASSUME NEW k \in 1..Len(all)
               PROVE  all[k].call \in 1..((n + 1) - 1) /\ EntryIs(cs[all[k].call], all[k])
    OBVIOUS
  <2>1. CASE k \in 1..Len(entries)
    BY <2>1, <1>1, <1>2
  <2>2. CASE k - Len(entries) \in 1..Len(new) /\ k = Len(entries) + (k - Len(entries))
    <3>1. all[k] = new[k - Len(entries)]
      BY <2>2, <1>1
    <3>2. QED
      BY <3>1, <2>2, <1>3
  <2>3. QED
    BY <2>1, <2>2, <1>4
<1>6. ASSUME NEW c \in 1..(n - 1)
      PROVE  WholeOrAbsent(all, c, cs[c])
  <2>1. Mine(all, c) = Mine(entries, c)
    <3>1. \A k \in Mine(all, c) : k \in 1..Len(entries)
      <4> SUFFICES ASSUME NEW k \in Mine(all, c), k \notin 1..Len(entries) PROVE FALSE
        OBVIOUS
      <4>1. all[k] = new[k - Len(entries)] /\ k - Len(entries) \in 1..Len(new)
        BY <1>1, <1>4
      <4>2. all[k].call = n
        BY <4>1, <1>3
      <4>3. QED
        BY <4>2
    <3>2. \A k \in 1..Len(entries) : k \in 1..Len(all) /\ all[k].call = entries[k].call
      BY <1>1
    <3>3. QED
      BY <3>1, <3>2
  <2>2. \A k \in Mine(entries, c) : all[k] = entries[k]
    BY <1>1
  <2>3. /\ \A i, j \in Mine(entries, c) : i < j => entries[i].range < entries[j].range
        /\ {entries[i].range : i \in Mine(entries, c)} =
             (IF Stops(cs[c].records) <= Len(cs[c].records) THEN {} ELSE PaintsOf(cs[c]))
    BY DEF InventoryIs, WholeOrAbsent
  <2>4. \A i, j \in Mine(all, c) : i < j => all[i].range < all[j].range
    BY <2>1, <2>2, <2>3
  <2>5. {all[i].range : i \in Mine(all, c)} = {entries[i].range : i \in Mine(entries, c)}
    BY <2>1, <2>2
  <2>6. QED
    BY <2>3, <2>4, <2>5 DEF WholeOrAbsent
<1>7. WholeOrAbsent(all, n, cs[n])
  <2>1. \A k \in Mine(all, n) :
          /\ k - Len(entries) \in 1..Len(new) /\ k \in Nat
          /\ all[k] = new[k - Len(entries)]
    <3> SUFFICES ASSUME NEW k \in Mine(all, n)
                 PROVE  /\ k - Len(entries) \in 1..Len(new) /\ k \in Nat
                        /\ all[k] = new[k - Len(entries)]
      OBVIOUS
    <3>1. k \notin 1..Len(entries)
      BY <1>1, <1>2
    <3>2. QED
      BY <3>1, <1>1, <1>4
  <2>2. \A k \in 1..Len(new) : Len(entries) + k \in Mine(all, n) /\ all[Len(entries) + k] = new[k]
    BY <1>1, <1>3
  <2>3. \A j, k \in 1..Len(new) : j < k => new[j].range < new[k].range
    BY DEF BuiltIs
  <2>4. \A i, j \in Mine(all, n) : i < j => all[i].range < all[j].range
    <3> SUFFICES ASSUME NEW i \in Mine(all, n), NEW j \in Mine(all, n), i < j
                 PROVE  all[i].range < all[j].range
      OBVIOUS
    <3> HIDE DEF Mine
    <3>1. i - Len(entries) < j - Len(entries)
      BY <2>1, <1>1
    <3>2. QED
      BY <3>1, <2>1, <2>3
  <2>5. {all[i].range : i \in Mine(all, n)} = {new[k].range : k \in 1..Len(new)}
    <3> HIDE DEF Mine
    <3>1. \A i \in Mine(all, n) : \E k \in 1..Len(new) : all[i].range = new[k].range
      BY <2>1
    <3>2. \A k \in 1..Len(new) : \E i \in Mine(all, n) : new[k].range = all[i].range
      BY <2>2
    <3>3. \A x : x \in {all[i].range : i \in Mine(all, n)} =>
                   x \in {new[k].range : k \in 1..Len(new)}
      BY <3>1
    <3>4. \A x : x \in {new[k].range : k \in 1..Len(new)} =>
                   x \in {all[i].range : i \in Mine(all, n)}
      BY <3>2
    <3>5. QED
      BY <3>3, <3>4
  <2>6. {new[k].range : k \in 1..Len(new)} = PaintsOf(cs[n])
    <3>1. {p \in PaintsOf(cs[n]) : p < Len(cs[n].records) + 1} = PaintsOf(cs[n])
      BY DEF PaintsOf
    <3>2. QED
      BY <3>1 DEF BuiltIs
  <2>7. ~(Stops(cs[n].records) <= Len(cs[n].records))
    OBVIOUS
  <2>8. QED
    BY <2>4, <2>5, <2>6, <2>7 DEF WholeOrAbsent
<1>8. \A c \in 1..((n + 1) - 1) : c = n \/ c \in 1..(n - 1)
  OBVIOUS
<1>9. QED
  BY <1>5, <1>6, <1>7, <1>8 DEF InventoryIs, all

-----------------------------------------------------------------------------
(* PatchesServeTheirTarget of one patch.                                    *)
PatchServes(cs, entries, targets, patch) ==
  LET e == entries[patch.object]
      records == cs[e.call].records
      setter == patch.boundary.record_range
      usage == IF records[setter].op = "stroking" THEN "Stroke" ELSE "Fill"
  IN  /\ records[setter].op \in {"stroking", "nonstroking"}
      /\ setter = LastInForce(records, e.range, records[setter].op)
      /\ {e.colors[j].usage : j \in 1..Len(e.colors)} = {usage}
      /\ patch.object \in InRange(targets)

BuildInv ==
  /\ call <= Len(calls) =>
       WalkIs(Records, at, state, stack) /\ BuiltIs(calls[call], call, at, built)
  /\ InventoryIs(inventory, call, calls)

PlanInv ==
  /\ step = 0 => entry = 1 /\ steps = <<>>
  /\ step > 0 => call > Len(calls)
  /\ step > 0 => Len(steps) = IF step <= Len(recipe) THEN step ELSE Len(recipe)
  /\ SelectionAnswered
  /\ PatchesServeTheirTarget

IInv == TypeOK /\ BuildInv /\ PlanInv

-----------------------------------------------------------------------------
(* Adding at the end.                                                       *)
LEMMA AppendRange ==
  ASSUME NEW S, NEW seq \in Seq(S), NEW x \in S
  PROVE  InRange(Append(seq, x)) = InRange(seq) \cup {x}
<1>1. /\ Len(seq) \in Nat /\ Len(Append(seq, x)) = Len(seq) + 1
      /\ Append(seq, x)[Len(seq) + 1] = x
      /\ \A k \in 1..Len(seq) : Append(seq, x)[k] = seq[k]
  OBVIOUS
<1>2. QED
  BY <1>1 DEF InRange

LEMMA AppendIncreasing ==
  ASSUME NEW S, NEW seq \in Seq(S), NEW x \in S, S \subseteq Nat,
         Increasing(seq), \A y \in InRange(seq) : y < x
  PROVE  Increasing(Append(seq, x))
<1>1. /\ Len(seq) \in Nat /\ Len(Append(seq, x)) = Len(seq) + 1
      /\ Append(seq, x)[Len(seq) + 1] = x
      /\ \A k \in 1..Len(seq) : Append(seq, x)[k] = seq[k]
  OBVIOUS
<1>2. \A k \in 1..Len(seq) : seq[k] < x
  BY DEF InRange
<1>3. QED
  BY <1>1, <1>2 DEF Increasing

Skip == [object : Nat, reason : SkipReason]

LEMMA AppendObjects ==
  ASSUME NEW seq \in Seq(Skip), NEW x \in Skip
  PROVE  /\ Objects(Append(seq, x)) = Append(Objects(seq), x.object)
         /\ Objects(seq) \in Seq(Nat) /\ x.object \in Nat
<1>1. /\ Len(seq) \in Nat /\ Len(Append(seq, x)) = Len(seq) + 1
      /\ Append(seq, x)[Len(seq) + 1] = x
      /\ \A k \in 1..Len(seq) : Append(seq, x)[k] = seq[k] /\ seq[k] \in Skip
  OBVIOUS
<1>2. Objects(seq) \in Seq(Nat) /\ Len(Objects(seq)) = Len(seq)
  BY <1>1 DEF Objects, Skip
<1>3. x.object \in Nat
  BY DEF Skip
<1>4. /\ Append(Objects(seq), x.object) \in Seq(Nat)
      /\ Len(Append(Objects(seq), x.object)) = Len(seq) + 1
      /\ Append(Objects(seq), x.object)[Len(seq) + 1] = x.object
      /\ \A k \in 1..Len(seq) : Append(Objects(seq), x.object)[k] = seq[k].object
  BY <1>1, <1>2, <1>3 DEF Objects
<1>5. /\ Objects(Append(seq, x)) \in Seq(Nat)
      /\ Len(Objects(Append(seq, x))) = Len(seq) + 1
      /\ \A k \in 1..(Len(seq) + 1) : Objects(Append(seq, x))[k] = Append(seq, x)[k].object
  BY <1>1, <1>3 DEF Objects, Skip
<1> DEFINE n == Len(seq)
           more == Append(seq, x)
           a == Objects(more)
           b == Append(Objects(seq), x.object)
<1>6. /\ n \in Nat
      /\ a \in Seq(Nat) /\ Len(a) = n + 1 /\ \A k \in 1..(n + 1) : a[k] = more[k].object
      /\ b \in Seq(Nat) /\ Len(b) = n + 1 /\ b[n + 1] = x.object
      /\ \A k \in 1..n : b[k] = seq[k].object
      /\ more[n + 1] = x /\ \A k \in 1..n : more[k] = seq[k]
  BY <1>1, <1>4, <1>5
<1> HIDE DEF n, more, a, b
<1>7. a = b
  <2>1. \A k \in 1..(n + 1) : k = n + 1 \/ k \in 1..n
    BY <1>6
  <2>2. \A k \in 1..Len(a) : a[k] = b[k]
    BY <2>1, <1>6
  <2>3. QED
    BY <2>2, <1>6, SeqEqual
<1>8. QED
  BY <1>2, <1>3, <1>7 DEF a, b, more

(* One entry passed over, skipped or taken.                                 *)
LEMMA AnswerPasses ==
  ASSUME NEW select, NEW entries, NEW seen \in Nat \ {0}, NEW plan,
         Answered(select, entries, seen - 1, plan), ~ Matches(select, entries[seen])
  PROVE  Answered(select, entries, seen, plan)
<1>1. {i \in 1..seen : Matches(select, entries[i])} = {i \in 1..(seen - 1) : Matches(select, entries[i])}
  <2>1. \A i \in 1..seen : i = seen \/ i \in 1..(seen - 1)
    OBVIOUS
  <2>2. \A i \in 1..(seen - 1) : i \in 1..seen
    OBVIOUS
  <2>3. QED
    BY <2>1, <2>2
<1>2. QED
  BY <1>1 DEF Answered

LEMMA AnswerAdds ==
  ASSUME NEW select, NEW entries, NEW seen \in Nat \ {0}, NEW plan \in ActionPlan,
         Answered(select, entries, seen - 1, plan), Matches(select, entries[seen]),
         NEW next \in ActionPlan,
         \/ next.targets = Append(plan.targets, seen) /\ next.skipped = plan.skipped
         \/ /\ next.targets = plan.targets
            /\ \E skip \in Skip :
                 skip.object = seen /\ next.skipped = Append(plan.skipped, skip)
  PROVE  Answered(select, entries, seen, next)
<1> DEFINE before == {i \in 1..(seen - 1) : Matches(select, entries[i])}
           after == {i \in 1..seen : Matches(select, entries[i])}
           targets == InRange(plan.targets)
           skipped == InRange(Objects(plan.skipped))
<1>1. after = before \cup {seen}
  <2>1. \A i \in 1..seen : i = seen \/ i \in 1..(seen - 1)
    OBVIOUS
  <2>2. \A i \in 1..(seen - 1) : i \in 1..seen
    OBVIOUS
  <2>3. QED
    BY <2>1, <2>2
<1>2. \A i \in before : i < seen
  OBVIOUS
<1>3. /\ targets \cap skipped = {} /\ targets \cup skipped = before
      /\ Increasing(plan.targets) /\ Increasing(Objects(plan.skipped))
  BY DEF Answered
<1>4. plan.targets \in Seq(Nat) /\ plan.skipped \in Seq(Skip)
  BY DEF ActionPlan, Skip
<1> HIDE DEF before, after, targets, skipped
<1>5. /\ seen \notin targets /\ seen \notin skipped
      /\ \A i \in targets \cup skipped : i < seen
  BY <1>2, <1>3
<1>6. CASE next.targets = Append(plan.targets, seen) /\ next.skipped = plan.skipped
  <2>1. InRange(next.targets) = targets \cup {seen} /\ InRange(Objects(next.skipped)) = skipped
    BY <1>4, <1>6, AppendRange DEF targets, skipped
  <2>2. Increasing(next.targets) /\ Increasing(Objects(next.skipped))
    BY <1>3, <1>4, <1>5, <1>6, AppendIncreasing DEF targets
  <2>3. (targets \cup {seen}) \cap skipped = {} /\ (targets \cup {seen}) \cup skipped = after
    BY <1>1, <1>3, <1>5
  <2>4. QED
    BY <2>1, <2>2, <2>3 DEF Answered, after
<1>7. CASE /\ next.targets = plan.targets
           /\ \E skip \in Skip :
                skip.object = seen /\ next.skipped = Append(plan.skipped, skip)
  <2>1. PICK skip \in Skip : skip.object = seen /\ next.skipped = Append(plan.skipped, skip)
    BY <1>7
  <2>2. Objects(next.skipped) = Append(Objects(plan.skipped), seen) /\ Objects(plan.skipped) \in Seq(Nat)
    BY <2>1, <1>4, AppendObjects
  <2>3. InRange(next.targets) = targets /\ InRange(Objects(next.skipped)) = skipped \cup {seen}
    BY <2>2, <1>7, AppendRange DEF targets, skipped
  <2>4. Increasing(next.targets) /\ Increasing(Objects(next.skipped))
    BY <2>2, <1>3, <1>5, <1>7, AppendIncreasing DEF skipped
  <2>5. targets \cap (skipped \cup {seen}) = {} /\ targets \cup (skipped \cup {seen}) = after
    BY <1>1, <1>3, <1>5
  <2>6. QED
    BY <2>3, <2>4, <2>5 DEF Answered, after
<1>8. QED
  BY <1>6, <1>7

LEMMA AnswerStarts ==
  ASSUME NEW select, NEW entries
  PROVE  Answered(select, entries, 0, EmptyPlan)
<1>1. InRange(<<>>) = {} /\ Objects(<<>>) = <<>> /\ Increasing(<<>>)
  BY DEF InRange, Objects, Increasing
<1>2. {i \in 1..0 : Matches(select, entries[i])} = {}
  OBVIOUS
<1>3. QED
  BY <1>1, <1>2 DEF Answered, EmptyPlan

-----------------------------------------------------------------------------
(* An entry that ConvertColor takes has one colour, a sourced device colour.*)
LEMMA TakenHasOneColor ==
  ASSUME NEW c, NEW e \in InventoryEntry, EntryIs(c, e), ConvertRefusal(e) = "none"
  PROVE  /\ Len(e.colors) = 1
         /\ PaintedWith(c.records, e.range, e.colors[1])
         /\ e.colors[1] \in ColorObservation
         /\ e.colors[1].source # NoSource
         /\ ConvertBoundary(e).record_range = e.colors[1].source
         /\ ConvertBoundary(e) \in Boundary
<1> DEFINE P == ProcessColors(e)
<1>1. P # {} /\ (\A i \in P : e.colors[i].source # NoSource) /\ ~(Cardinality(P) > 1)
  BY DEF ConvertRefusal
<1>2. e.colors \in Seq(ColorObservation) /\ Len(e.colors) \in Nat
  BY LenProperties DEF InventoryEntry
<1>3. "Unknown" \notin DeviceSpace
  BY DEF DeviceSpace
<1>4. \A j \in 1..Len(e.colors) : PaintedWith(c.records, e.range, e.colors[j])
  BY <1>1, <1>3 DEF EntryIs, ProcessColors
<1>5. P = 1..Len(e.colors)
  BY <1>4 DEF ProcessColors, PaintedWith
<1>6. Cardinality(1..Len(e.colors)) = Len(e.colors)
  <2>1. 1 \in Int /\ Len(e.colors) \in Int
    BY <1>2
  <2>2. Cardinality(1..Len(e.colors)) = IF 1 > Len(e.colors) THEN 0 ELSE Len(e.colors) - 1 + 1
    BY <2>1, FS_Interval
  <2>3. QED
    BY <2>2, <1>2
<1>7. Len(e.colors) = 1 /\ P = {1}
  <2>1. ~(Len(e.colors) > 1)
    BY <1>1, <1>5, <1>6
  <2>2. Len(e.colors) # 0
    BY <1>1, <1>5
  <2>3. Len(e.colors) = 1
    <3>1. \A n \in Nat : ~(n > 1) /\ n # 0 => n = 1
      OBVIOUS
    <3>2. QED
      BY <3>1, <2>1, <2>2, <1>2, Zenon
  <2>4. 1..1 = {1}
    OBVIOUS
  <2> HIDE DEF P
  <2>5. QED
    BY <2>3, <2>4, <1>5, Zenon
<1> HIDE DEF P
<1>8. (CHOOSE i \in P : \A j \in P : i <= j) = 1
  BY <1>7
<1>9. ConvertBoundary(e) =
        [page |-> e.page, scope |-> e.scope, record_range |-> e.colors[1].source]
  BY <1>8 DEF ConvertBoundary, P
<1>10. e.colors[1] \in ColorObservation /\ e.colors[1].source # NoSource
  BY <1>1, <1>2, <1>7, ElementOfSeq
<1>11. e.colors[1].source \in Nat \ {NoSource}
  BY <1>10 DEF ColorObservation
<1>12. ConvertBoundary(e) \in Boundary
  BY <1>9, <1>11 DEF Boundary, InventoryEntry
<1>13. QED
  BY <1>4, <1>7, <1>9, <1>10, <1>12

(* Its patch names the operator that set the colour it paints with.         *)
LEMMA TakenPatchServes ==
  ASSUME NEW cs, NEW entries, NEW k, NEW targets, k \in InRange(targets),
         entries[k] \in InventoryEntry,
         Len(cs[entries[k].call].records) \in Nat,
         EntryIs(cs[entries[k].call], entries[k]),
         ConvertRefusal(entries[k]) = "none",
         NEW patch, patch.object = k, patch.boundary = ConvertBoundary(entries[k])
  PROVE  PatchServes(cs, entries, targets, patch)
<1> DEFINE e == entries[k]
           records == cs[entries[k].call].records
           color == e.colors[1]
<1>1. /\ Len(e.colors) = 1 /\ PaintedWith(records, e.range, color)
      /\ color.source # NoSource /\ patch.boundary.record_range = color.source
  BY TakenHasOneColor
<1>2. InForceIn(records, InForce(records, e.range), e.range)
  BY DEF EntryIs, InForceIn, InForce
<1>3. \A op : LastInForce(records, e.range, op) # NoSource =>
                records[LastInForce(records, e.range, op)].op = op
  BY <1>2, LastOfIn DEF LastInForce
<1>4. {e.colors[j].usage : j \in 1..Len(e.colors)} = {color.usage}
  BY <1>1
<1>5. CASE color.usage = "Stroke" /\ color.source = LastInForce(records, e.range, "stroking")
  <2>1. records[color.source].op = "stroking"
    BY <1>1, <1>3, <1>5
  <2>2. QED
    BY <2>1, <1>1, <1>4, <1>5 DEF PatchServes
<1>6. CASE color.usage = "Fill" /\ color.source = LastInForce(records, e.range, "nonstroking")
  <2>1. records[color.source].op = "nonstroking"
    BY <1>1, <1>3, <1>6
  <2>2. QED
    BY <2>1, <1>1, <1>4, <1>6 DEF PatchServes
<1>7. QED
  BY <1>1, <1>5, <1>6 DEF PaintedWith

(* A patch goes on serving its target as targets are added.                 *)
LEMMA PatchKept ==
  ASSUME NEW cs, NEW entries, NEW targets, NEW more, NEW patch,
         PatchServes(cs, entries, targets, patch), InRange(targets) \subseteq InRange(more)
  PROVE  PatchServes(cs, entries, more, patch)
BY DEF PatchServes

-----------------------------------------------------------------------------
(* A call that begins has built nothing.                                    *)
LEMMA CallStarts ==
  ASSUME NEW cs \in Seq(BuildCall), NEW n \in 1..Len(cs)
  PROVE  /\ WalkIs(cs[n].records, 1, PageDefault, <<>>)
         /\ BuiltIs(cs[n], n, 1, <<>>)
<1>1. Len(cs[n].records) \in Nat
  <2>1. cs[n] \in BuildCall
    BY ElementOfSeq
  <2>2. cs[n].records \in Seq(Record)
    BY <2>1 DEF BuildCall
  <2>3. QED
    BY <2>2, LenProperties
<1>2. {p \in PaintsOf(cs[n]) : p < 1} = {}
  BY DEF PaintsOf
<1>3. BuiltIs(cs[n], n, 1, <<>>)
  BY <1>2 DEF BuiltIs
<1>4. QED
  BY <1>1, <1>3, WalkStarts

LEMMA BuildTyped ==
  ASSUME BuildTypeOK, BuildInv, BuildStep
  PROVE  BuildTypeOK'
<1>1. WalkTypeOK /\ built \in Seq(InventoryEntry) /\ inventory \in Seq(InventoryEntry)
  BY DEF BuildTypeOK
<1>2. calls \in Seq(BuildCall) /\ Len(calls) \in Nat /\ call \in 1..(Len(calls) + 1)
  BY <1>1, LenProperties DEF WalkTypeOK
<1>3. CASE StepWithoutEntry
  <2>1. at' \in Nat \ {0} /\ state' \in Snapshot /\ stack' \in Seq(Snapshot)
    BY <1>1, <1>3, WalkTyped DEF StepWithoutEntry
  <2>2. UNCHANGED <<calls, call, built, inventory>>
    BY <1>3 DEF StepWithoutEntry
  <2>3. QED
    BY <2>1, <2>2, <1>1, <1>2 DEF BuildTypeOK, WalkTypeOK
<1>4. CASE StepObserving
  <2>1. at' \in Nat \ {0} /\ state' \in Snapshot /\ stack' \in Seq(Snapshot)
    BY <1>1, <1>4, WalkTyped DEF StepObserving
  <2>2. UNCHANGED <<calls, call, inventory>> /\ built' = built \o Entries
    BY <1>4 DEF StepObserving
  <2>3. Entries \in Seq(InventoryEntry)
    <3>1. Walking
      BY <1>4 DEF StepObserving, Observing
    <3>2. Len(Records) \in Nat /\ at \in 1..Len(Records)
      BY <3>1, <1>1, OpType DEF Walking
    <3>3. WalkIs(Records, at, state, stack)
      BY <3>1 DEF Walking, BuildInv
    <3>4. SnapshotIs(Records, InForce(Records, at), state)
      BY <3>2, <3>3, WalkFacts
    <3>5. Entries = <<>> \/ \E e \in InventoryEntry : Entries = <<e>>
      <4>1. \/ Entries = <<>> /\ at \notin PaintsOf(calls[call])
            \/ \E e \in InventoryEntry :
                 /\ Entries = <<e>> /\ at \in PaintsOf(calls[call])
                 /\ e.call = call /\ e.range = at /\ EntryIs(calls[call], e)
        BY <3>1, <3>4, <1>1, EntriesAre
      <4>2. QED
        BY <4>1
    <3>6. CASE Entries = <<>>
      BY <3>6
    <3>7. CASE \E e \in InventoryEntry : Entries = <<e>>
      <4>1. \A e \in InventoryEntry : <<e>> \in Seq(InventoryEntry)
        OBVIOUS
      <4>2. QED
        BY <4>1, <3>7
    <3>8. QED
      BY <3>5, <3>6, <3>7
  <2>4. built' \in Seq(InventoryEntry)
    BY <2>2, <2>3, <1>1, ConcatProperties
  <2>5. QED
    BY <2>1, <2>2, <2>4, <1>1, <1>2 DEF BuildTypeOK, WalkTypeOK
<1>5. CASE FailCall \/ FinishCall
  <2>1. /\ call <= Len(calls) /\ call' = call + 1 /\ FreshWalk /\ built' = <<>> /\ calls' = calls
        /\ inventory' = inventory \/ inventory' = inventory \o built
    BY <1>5 DEF FailCall, FinishCall, NextCall, WalkFails, Walking
  <2>2. inventory' \in Seq(InventoryEntry)
    BY <2>1, <1>1, ConcatProperties
  <2>3. at' \in Nat \ {0} /\ state' \in Snapshot /\ stack' \in Seq(Snapshot)
    BY <2>1 DEF FreshWalk, PageDefault, Snapshot, DefaultColor, DeviceColor, Mode, DeviceSpace,
       Components, NoSource
  <2>4. call' \in 1..(Len(calls') + 1)
    BY <2>1, <1>2
  <2>5. QED
    BY <2>1, <2>2, <2>3, <2>4, <1>2 DEF BuildTypeOK, WalkTypeOK
<1>6. QED
  BY <1>3, <1>4, <1>5 DEF BuildStep

LEMMA BuildKept ==
  ASSUME BuildTypeOK, BuildInv, BuildStep
  PROVE  BuildInv'
<1>1. WalkTypeOK /\ built \in Seq(InventoryEntry) /\ inventory \in Seq(InventoryEntry)
  BY DEF BuildTypeOK
<1>2. /\ calls \in Seq(BuildCall) /\ Len(calls) \in Nat /\ call \in 1..(Len(calls) + 1)
      /\ at \in Nat \ {0}
  BY <1>1, LenProperties DEF WalkTypeOK
<1>3. call <= Len(calls)
  BY DEF BuildStep, StepWithoutEntry, StepObserving, FailCall, FinishCall, ChangeState,
     Observing, Save, Restore, ConcatMatrix, SetStrokingColor, SetNonstrokingColor,
     SetTextRenderingMode, Is, WalkFails, Walking
<1>4. /\ Len(Records) \in Nat /\ Records = calls[call].records
      /\ WalkIs(Records, at, state, stack) /\ BuiltIs(calls[call], call, at, built)
      /\ InventoryIs(inventory, call, calls)
  BY <1>1, <1>3, OpType DEF BuildInv, Records
<1>5. /\ at \in 1..(Len(Records) + 1) /\ Accepted(Records, at)
      /\ Len(stack) = Depth(Records, at - 1)
      /\ SnapshotIs(Records, InForce(Records, at), state)
  BY <1>4 DEF WalkIs
<1>6. CASE StepWithoutEntry
  <2>1. UNCHANGED <<calls, call, built, inventory>>
    BY <1>6 DEF StepWithoutEntry
  <2>2. WalkIs(Records, at', state', stack')
    BY <1>1, <1>3, <1>4, <1>6, WalkStep DEF StepWithoutEntry
  <2>3. /\ Walking /\ at' = at + 1
        /\ Op.op \in {"q", "Q", "cm", "stroking", "nonstroking", "Tr"}
    BY <1>6 DEF StepWithoutEntry, ChangeState, Save, Restore, ConcatMatrix, SetStrokingColor,
       SetNonstrokingColor, SetTextRenderingMode, Is
  <2>4. at \notin PaintsOf(calls[call])
    BY <2>3, <1>4 DEF PaintsOf, Op
  <2>5. BuiltIs(calls[call], call, at', built)
    BY <2>3, <2>4, <1>2, <1>4, BuiltPasses
  <2>6. Records' = Records
    BY <2>1 DEF Records
  <2>7. QED
    BY <2>1, <2>2, <2>5, <2>6, <1>4 DEF BuildInv
<1>7. CASE StepObserving
  <2>1. UNCHANGED <<calls, call, inventory>> /\ built' = built \o Entries
    BY <1>7 DEF StepObserving
  <2>2. WalkIs(Records, at', state', stack')
    BY <1>1, <1>3, <1>4, <1>7, WalkStep DEF StepObserving
  <2>3. Walking /\ at' = at + 1
    BY <1>7 DEF StepObserving, Observing
  <2>4. \/ Entries = <<>> /\ at \notin PaintsOf(calls[call])
        \/ \E e \in InventoryEntry :
             /\ Entries = <<e>> /\ at \in PaintsOf(calls[call])
             /\ e.call = call /\ e.range = at /\ EntryIs(calls[call], e)
    BY <2>3, <1>1, <1>5, EntriesAre
  <2>5. BuiltIs(calls[call], call, at + 1, built \o Entries)
    <3>1. CASE Entries = <<>> /\ at \notin PaintsOf(calls[call])
      <4>1. built \o Entries = built
        BY <3>1, <1>1, ConcatEmptySeq
      <4>2. QED
        BY <3>1, <4>1, <1>2, <1>4, BuiltPasses
    <3>2. CASE \E e \in InventoryEntry :
                 /\ Entries = <<e>> /\ at \in PaintsOf(calls[call])
                 /\ e.call = call /\ e.range = at /\ EntryIs(calls[call], e)
      BY <3>2, <1>1, <1>2, <1>4, BuiltGrows
    <3>3. QED
      BY <3>1, <3>2, <2>4
  <2>6. Records' = Records
    BY <2>1 DEF Records
  <2>7. QED
    BY <2>1, <2>2, <2>3, <2>5, <2>6, <1>4 DEF BuildInv
<1>8. ASSUME NextCall
      PROVE  /\ call' = call + 1 /\ calls' = calls
             /\ call' <= Len(calls') =>
                  WalkIs(Records', at', state', stack') /\ BuiltIs(calls'[call'], call', at', built')
  <2>1. /\ call' = call + 1 /\ calls' = calls /\ at' = 1 /\ state' = PageDefault
        /\ stack' = <<>> /\ built' = <<>> /\ Records' = calls[call + 1].records
    BY <1>8 DEF NextCall, FreshWalk, Records
  <2>2. ASSUME call + 1 <= Len(calls)
        PROVE  /\ WalkIs(calls[call + 1].records, 1, PageDefault, <<>>)
               /\ BuiltIs(calls[call + 1], call + 1, 1, <<>>)
    <3>1. call + 1 \in 1..Len(calls)
      BY <2>2, <1>2
    <3>2. QED
      BY <3>1, <1>2, CallStarts
  <2>3. QED
    BY <2>1, <2>2
<1>9. call \in Nat \ {0}
  BY <1>2
<1>10. CASE FailCall
  <2>1. NextCall /\ inventory' = inventory /\ WalkFails
    BY <1>10 DEF FailCall
  <2>2. /\ at \in 1..Len(Records)
        /\ Records[at].op = "malformed" \/ (Records[at].op = "Q" /\ stack = <<>>)
    BY <2>1, <1>2 DEF WalkFails, Walking, Op
  <2>3. Records[at].op = "malformed" \/ Depth(Records, at) < 0
    <3>1. ASSUME Records[at].op = "Q", stack = <<>>
          PROVE  Depth(Records, at) < 0
      <4>1. Depth(Records, at - 1) = 0
        BY <3>1, <1>5
      <4>2. Depth(Records, at) =
              Depth(Records, at - 1) + (IF Records[at].op = "q" THEN 1
                                        ELSE IF Records[at].op = "Q" THEN -1 ELSE 0)
        BY <1>2, DepthStep
      <4>3. Records[at].op # "q"
        BY <3>1
      <4>4. QED
        BY <4>1, <4>2, <4>3, <3>1
    <3>2. QED
      BY <3>1, <2>2
  <2>4. Stops(Records) = at
    BY <2>3, <1>4, <1>5, StopsIs
  <2>5. Stops(calls[call].records) <= Len(calls[call].records)
    BY <2>2, <2>4, <1>4
  <2>6. InventoryIs(inventory, call + 1, calls)
    BY <2>5, <1>4, <1>9, InventoryWithout
  <2>7. QED
    BY <2>1, <2>6, <1>8 DEF BuildInv
<1>11. CASE FinishCall
  <2>1. NextCall /\ inventory' = inventory \o built /\ at > Len(Records)
    BY <1>11 DEF FinishCall
  <2>2. at = Len(Records) + 1
    BY <2>1, <1>4, <1>5, SMTT(20)
  <2>3. Stops(Records) = Len(Records) + 1
    BY <2>2, <1>4, <1>5, StopsIs
  <2>4. BuiltIs(calls[call], call, Len(calls[call].records) + 1, built)
    BY <2>2, <1>4
  <2>5. InventoryIs(inventory \o built, call + 1, calls)
    BY <2>3, <2>4, <1>1, <1>4, <1>9, InventoryWith
  <2>6. QED
    BY <2>1, <2>5, <1>8 DEF BuildInv
<1>12. QED
  BY <1>6, <1>7, <1>10, <1>11 DEF BuildStep

-----------------------------------------------------------------------------
LEMMA StartHolds ==
  ASSUME Init
  PROVE  IInv
<1>1. /\ calls \in Contents /\ call = 1 /\ at = 1 /\ state = PageDefault /\ stack = <<>>
      /\ built = <<>> /\ inventory = <<>>
      /\ recipe \in Recipes /\ step = 0 /\ entry = 1 /\ steps = <<>>
  BY DEF Init, BuildInit, WalkInit
<1>2. calls \in Seq(BuildCall) /\ Len(calls) \in Nat
  BY <1>1, ContentsAreCalls, LenProperties
<1>3. recipe \in Seq([select : Selector, action : Action]) /\ Len(recipe) \in Nat
  BY <1>1, RecipesAreShaped, LenProperties
<1>4. PageDefault \in Snapshot
  BY DEF PageDefault, Snapshot, DefaultColor, DeviceColor, Mode, DeviceSpace, Components, NoSource
<1>5. TypeOK
  BY <1>1, <1>2, <1>3, <1>4 DEF TypeOK, BuildTypeOK, WalkTypeOK
<1>6. BuildInv
  <2>1. ASSUME call <= Len(calls)
        PROVE  WalkIs(Records, at, state, stack) /\ BuiltIs(calls[call], call, at, built)
    <3>1. 1 \in 1..Len(calls)
      BY <2>1, <1>1, <1>2
    <3>2. WalkIs(calls[1].records, 1, PageDefault, <<>>) /\ BuiltIs(calls[1], 1, 1, <<>>)
      BY <3>1, <1>2, CallStarts
    <3>3. QED
      BY <3>2, <1>1 DEF Records
  <2>2. InventoryIs(<<>>, 1, calls)
    BY DEF InventoryIs
  <2>3. QED
    BY <2>1, <2>2, <1>1 DEF BuildInv
<1>7. PlanInv
  <2>1. \A s : ~(s \in 1..Len(steps))
    BY <1>1
  <2>2. SelectionAnswered /\ PatchesServeTheirTarget
    BY <2>1, Zenon DEF SelectionAnswered, PatchesServeTheirTarget
  <2>3. QED
    BY <1>1, <2>2 DEF PlanInv
<1>8. QED
  BY <1>5, <1>6, <1>7 DEF IInv

(* While the inventory is built there is no plan.                           *)
LEMMA BuildHolds ==
  ASSUME IInv, Build
  PROVE  IInv'
<1>1. BuildTypeOK /\ BuildInv /\ BuildStep /\ step = 0 /\ UNCHANGED planVars
  BY DEF IInv, TypeOK, Build
<1>2. BuildTypeOK' /\ BuildInv'
  BY <1>1, BuildTyped, BuildKept
<1>3. entry = 1 /\ steps = <<>> /\ recipe \in Recipes /\ step \in 0..(Len(recipe) + 1)
  BY <1>1 DEF IInv, PlanInv, TypeOK
<1>4. Len(inventory') \in Nat
  BY <1>2, LenProperties DEF BuildTypeOK
<1>5. step' = 0 /\ entry' = 1 /\ steps' = <<>> /\ recipe' = recipe
  BY <1>1, <1>3 DEF planVars
<1>6. TypeOK'
  BY <1>1, <1>2, <1>3, <1>4, <1>5 DEF TypeOK
<1>7. PlanInv'
  <2>1. \A s : ~(s \in 1..Len(steps'))
    BY <1>5
  <2>2. SelectionAnswered' /\ PatchesServeTheirTarget'
    BY <2>1, Zenon DEF SelectionAnswered, PatchesServeTheirTarget
  <2>3. QED
    BY <1>5, <2>2 DEF PlanInv
<1>8. QED
  BY <1>2, <1>6, <1>7 DEF IInv

(* The two properties of plans, step by step.                               *)
StepIs(s) ==
  /\ recipe[s].action # "SetPageBox" =>
       Answered(recipe[s].select, inventory, Seen(s), steps[s])
  /\ \A i \in 1..Len(steps[s].patches) :
       PatchServes(calls, inventory, steps[s].targets, steps[s].patches[i])

LEMMA PlansByStep ==
  SelectionAnswered /\ PatchesServeTheirTarget <=> \A s \in 1..Len(steps) : StepIs(s)
<1>2. PatchesServeTheirTarget <=>
        \A s \in 1..Len(steps) : \A i \in 1..Len(steps[s].patches) :
          PatchServes(calls, inventory, steps[s].targets, steps[s].patches[i])
  BY Zenon DEF PatchesServeTheirTarget, PatchServes
<1>3. QED
  BY <1>2, Zenon DEF StepIs, SelectionAnswered

(* What planning leaves alone.                                              *)
LEMMA PlanningKeepsInventory ==
  ASSUME TypeOK, BuildInv, UNCHANGED <<calls, call, walkVars, built, inventory>>
  PROVE  BuildTypeOK' /\ BuildInv'
<1>1. /\ calls' = calls /\ call' = call /\ at' = at /\ state' = state /\ stack' = stack
      /\ built' = built /\ inventory' = inventory /\ Records' = Records
  BY DEF walkVars, Records
<1>2. BuildTypeOK'
  BY <1>1 DEF TypeOK, BuildTypeOK, WalkTypeOK
<1>3. BuildInv'
  BY <1>1 DEF BuildInv
<1>4. QED
  BY <1>2, <1>3

(* The plan of every step is the one it was, or that of the step under way. *)
LEMMA StepsHold ==
  ASSUME UNCHANGED <<calls, inventory, recipe>>,
         \A s \in 1..Len(steps') :
           /\ recipe[s].action # "SetPageBox" =>
                Answered(recipe[s].select, inventory, Seen(s)', steps'[s])
           /\ \A i \in 1..Len(steps'[s].patches) :
                PatchServes(calls, inventory, steps'[s].targets, steps'[s].patches[i])
  PROVE  SelectionAnswered' /\ PatchesServeTheirTarget'
<1>1. \A s \in 1..Len(steps') : StepIs(s)'
  BY DEF StepIs
<1>2. (SelectionAnswered /\ PatchesServeTheirTarget <=> \A s \in 1..Len(steps) : StepIs(s))'
  BY PlansByStep, PTL
<1>3. QED
  BY <1>1, <1>2

LEMMA BeginHolds ==
  ASSUME IInv, BeginStep
  PROVE  IInv'
<1>1. /\ step <= Len(recipe) /\ call > Len(calls)
      /\ step # 0 => entry > Len(inventory) \/ recipe[step].action = "SetPageBox"
      /\ step' = step + 1 /\ entry' = 1
      /\ steps' = IF step < Len(recipe) THEN Append(steps, EmptyPlan) ELSE steps
      /\ UNCHANGED <<calls, call, walkVars, built, inventory, recipe>>
  BY DEF BeginStep
<1>2. /\ BuildTypeOK' /\ BuildInv' /\ Len(inventory) \in Nat
      /\ recipe \in Recipes /\ steps \in Seq(ActionPlan)
      /\ step \in 0..(Len(recipe) + 1) /\ entry \in 1..(Len(inventory) + 1)
      /\ Len(steps) = step /\ step \in Nat
  BY <1>1, PlanningKeepsInventory, LenProperties DEF IInv, TypeOK, PlanInv, BuildTypeOK
<1>3. Len(recipe) \in Nat
  BY <1>2, RecipesAreShaped, LenProperties
<1>4. EmptyPlan \in ActionPlan
  BY DEF EmptyPlan, ActionPlan
<1>5. /\ steps' \in Seq(ActionPlan)
      /\ Len(steps') = IF step < Len(recipe) THEN step + 1 ELSE step
      /\ \A s \in 1..step : steps'[s] = steps[s]
      /\ step < Len(recipe) => steps'[step + 1] = EmptyPlan
  BY <1>1, <1>2, <1>4
<1>6. ASSUME NEW s \in 1..Len(steps')
      PROVE  /\ recipe[s].action # "SetPageBox" =>
                  Answered(recipe[s].select, inventory, Seen(s)', steps'[s])
             /\ \A i \in 1..Len(steps'[s].patches) :
                  PatchServes(calls, inventory, steps'[s].targets, steps'[s].patches[i])
  <2>1. CASE s \in 1..step
    <3>1. steps'[s] = steps[s] /\ StepIs(s)
      <4>1. \A r \in 1..Len(steps) : StepIs(r)
        BY PlansByStep DEF IInv, PlanInv
      <4>2. QED
        BY <4>1, <2>1, <1>2, <1>5
    <3>2. Seen(s)' = Len(inventory)
      BY <2>1, <1>1, <1>2 DEF Seen
    <3>3. recipe[s].action # "SetPageBox" => Seen(s) = Len(inventory)
      <4>1. CASE s < step
        BY <4>1 DEF Seen
      <4>2. CASE s = step
        <5>1. recipe[s].action # "SetPageBox" => entry = Len(inventory) + 1
          BY <4>2, <2>1, <1>1, <1>2
        <5>2. Seen(s) = entry - 1
          BY <4>2, <1>2 DEF Seen
        <5>3. QED
          BY <5>1, <5>2, <1>2
      <4>3. QED
        BY <4>1, <4>2, <2>1, <1>2
    <3>4. QED
      BY <3>1, <3>2, <3>3 DEF StepIs
  <2>2. CASE s \notin 1..step
    <3>1. s = step + 1 /\ step < Len(recipe)
      BY <2>2, <1>2, <1>5
    <3>2. steps'[s] = EmptyPlan
      BY <3>1, <1>5
    <3>3. Seen(s)' = 0
      BY <3>1, <1>1, <1>2 DEF Seen
    <3>4. Len(EmptyPlan.patches) = 0
      BY DEF EmptyPlan
    <3>5. QED
      BY <3>2, <3>3, <3>4, AnswerStarts
  <2>3. QED
    BY <2>1, <2>2
<1>7. SelectionAnswered' /\ PatchesServeTheirTarget'
  BY <1>1, <1>6, StepsHold
<1>8. PlanInv'
  BY <1>1, <1>2, <1>3, <1>5, <1>7 DEF PlanInv
<1>9. TypeOK'
  BY <1>1, <1>2, <1>3, <1>5 DEF TypeOK
<1>10. QED
  BY <1>2, <1>8, <1>9 DEF IInv

(* The plan under way is replaced by one that serves the next entry too.    *)
LEMMA PlanningHolds ==
  ASSUME IInv, Planning,
         NEW next \in ActionPlan, steps' = [steps EXCEPT ![step] = next],
         Answered(recipe[step].select, inventory, entry - 1, steps[step]) =>
           Answered(recipe[step].select, inventory, entry, next),
         (\A i \in 1..Len(steps[step].patches) :
            PatchServes(calls, inventory, steps[step].targets, steps[step].patches[i])) =>
           \A i \in 1..Len(next.patches) :
             PatchServes(calls, inventory, next.targets, next.patches[i])
  PROVE  IInv'
<1>1. /\ step \in 1..Len(recipe) /\ recipe[step].action # "SetPageBox"
      /\ entry <= Len(inventory) /\ entry' = entry + 1
      /\ UNCHANGED <<calls, call, walkVars, built, inventory, recipe, step>>
  BY DEF Planning
<1>2. /\ BuildTypeOK' /\ BuildInv' /\ Len(inventory) \in Nat
      /\ recipe \in Recipes /\ steps \in Seq(ActionPlan)
      /\ step \in 0..(Len(recipe) + 1) /\ entry \in 1..(Len(inventory) + 1)
  BY <1>1, PlanningKeepsInventory, LenProperties DEF IInv, TypeOK, BuildTypeOK
<1>3. Len(recipe) \in Nat
  BY <1>2, RecipesAreShaped, LenProperties
<1>4. step > 0 /\ call > Len(calls) /\ Len(steps) = step
  BY <1>1, <1>3 DEF IInv, PlanInv
<1>5. /\ steps' \in Seq(ActionPlan) /\ Len(steps') = Len(steps)
      /\ steps'[step] = next /\ \A s \in 1..Len(steps) : s # step => steps'[s] = steps[s]
  BY <1>1, <1>2, <1>4
<1>6. ASSUME NEW s \in 1..Len(steps')
      PROVE  /\ recipe[s].action # "SetPageBox" =>
                  Answered(recipe[s].select, inventory, Seen(s)', steps'[s])
             /\ \A i \in 1..Len(steps'[s].patches) :
                  PatchServes(calls, inventory, steps'[s].targets, steps'[s].patches[i])
  <2>1. StepIs(s)
    BY <1>5, PlansByStep DEF IInv, PlanInv
  <2>2. CASE s # step
    <3>1. s < step /\ steps'[s] = steps[s]
      BY <2>2, <1>1, <1>3, <1>4, <1>5
    <3>2. Seen(s)' = Seen(s)
      BY <3>1, <1>1 DEF Seen
    <3>3. QED
      BY <2>1, <3>1, <3>2 DEF StepIs
  <2>3. CASE s = step
    <3>1. Seen(s) = entry - 1 /\ Seen(s)' = entry
      BY <2>3, <1>1, <1>2, <1>3 DEF Seen
    <3>2. steps'[s] = next
      BY <2>3, <1>5
    <3>3. QED
      BY <2>1, <2>3, <3>1, <3>2, <1>1 DEF StepIs
  <2>4. QED
    BY <2>2, <2>3
<1>7. SelectionAnswered' /\ PatchesServeTheirTarget'
  BY <1>1, <1>6, StepsHold
<1>8. PlanInv'
  BY <1>1, <1>4, <1>5, <1>7 DEF PlanInv
<1>9. TypeOK'
  BY <1>1, <1>2, <1>3, <1>5 DEF TypeOK
<1>10. QED
  BY <1>2, <1>8, <1>9 DEF IInv

LEMMA PlanHolds ==
  ASSUME IInv, PassOver \/ SkipTarget \/ TakeTarget
  PROVE  IInv'
<1> DEFINE plan == steps[step]
           e == inventory[entry]
           action == recipe[step].action
<1>1. /\ Planning /\ step \in 1..Len(recipe) /\ action # "SetPageBox"
      /\ entry <= Len(inventory)
  BY DEF PassOver, SkipTarget, TakeTarget, Planning
<1>2. /\ recipe \in Seq([select : Selector, action : Action]) /\ Len(recipe) \in Nat
      /\ steps \in Seq(ActionPlan) /\ inventory \in Seq(InventoryEntry)
      /\ entry \in 1..Len(inventory) /\ calls \in Seq(BuildCall)
  <2>1. /\ recipe \in Recipes /\ steps \in Seq(ActionPlan) /\ inventory \in Seq(InventoryEntry)
        /\ entry \in 1..(Len(inventory) + 1) /\ calls \in Seq(BuildCall)
    BY DEF IInv, TypeOK, BuildTypeOK, WalkTypeOK
  <2>2. recipe \in Seq([select : Selector, action : Action])
    BY <2>1, RecipesAreShaped
  <2>3. Len(recipe) \in Nat /\ Len(inventory) \in Nat
    BY <2>1, <2>2, LenProperties
  <2>4. QED
    BY <2>1, <2>2, <2>3, <1>1
<1>3. Len(steps) = step /\ call > Len(calls)
  BY <1>1, <1>2 DEF IInv, PlanInv
<1>4. plan \in ActionPlan /\ e \in InventoryEntry /\ action \in Action
  <2>1. plan \in ActionPlan
    BY <1>1, <1>2, <1>3, ElementOfSeq
  <2>2. e \in InventoryEntry
    BY <1>2, ElementOfSeq
  <2>3. recipe[step] \in [select : Selector, action : Action]
    BY <1>1, <1>2, ElementOfSeq
  <2>4. QED
    BY <2>1, <2>2, <2>3
<1>5. entry \in Nat \ {0} /\ Len(inventory) \in Nat
  BY <1>2, LenProperties
<1>6. EntryIs(calls[e.call], e) /\ Len(calls[e.call].records) \in Nat
  <2>1. e.call \in 1..(call - 1) /\ EntryIs(calls[e.call], e)
    BY <1>2 DEF IInv, BuildInv, InventoryIs
  <2>2. e.call \in 1..Len(calls)
    BY <2>1, <1>2, LenProperties DEF IInv, TypeOK, BuildTypeOK, WalkTypeOK
  <2>3. calls[e.call].records \in Seq(Record)
    <3>1. calls[e.call] \in BuildCall
      BY <2>2, <1>2, ElementOfSeq
    <3>2. QED
      BY <3>1 DEF BuildCall
  <2>4. QED
    BY <2>1, <2>3, LenProperties
<1>7. CASE PassOver
  <2>1. ~ Matches(recipe[step].select, e) /\ steps' = steps
    BY <1>7 DEF PassOver, Selected
  <2>2. steps' = [steps EXCEPT ![step] = plan]
    BY <2>1, <1>1, <1>2, <1>3
  <2>3. Answered(recipe[step].select, inventory, entry - 1, plan) =>
          Answered(recipe[step].select, inventory, entry, plan)
    BY <2>1, <1>5, AnswerPasses
  <2>4. QED
    BY <2>2, <2>3, <1>1, <1>4, PlanningHolds
<1>8. CASE SkipTarget
  <2> DEFINE skip == [object |-> entry, reason |-> Refused]
             next == [plan EXCEPT !.skipped = Append(plan.skipped, skip)]
  <2>1. Matches(recipe[step].select, e) /\ Refused # "none" /\ Refused = Refusal(action, e)
    BY <1>8 DEF SkipTarget, Selected, Refused
  <2>2. steps' = [steps EXCEPT ![step] = next]
    BY <1>1, <1>2, <1>3, <1>4, <1>8 DEF SkipTarget, ActionPlan
  <2>3. Refused \in SkipReason
    BY <2>1 DEF Refusal, ConvertRefusal, SkipReason
  <2>4. skip \in Skip /\ skip.object = entry
    BY <2>3, <1>5 DEF Skip
  <2> HIDE DEF skip
  <2>5. /\ next \in ActionPlan /\ next.targets = plan.targets /\ next.patches = plan.patches
        /\ next.skipped = Append(plan.skipped, skip)
    <3>1. plan.skipped \in Seq(Skip)
      BY <1>4 DEF ActionPlan, Skip
    <3>2. Append(plan.skipped, skip) \in Seq([object : Nat, reason : SkipReason])
      BY <3>1, <2>4, AppendProperties DEF Skip
    <3>3. QED
      BY <3>2, <1>4 DEF ActionPlan
  <2> HIDE DEF next
  <2>6. Answered(recipe[step].select, inventory, entry - 1, plan) =>
          Answered(recipe[step].select, inventory, entry, next)
    BY <2>1, <2>4, <2>5, <1>4, <1>5, AnswerAdds
  <2>7. QED
    BY <2>2, <2>5, <2>6, <1>1, PlanningHolds
<1>9. CASE TakeTarget
  <2> DEFINE patch == [object |-> entry, boundary |-> ConvertBoundary(e)]
             patches == IF action = "ConvertColor" THEN Append(plan.patches, patch)
                        ELSE plan.patches
             next == [plan EXCEPT !.targets = Append(plan.targets, entry), !.patches = patches]
  <2>1. Matches(recipe[step].select, e) /\ Refusal(action, e) = "none"
    BY <1>9 DEF TakeTarget, Selected, Refused
  <2>2. steps' = [steps EXCEPT ![step] = next]
    BY <1>1, <1>2, <1>3, <1>4, <1>9 DEF TakeTarget, ActionPlan
  <2>3. ASSUME action = "ConvertColor"
        PROVE  ConvertRefusal(e) = "none" /\ ConvertBoundary(e) \in Boundary
    <3>1. ConvertRefusal(e) = "none"
      BY <2>1, <2>3 DEF Refusal
    <3>2. QED
      BY <3>1, <1>4, <1>6, TakenHasOneColor
  <2>4. /\ plan.patches \in Seq([object : Nat, boundary : Boundary])
        /\ plan.targets \in Seq(Nat) /\ plan.skipped \in Seq(Skip)
    BY <1>4 DEF ActionPlan, Skip
  <2>5. patches \in Seq([object : Nat, boundary : Boundary])
    <3>1. ASSUME action = "ConvertColor" PROVE patch \in [object : Nat, boundary : Boundary]
      BY <2>3, <3>1, <1>5
    <3>2. QED
      BY <3>1, <2>4, AppendProperties
  <2>6. \A i \in 1..Len(patches) :
          \/ i \in 1..Len(plan.patches) /\ patches[i] = plan.patches[i]
          \/ action = "ConvertColor" /\ patches[i] = patch
    <3>1. CASE action = "ConvertColor"
      <4>1. patch \in [object : Nat, boundary : Boundary]
        BY <2>3, <3>1, <1>5
      <4> HIDE DEF patch
      <4>2. /\ Len(plan.patches) \in Nat /\ Len(patches) = Len(plan.patches) + 1
            /\ patches[Len(plan.patches) + 1] = patch
            /\ \A i \in 1..Len(plan.patches) : patches[i] = plan.patches[i]
        BY <4>1, <3>1, <2>4, AppendProperties, LenProperties
      <4>3. QED
        BY <4>2, <3>1
    <3>2. CASE action # "ConvertColor"
      BY <3>2
    <3>3. QED
      BY <3>1, <3>2
  <2> HIDE DEF patches
  <2>7. /\ next \in ActionPlan /\ next.targets = Append(plan.targets, entry)
        /\ next.patches = patches /\ next.skipped = plan.skipped
    <3>1. Append(plan.targets, entry) \in Seq(Nat)
      BY <2>4, <1>5, AppendProperties
    <3>2. QED
      BY <3>1, <2>5, <1>4 DEF ActionPlan
  <2> HIDE DEF next
  <2>8. Answered(recipe[step].select, inventory, entry - 1, plan) =>
          Answered(recipe[step].select, inventory, entry, next)
    BY <2>1, <2>7, <1>4, <1>5, AnswerAdds
  <2>9. InRange(next.targets) = InRange(plan.targets) \cup {entry}
    <3>1. InRange(Append(plan.targets, entry)) = InRange(plan.targets) \cup {entry}
      <4>1. plan.targets \in Seq(Nat) /\ entry \in Nat
        BY <2>4, <1>5
      <4>2. \A seq \in Seq(Nat), x \in Nat : InRange(Append(seq, x)) = InRange(seq) \cup {x}
        BY AppendRange
      <4>3. QED
        BY <4>1, <4>2, Zenon
    <3>2. QED
      BY <3>1, <2>7
  <2>10. ASSUME \A i \in 1..Len(plan.patches) :
                  PatchServes(calls, inventory, plan.targets, plan.patches[i]),
                NEW i \in 1..Len(next.patches)
         PROVE  PatchServes(calls, inventory, next.targets, next.patches[i])
    <3>1. CASE i \in 1..Len(plan.patches) /\ patches[i] = plan.patches[i]
      <4>1. PatchServes(calls, inventory, plan.targets, plan.patches[i])
        BY <3>1, <2>10
      <4>2. InRange(plan.targets) \subseteq InRange(next.targets)
        BY <2>9
      <4>3. PatchServes(calls, inventory, next.targets, plan.patches[i])
        BY <4>1, <4>2, PatchKept
      <4>4. QED
        BY <4>3, <3>1, <2>7
    <3>2. CASE action = "ConvertColor" /\ patches[i] = patch
      <4>1. ConvertRefusal(e) = "none" /\ entry \in InRange(next.targets)
        BY <3>2, <2>3, <2>9
      <4>2. patch.object = entry /\ patch.boundary = ConvertBoundary(inventory[entry])
        OBVIOUS
      <4>3. PatchServes(calls, inventory, next.targets, patch)
        BY <4>1, <4>2, <1>4, <1>6, TakenPatchServes
      <4>4. QED
        BY <4>3, <3>2, <2>7
    <3>3. QED
      BY <3>1, <3>2, <2>6, <2>7
  <2>11. QED
    BY <2>2, <2>7, <2>8, <2>10, <1>1, PlanningHolds
<1>10. QED
  BY <1>7, <1>8, <1>9

-----------------------------------------------------------------------------
(* The invariant, for any streams, recipes and names.                       *)
THEOREM Invariant == Spec => []IInv
<1>1. Init => IInv
  BY StartHolds
<1>2. IInv /\ [Next]_vars => IInv'
  <2> SUFFICES ASSUME IInv, [Next]_vars PROVE IInv'
    OBVIOUS
  <2>1. CASE Build
    BY <2>1, BuildHolds
  <2>2. CASE BeginStep
    BY <2>2, BeginHolds
  <2>3. CASE PassOver \/ SkipTarget \/ TakeTarget
    BY <2>3, PlanHolds
  <2>4. CASE Planned \/ UNCHANGED vars
    <3>1. /\ UNCHANGED <<calls, call, walkVars, built, inventory>>
          /\ UNCHANGED <<calls, inventory, recipe>>
          /\ recipe' = recipe /\ step' = step /\ entry' = entry /\ steps' = steps
      BY <2>4 DEF Planned, vars, planVars
    <3>2. BuildTypeOK' /\ BuildInv'
      BY <3>1, PlanningKeepsInventory DEF IInv
    <3>3. inventory' = inventory /\ calls' = calls /\ call' = call
      BY <3>1
    <3>4. TypeOK'
      BY <3>1, <3>2, <3>3 DEF IInv, TypeOK
    <3>5. SelectionAnswered' /\ PatchesServeTheirTarget'
      <4>1. \A s \in 1..Len(steps) : StepIs(s)
        BY PlansByStep DEF IInv, PlanInv
      <4>2. \A s \in 1..Len(steps') : Seen(s)' = Seen(s)
        BY <3>1, <3>3 DEF Seen
      <4>3. QED
        BY <4>1, <4>2, <3>1, StepsHold DEF StepIs
    <3>6. PlanInv'
      BY <3>1, <3>3, <3>5 DEF IInv, PlanInv
    <3>7. QED
      BY <3>2, <3>4, <3>6 DEF IInv
  <2>5. QED
    BY <2>1, <2>2, <2>3, <2>4 DEF Next
<1>3. QED
  BY <1>1, <1>2, PTL DEF Spec

(***************************************************************************)
(* At every record the walker's colours, text mode and matrix are what the *)
(* records not undone by a Q say.                                          *)
(***************************************************************************)
THEOREM WalkerFollowsNesting == Spec => []WalkerStateIsEnclosing
<1>1. IInv => WalkerStateIsEnclosing
  BY DEF IInv, BuildInv, WalkIs, WalkerStateIsEnclosing
<1>2. QED
  BY <1>1, Invariant, PTL

(***************************************************************************)
(* The inventory has of each stream all paintings in content order, or     *)
(* none if the walk of it was refused anywhere.                            *)
(***************************************************************************)
THEOREM InventoryIsWholeOrAbsent == Spec => []StreamsWholeOrAbsent
<1>1. IInv => StreamsWholeOrAbsent
  BY DEF IInv, BuildInv, InventoryIs, WholeOrAbsent, StreamsWholeOrAbsent
<1>2. QED
  BY <1>1, Invariant, PTL

(***************************************************************************)
(* A plan's targets and skips are the entries its selector matches, in     *)
(* inventory order, none in both.                                          *)
(***************************************************************************)
THEOREM PlansAnswerSelections == Spec => []SelectionAnswered
<1>1. IInv => SelectionAnswered
  BY DEF IInv, PlanInv
<1>2. QED
  BY <1>1, Invariant, PTL

(***************************************************************************)
(* A patch of ConvertColor names the one operator that set the one colour  *)
(* its target paints with.                                                 *)
(***************************************************************************)
THEOREM PatchesNameTheSetter == Spec => []PatchesServeTheirTarget
<1>1. IInv => PatchesServeTheirTarget
  BY DEF IInv, PlanInv
<1>2. QED
  BY <1>1, Invariant, PTL

-----------------------------------------------------------------------------
(* The resolution of colour transforms, below.                              *)
NoKeyReasons == {"RejectedDeviceLink", "MissingSourceProfileId", "MissingDestinationProfileId"}

NotKeyed == {[key |-> <<reason>>, transform |-> <<reason>>] : reason \in NoKeyReasons}

KeyedByLink ==
  {[key |-> <<"DeviceLink", l.id, l.source, l.destination>>, transform |-> <<"link", l>>] :
     l \in ObservedLinks}

KeyedByProfiles ==
  {[key |-> <<"ProfileConnectionSpace", r.source_profile, r.destination_profile,
              r.source, r.destination>>,
    transform |-> <<"profiles", r.source_profile, r.destination_profile,
                    r.source, r.destination>>] : r \in Requests}

KeyedEntry == NotKeyed \cup KeyedByLink \cup KeyedByProfiles

SelectedLinkServes ==
  device_link.decision = "UseDeviceLink" =>
    device_link.link \in ObservedLinks /\ Serves(device_link.link)

KInv ==
  /\ keyed \in Seq(KeyedEntry)
  /\ resolving # "idle" => request \in Requests
  /\ position \in Nat \ {0}
  /\ SelectedLinkServes

-----------------------------------------------------------------------------
(* Of two entries of any form, the keys agree exactly if the transforms do. *)
LEMMA EntriesAgree ==
  ASSUME NEW e \in KeyedEntry, NEW f \in KeyedEntry
  PROVE  e.key = f.key <=> e.transform = f.transform
<1>1. /\ e \in NotKeyed => e.key[1] \in NoKeyReasons /\ e.transform = e.key
      /\ f \in NotKeyed => f.key[1] \in NoKeyReasons /\ f.transform = f.key
  BY DEF NotKeyed
<1>2. /\ e \in KeyedByLink => e.key[1] = "DeviceLink" /\ e.transform[1] = "link"
      /\ f \in KeyedByLink => f.key[1] = "DeviceLink" /\ f.transform[1] = "link"
  BY DEF KeyedByLink
<1>3. /\ e \in KeyedByProfiles => e.key[1] = "ProfileConnectionSpace" /\ e.transform[1] = "profiles"
      /\ f \in KeyedByProfiles => f.key[1] = "ProfileConnectionSpace" /\ f.transform[1] = "profiles"
  BY DEF KeyedByProfiles
<1>4. CASE e \in NotKeyed /\ f \in NotKeyed
  BY <1>1, <1>4
<1>5. CASE e \in KeyedByLink /\ f \in KeyedByLink
  <2>1. PICK k \in ObservedLinks :
          /\ e.key = <<"DeviceLink", k.id, k.source, k.destination>>
          /\ e.transform = <<"link", k>>
    BY <1>5 DEF KeyedByLink
  <2>2. PICK l \in ObservedLinks :
          /\ f.key = <<"DeviceLink", l.id, l.source, l.destination>>
          /\ f.transform = <<"link", l>>
    BY <1>5 DEF KeyedByLink
  <2>3. e.transform = f.transform => k = l
    BY <2>1, <2>2
  <2>4. e.key = f.key => k.id = l.id /\ k.source = l.source /\ k.destination = l.destination
    BY <2>1, <2>2
  <2>5. e.key = f.key => k = l
    BY <2>4, LinksAreDescriptions
  <2>6. QED
    BY <2>1, <2>2, <2>3, <2>5
<1>6. CASE e \in KeyedByProfiles /\ f \in KeyedByProfiles
  <2>1. PICK r \in Requests :
          /\ e.key = <<"ProfileConnectionSpace", r.source_profile, r.destination_profile,
                       r.source, r.destination>>
          /\ e.transform = <<"profiles", r.source_profile, r.destination_profile,
                             r.source, r.destination>>
    BY <1>6 DEF KeyedByProfiles
  <2>2. PICK s \in Requests :
          /\ f.key = <<"ProfileConnectionSpace", s.source_profile, s.destination_profile,
                       s.source, s.destination>>
          /\ f.transform = <<"profiles", s.source_profile, s.destination_profile,
                             s.source, s.destination>>
    BY <1>6 DEF KeyedByProfiles
  <2>3. QED
    BY <2>1, <2>2
<1>7. CASE \/ e \in NotKeyed /\ f \in KeyedByLink \cup KeyedByProfiles
           \/ f \in NotKeyed /\ e \in KeyedByLink \cup KeyedByProfiles
           \/ e \in KeyedByLink /\ f \in KeyedByProfiles
           \/ f \in KeyedByLink /\ e \in KeyedByProfiles
  <2>1. e.key[1] # f.key[1] /\ e.transform[1] # f.transform[1]
    BY <1>1, <1>2, <1>3, <1>7 DEF NoKeyReasons
  <2>2. QED
    BY <2>1
<1>8. QED
  BY <1>4, <1>5, <1>6, <1>7 DEF KeyedEntry

-----------------------------------------------------------------------------
(* A link is taken only from those the request came with, and only if it    *)
(* joins the colour spaces of the request.                                  *)
LEMMA ConsideredLinkServes ==
  ASSUME KInv, ConsiderLink
  PROVE  KInv'
<1>1. /\ request \in Requests /\ request' = request /\ keyed' = keyed
      /\ ~Behind(request.links)
  BY DEF KInv, ConsiderLink, MoveOn, Stay
<1>2. position' \in Nat \ {0}
  BY DEF KInv, ConsiderLink, MoveOn, Stay
<1>3. CASE Serves(Here(request.links))
  <2>1. device_link' = [decision |-> "UseDeviceLink", link |-> Here(request.links)]
    BY <1>3 DEF ConsiderLink
  <2>2. Here(request.links) \in ObservedLinks
    <3>1. request.links \in Seq(ObservedLinks)
      BY <1>1, LinksAreDescriptions
    <3>2. position \in 1..Len(request.links)
      BY <1>1, <3>1, LenProperties DEF KInv, Behind
    <3>3. QED
      BY <3>1, <3>2, ElementOfSeq DEF Here
  <2>3. SelectedLinkServes'
    BY <2>1, <2>2, <1>1, <1>3 DEF SelectedLinkServes, Serves
  <2>4. QED
    BY <1>1, <1>2, <2>3 DEF KInv
<1>4. CASE ~Serves(Here(request.links))
  <2>1. device_link' = device_link
    BY <1>4 DEF ConsiderLink
  <2>2. QED
    BY <1>1, <1>2, <2>1 DEF KInv, SelectedLinkServes, Serves
<1>5. QED
  BY <1>3, <1>4

(* The entry a request ends with has one of the forms.                      *)
LEMMA DerivedEntryIsFormed ==
  ASSUME KInv, DeriveKey
  PROVE  keyed' \in Seq(KeyedEntry)
<1> DEFINE derived == IF Keyless THEN [key |-> <<NoKeyReason>>, transform |-> <<NoKeyReason>>]
                    ELSE [key |-> Key, transform |-> Transform]
<1>1. keyed' = Append(keyed, derived) /\ keyed \in Seq(KeyedEntry) /\ request \in Requests
  BY DEF DeriveKey, KInv
<1>2. SUFFICES derived \in KeyedEntry
  <2> HIDE DEF derived
  <2>1. QED
    BY <1>1, AppendProperties
<1>3. CASE Keyless
  <2>1. NoKeyReason \in NoKeyReasons
    BY DEF NoKeyReason, NoKeyReasons
  <2>2. derived \in NotKeyed
    BY <1>3, <2>1 DEF NotKeyed
  <2>3. QED
    BY <2>2 DEF KeyedEntry
<1>4. CASE ~Keyless /\ device_link.decision = "UseDeviceLink"
  <2>1. /\ device_link.link \in ObservedLinks
        /\ device_link.link.source = request.source
        /\ device_link.link.destination = request.destination
    BY <1>4 DEF KInv, SelectedLinkServes, Serves
  <2>2. derived = [key |-> <<"DeviceLink", device_link.link.id, request.source, request.destination>>,
                 transform |-> <<"link", device_link.link>>]
    BY <1>4 DEF Key, Transform
  <2>3. derived \in KeyedByLink
    BY <2>1, <2>2 DEF KeyedByLink
  <2>4. QED
    BY <2>3 DEF KeyedEntry
<1>5. CASE ~Keyless /\ device_link.decision # "UseDeviceLink"
  <2>1. derived \in KeyedByProfiles
    BY <1>1, <1>5 DEF Key, Transform, KeyedByProfiles
  <2>2. QED
    BY <2>1 DEF KeyedEntry
<1>6. QED
  BY <1>3, <1>4, <1>5

-----------------------------------------------------------------------------
(* Every step keeps the invariant; the resolvers behind the first leave    *)
(* the link and the keys alone.                                             *)
LEMMA StepKeepsKeys ==
  ASSUME KInv, [TransformNext]_transformVars
  PROVE  KInv'
<1>1. CASE Submit
  BY <1>1 DEF Submit, KInv, SelectedLinkServes, Undecided
<1>2. CASE ConsiderLink
  BY <1>2, ConsideredLinkServes
<1>3. CASE SettleLink
  <2>1. /\ request' = request /\ keyed' = keyed /\ position' = 1 /\ resolving # "idle"
        /\ device_link'.decision # "UseDeviceLink"
    BY <1>3 DEF SettleLink, MoveOn
  <2>2. QED
    BY <2>1 DEF KInv, SelectedLinkServes
<1>4. CASE ConsiderIntent \/ SettleIntent \/ ConsiderSpot \/ SettleSpot
             \/ ConsiderInteraction \/ SettleOverprint
  <2>1. /\ resolving # "idle" /\ request' = request /\ keyed' = keyed
        /\ device_link' = device_link /\ position' \in {1, position + 1}
    BY <1>4 DEF ConsiderIntent, SettleIntent, ConsiderSpot, SettleSpot, ConsiderInteraction,
                SettleOverprint, MoveOn, Stay
  <2>2. QED
    BY <2>1 DEF KInv, SelectedLinkServes, Serves
<1>5. CASE DeriveKey
  <2>1. keyed' \in Seq(KeyedEntry)
    BY <1>5, DerivedEntryIsFormed
  <2>2. resolving' = "idle" /\ position' = 1 /\ device_link' = Undecided
    BY <1>5 DEF DeriveKey
  <2>3. QED
    BY <2>1, <2>2 DEF KInv, SelectedLinkServes, Undecided
<1>6. CASE UNCHANGED transformVars
  BY <1>6 DEF transformVars, KInv, SelectedLinkServes, Serves
<1>7. QED
  BY <1>1, <1>2, <1>3, <1>4, <1>5, <1>6 DEF TransformNext, AllAnswered

(* Over any sequence of requests a key names its transform, and the same    *)
(* transform always gets the same key.                                      *)
THEOREM KeysAlwaysIdentify == TransformSpec => []KeysIdentifyTransforms
<1>1. TransformInit => KInv
  BY EmptySeq DEF TransformInit, KInv, SelectedLinkServes, Undecided
<1>2. KInv /\ [TransformNext]_transformVars => KInv'
  BY StepKeepsKeys
<1>3. KInv => KeysIdentifyTransforms
  <2>1. SUFFICES ASSUME KInv, NEW i \in DOMAIN keyed, NEW j \in DOMAIN keyed
                 PROVE  keyed[i].key = keyed[j].key <=> keyed[i].transform = keyed[j].transform
    BY DEF KeysIdentifyTransforms
  <2>2. keyed[i] \in KeyedEntry /\ keyed[j] \in KeyedEntry
    BY <2>1, LenProperties, ElementOfSeq DEF KInv
  <2>3. QED
    BY <2>2, EntriesAgree
<1>4. QED
  BY <1>1, <1>2, <1>3, PTL DEF TransformSpec

-----------------------------------------------------------------------------
(* What the resolvers have decided of the elements before the position.     *)
Before == 1..(position - 1)

LinksPassed == LooksAtLinks => \A i \in Before : ~Serves(request.links[i])

Conflicts(intent) == SameSubtype(intent) /\ ~IsTarget(intent)

(* The first conflict among the n - 1 intents seen, none of which matches.  *)
IntentDecided(n, decision) ==
  /\ \A i \in 1..(n - 1) : ~IsTarget(request.intents[i])
  /\ \/ /\ \A i \in 1..(n - 1) : ~Conflicts(request.intents[i])
        /\ decision.decision = "RequiresEnsureTarget"
     \/ \E i \in 1..(n - 1) :
          /\ Conflicts(request.intents[i])
          /\ \A j \in 1..(i - 1) : ~Conflicts(request.intents[j])
          /\ decision = [decision |-> "ConflictsWithExisting", existing |-> request.intents[i]]

IntentsSeen ==
  request.output_intent.policy = "EnsureTarget" => IntentDecided(position, output_intent)

SpotsSeen ==
  request.spot = "ConvertAlternate" =>
    /\ spot \in [decision : {"ConvertAlternate"}, eligible : Seq(ObservedSpots),
                 skipped : Seq(ObservedSpots)]
    /\ IsSifted(spot.eligible, request.spots, {i \in Before : Eligible(request.spots[i])})
    /\ IsSifted(spot.skipped, request.spots, {i \in Before : ~Eligible(request.spots[i])})

Reportable(i) == i.sensitivity = "Unsupported"
Mitigable(i) == i.sensitivity \notin {"Safe", "Unsupported"}
Interactions(mitigations) == [i \in DOMAIN mitigations |-> mitigations[i].interaction]

Mitigations == {Mitigation(i) : i \in ObservedInteractions}

InteractionsSeen ==
  request.overprint = "Mitigate" =>
    /\ overprint \in [decision : {"Mitigate"}, supported : Seq(Mitigations),
                      skipped : Seq(ObservedInteractions)]
    /\ IsSifted(overprint.skipped, request.interactions,
                {i \in Before : Reportable(request.interactions[i])})
    /\ IsSifted(Interactions(overprint.supported), request.interactions,
                {i \in Before : Mitigable(request.interactions[i])})

NoConflictSeen == [decision |-> "RequiresEnsureTarget"]
NoSpotSeen == [decision |-> "ConvertAlternate", eligible |-> <<>>, skipped |-> <<>>]
NoInteractionSeen == [decision |-> "Mitigate", supported |-> <<>>, skipped |-> <<>>]

DInv ==
  /\ resolving \in {"idle", "links", "intents", "spots", "overprint", "key"}
  /\ resolving # "idle" => request \in Requests
  /\ position \in Nat \ {0}
  /\ resolving = "links" =>
       LinksPassed /\ output_intent = NoConflictSeen /\ spot = NoSpotSeen /\ overprint = NoInteractionSeen
  /\ resolving = "intents" =>
       /\ LinksAnswered /\ spot = NoSpotSeen /\ overprint = NoInteractionSeen
       /\ position <= Len(request.intents) + 1 /\ IntentsSeen
  /\ resolving = "spots" =>
       /\ LinksAnswered /\ IntentsAnswered /\ overprint = NoInteractionSeen
       /\ position <= Len(request.spots) + 1 /\ SpotsSeen
  /\ resolving = "overprint" =>
       /\ LinksAnswered /\ IntentsAnswered /\ SpotsAnswered
       /\ position <= Len(request.interactions) + 1 /\ InteractionsSeen
  /\ resolving = "key" => LinksAnswered /\ IntentsAnswered /\ SpotsAnswered /\ UnsafeAnswered

(* The next element belongs to what was sifted.                             *)
LEMMA SiftedAppend ==
  ASSUME NEW S, NEW sifted \in Seq(S), NEW x \in S, NEW list, NEW k \in Nat,
         NEW places \in SUBSET (1..k),
         IsSifted(sifted, list, places), list[k + 1] = x
  PROVE  IsSifted(Append(sifted, x), list, places \cup {k + 1})
<1> DEFINE rank(i) == {j \in places : j <= i}
           all == places \cup {k + 1}
           ranked(i) == {j \in all : j <= i}
           more == Append(sifted, x)
<1>1. /\ Len(sifted) \in Nat /\ Len(more) = Len(sifted) + 1 /\ more[Len(sifted) + 1] = x
      /\ \A i \in 1..Len(sifted) : more[i] = sifted[i]
  OBVIOUS
<1>2. /\ IsFiniteSet(places) /\ Cardinality(places) \in Nat
      /\ Cardinality(all) = Cardinality(places) + 1
  BY CountOneMore
<1>3. Len(sifted) = Cardinality(places) /\ \A i \in places : sifted[Cardinality(rank(i))] = list[i]
  BY DEF IsSifted
<1> HIDE DEF more
<1>4. \A i \in places : ranked(i) = rank(i) /\ rank(i) \subseteq places /\ i \in rank(i)
  OBVIOUS
<1>5. ranked(k + 1) = all
  <2>1. \A j \in all : j <= k + 1
    OBVIOUS
  <2> HIDE DEF all
  <2>2. QED
    BY <2>1
<1> HIDE DEF rank, ranked, all
<1>6. ASSUME NEW i \in places
      PROVE  Cardinality(rank(i)) \in 1..Len(sifted)
  <2>1. IsFiniteSet(rank(i)) /\ Cardinality(rank(i)) <= Cardinality(places)
    BY <1>2, <1>4, FS_Subset
  <2>2. Cardinality(rank(i)) \in Nat /\ Cardinality(rank(i)) # 0
    BY <2>1, <1>4, FS_CardinalityType, FS_EmptySet
  <2>3. QED
    BY <2>1, <2>2, <1>2, <1>3
<1>7. \A i \in places : more[Cardinality(ranked(i))] = list[i]
  BY <1>1, <1>3, <1>4, <1>6
<1>8. more[Cardinality(ranked(k + 1))] = list[k + 1]
  BY <1>1, <1>2, <1>3, <1>5
<1>9. \A i \in all : more[Cardinality(ranked(i))] = list[i]
  BY <1>7, <1>8 DEF all
<1>10. QED
  BY <1>1, <1>2, <1>3, <1>9 DEF IsSifted, more, all, ranked

(* Nothing was sifted from nothing.                                         *)
LEMMA NothingSifted ==
  ASSUME NEW list, NEW places, places = {}
  PROVE  IsSifted(<<>>, list, places)
<1>1. Len(<<>>) = 0 /\ Cardinality({}) = 0
  BY FS_EmptySet
<1>2. QED
  BY <1>1 DEF IsSifted

(* One more mitigation is one more interaction.                             *)
LEMMA InteractionsAppend ==
  ASSUME NEW m \in Seq(Mitigations), NEW i \in ObservedInteractions
  PROVE  /\ Interactions(m) \in Seq(ObservedInteractions)
         /\ Append(m, Mitigation(i)) \in Seq(Mitigations)
         /\ Interactions(Append(m, Mitigation(i))) = Append(Interactions(m), i)
<1> DEFINE more == Append(m, Mitigation(i))
<1>1. Mitigation(i) \in Mitigations /\ Mitigation(i).interaction = i
  BY DEF Mitigations, Mitigation
<1>2. \A x \in Mitigations : x.interaction \in ObservedInteractions
  BY DEF Mitigations, Mitigation
<1> HIDE DEF Mitigations, ObservedInteractions
<1>3. /\ Len(m) \in Nat /\ DOMAIN m = 1..Len(m) /\ \A k \in 1..Len(m) : m[k] \in Mitigations
      /\ more \in Seq(Mitigations) /\ Len(more) = Len(m) + 1 /\ DOMAIN more = 1..Len(more)
      /\ more[Len(m) + 1] = Mitigation(i) /\ \A k \in 1..Len(m) : more[k] = m[k]
  BY <1>1
<1> HIDE DEF more
<1>4. Interactions(m) \in Seq(ObservedInteractions) /\ Len(Interactions(m)) = Len(m)
      /\ \A k \in 1..Len(m) : Interactions(m)[k] = m[k].interaction
  BY <1>2, <1>3 DEF Interactions
<1>5. /\ Append(Interactions(m), i) \in Seq(ObservedInteractions)
      /\ Len(Append(Interactions(m), i)) = Len(m) + 1
      /\ Append(Interactions(m), i)[Len(m) + 1] = i
      /\ \A k \in 1..Len(m) : Append(Interactions(m), i)[k] = m[k].interaction
  <2> DEFINE im == Interactions(m)
  <2>1. im \in Seq(ObservedInteractions) /\ Len(im) = Len(m) /\ \A k \in 1..Len(m) : im[k] = m[k].interaction
    BY <1>4
  <2> HIDE DEF im
  <2>2. /\ Append(im, i) \in Seq(ObservedInteractions)
        /\ Len(Append(im, i)) = Len(im) + 1
        /\ Append(im, i)[Len(im) + 1] = i
        /\ \A k \in 1..Len(im) : Append(im, i)[k] = im[k]
    BY <2>1, AppendProperties
  <2>3. QED
    BY <2>1, <2>2 DEF im
<1>6. Interactions(more) \in Seq(ObservedInteractions) /\ Len(Interactions(more)) = Len(m) + 1
      /\ \A k \in 1..(Len(m) + 1) : Interactions(more)[k] = more[k].interaction
  BY <1>2, <1>3, ElementOfSeq DEF Interactions
<1>7. \A k \in 1..(Len(m) + 1) : Interactions(more)[k] = Append(Interactions(m), i)[k]
  BY <1>1, <1>3, <1>5, <1>6
<1>8. Interactions(more) = Append(Interactions(m), i)
  <2> DEFINE a == Interactions(more)
             b == Append(Interactions(m), i)
  <2>1. /\ a \in Seq(ObservedInteractions) /\ b \in Seq(ObservedInteractions)
        /\ Len(a) = Len(b) /\ \A k \in 1..Len(a) : a[k] = b[k]
    BY <1>3, <1>5, <1>6, <1>7
  <2> HIDE DEF a, b
  <2>2. a = b
    BY <2>1, SeqEqual
  <2>3. QED
    BY <2>2 DEF a, b
<1>9. QED
  BY <1>3, <1>4, <1>8 DEF more

-----------------------------------------------------------------------------
(* The lists of a request.                                                  *)
LEMMA ListsOf ==
  ASSUME request \in Requests
  PROVE  /\ request.links \in Seq(ObservedLinks) /\ Len(request.links) \in Nat
         /\ request.intents \in Seq(ObservedIntents) /\ Len(request.intents) \in Nat
         /\ request.spots \in Seq(ObservedSpots) /\ Len(request.spots) \in Nat
         /\ request.interactions \in Seq(ObservedInteractions) /\ Len(request.interactions) \in Nat
         /\ DOMAIN request.links = 1..Len(request.links)
         /\ DOMAIN request.intents = 1..Len(request.intents)
         /\ DOMAIN request.spots = 1..Len(request.spots)
         /\ DOMAIN request.interactions = 1..Len(request.interactions)
<1>1. /\ request.links \in Seq(ObservedLinks) /\ request.intents \in Seq(ObservedIntents)
      /\ request.spots \in Seq(ObservedSpots) /\ request.interactions \in Seq(ObservedInteractions)
  BY LinksAreDescriptions, ObservationsAreLists
<1>2. QED
  BY <1>1, LenProperties

LEMMA SubmitDecides ==
  ASSUME DInv, Submit
  PROVE  DInv'
<1>1. /\ request' \in Requests /\ resolving' = "links" /\ position' = 1
      /\ output_intent' = NoConflictSeen /\ spot' = NoSpotSeen /\ overprint' = NoInteractionSeen
  BY DEF Submit, NoConflictSeen, NoSpotSeen, NoInteractionSeen
<1>2. LinksPassed'
  BY <1>1 DEF LinksPassed, Before
<1>3. QED
  BY <1>1, <1>2 DEF DInv

LEMMA ConsiderLinkDecides ==
  ASSUME DInv, ConsiderLink
  PROVE  DInv'
<1>1. /\ resolving = "links" /\ LooksAtLinks /\ ~Behind(request.links)
      /\ request' = request /\ UNCHANGED <<output_intent, spot, overprint>>
  BY DEF ConsiderLink, Stay, MoveOn
<1>2. /\ request \in Requests /\ position \in Nat \ {0} /\ LinksPassed
      /\ output_intent = NoConflictSeen /\ spot = NoSpotSeen /\ overprint = NoInteractionSeen
  BY <1>1 DEF DInv
<1>3. position \in 1..Len(request.links)
  BY <1>1, <1>2, ListsOf DEF Behind
<1>4. \A i \in 1..(position - 1) : ~Serves(request.links[i])
  BY <1>1, <1>2 DEF LinksPassed, Before
<1>5. CASE Serves(Here(request.links))
  <2>1. /\ device_link' = [decision |-> "UseDeviceLink", link |-> Here(request.links)]
        /\ resolving' = "intents" /\ position' = 1
    BY <1>5 DEF ConsiderLink, MoveOn
  <2>2. position \in First(request.links, Serves)
    BY <1>2, <1>3, <1>4, <1>5, ListsOf DEF First, Here
  <2>3. LinksAnswered'
    BY <2>1, <2>2, <1>1 DEF LinksAnswered, LooksAtLinks, First, Serves, Here
  <2>4. IntentsSeen'
    <3>1. \A i \in 1..(1 - 1) : FALSE
      OBVIOUS
    <3>2. IntentDecided(1, NoConflictSeen)'
      BY <3>1 DEF IntentDecided, NoConflictSeen
    <3>3. QED
      BY <3>2, <2>1, <1>1, <1>2 DEF IntentsSeen
  <2>5. position' <= Len(request'.intents) + 1
    BY <2>1, <1>1, <1>2, ListsOf
  <2>6. QED
    BY <2>1, <2>3, <2>4, <2>5, <1>1, <1>2 DEF DInv, NoSpotSeen, NoInteractionSeen
<1>6. CASE ~Serves(Here(request.links))
  <2>1. resolving' = "links" /\ position' = position + 1
    BY <1>1, <1>6 DEF ConsiderLink, Stay
  <2>2. \A i \in 1..(position' - 1) : ~Serves(request.links[i])
    BY <2>1, <1>2, <1>4, <1>6 DEF Here
  <2>3. LinksPassed'
    BY <2>2, <1>1 DEF LinksPassed, Before, Serves
  <2>4. QED
    BY <2>1, <2>3, <1>1, <1>2 DEF DInv, NoConflictSeen, NoSpotSeen, NoInteractionSeen
<1>7. QED
  BY <1>5, <1>6

LEMMA SettleLinkDecides ==
  ASSUME DInv, SettleLink
  PROVE  DInv'
<1>1. /\ resolving = "links" /\ (LooksAtLinks => Behind(request.links))
      /\ request' = request /\ resolving' = "intents" /\ position' = 1
      /\ UNCHANGED <<output_intent, spot, overprint>>
      /\ device_link' = IF request.device_link = "Require" THEN [decision |-> "Rejected"]
                        ELSE [decision |-> "UseProfileConnectionSpace"]
  BY DEF SettleLink, MoveOn
<1>2. /\ request \in Requests /\ position \in Nat \ {0} /\ LinksPassed
      /\ output_intent = NoConflictSeen /\ spot = NoSpotSeen /\ overprint = NoInteractionSeen
  BY <1>1 DEF DInv
<1>3. LooksAtLinks => First(request.links, Serves) = {}
  <2>1. SUFFICES ASSUME LooksAtLinks, NEW i \in 1..Len(request.links)
                 PROVE  ~Serves(request.links[i])
    BY <1>2, ListsOf DEF First
  <2>2. i \in 1..(position - 1)
    BY <2>1, <1>1, <1>2, ListsOf DEF Behind
  <2>3. QED
    BY <2>1, <2>2, <1>2 DEF LinksPassed, Before
<1>4. LinksAnswered'
  <2>1. ~(LooksAtLinks /\ First(request.links, Serves) # {})
    BY <1>3
  <2>2. ~(LooksAtLinks /\ First(request.links, Serves) # {})'
    BY <2>1, <1>1 DEF LooksAtLinks, First, Serves
  <2>3. device_link'.decision = IF request'.device_link = "Require" THEN "Rejected"
                                ELSE "UseProfileConnectionSpace"
    BY <1>1
  <2>4. QED
    BY <2>2, <2>3 DEF LinksAnswered
<1>5. IntentsSeen'
  <2>1. \A i \in 1..(1 - 1) : FALSE
    OBVIOUS
  <2>2. IntentDecided(1, NoConflictSeen)'
    BY <2>1 DEF IntentDecided, NoConflictSeen
  <2>3. QED
    BY <2>2, <1>1, <1>2 DEF IntentsSeen
<1>6. position' <= Len(request'.intents) + 1
  BY <1>1, <1>2, ListsOf
<1>7. QED
  BY <1>1, <1>2, <1>4, <1>5, <1>6 DEF DInv, NoSpotSeen, NoInteractionSeen

(* What was answered stays answered.                                        *)
LEMMA AnswersKept ==
  ASSUME request' = request
  PROVE  /\ device_link' = device_link /\ LinksAnswered => LinksAnswered'
         /\ output_intent' = output_intent /\ IntentsAnswered => IntentsAnswered'
         /\ spot' = spot /\ SpotsAnswered => SpotsAnswered'
<1>1. device_link' = device_link /\ LinksAnswered => LinksAnswered'
  BY DEF LinksAnswered, LooksAtLinks, First, Serves
<1>2. output_intent' = output_intent /\ IntentsAnswered => IntentsAnswered'
  BY DEF IntentsAnswered, First, SameSubtype, IsTarget
<1>3. spot' = spot /\ SpotsAnswered => SpotsAnswered'
  <2> DEFINE eligible == {i \in DOMAIN request.spots : Eligible(request.spots[i])}
             others == DOMAIN request.spots \ eligible
  <2>1. eligible' = eligible /\ others' = others
    BY DEF Eligible
  <2>2. SpotsAnswered <=>
          (request.spot = "ConvertAlternate" =>
             /\ IsSifted(spot.eligible, request.spots, eligible)
             /\ IsSifted(spot.skipped, request.spots, others))
    BY DEF SpotsAnswered, Places
  <2>3. (SpotsAnswered <=>
          (request.spot = "ConvertAlternate" =>
             /\ IsSifted(spot.eligible, request.spots, eligible)
             /\ IsSifted(spot.skipped, request.spots, others)))'
    BY DEF SpotsAnswered, Places
  <2> HIDE DEF eligible, others
  <2>4. QED
    BY <2>1, <2>2, <2>3
<1>4. QED
  BY <1>1, <1>2, <1>3

(* Nothing is seen at the first position.                                   *)
LEMMA NoneSeen ==
  ASSUME request \in Requests, position = 1
  PROVE  /\ spot = NoSpotSeen => SpotsSeen
         /\ overprint = NoInteractionSeen => InteractionsSeen
         /\ position <= Len(request.spots) + 1 /\ position <= Len(request.interactions) + 1
<1>1. /\ {i \in Before : Eligible(request.spots[i])} = {}
      /\ {i \in Before : ~Eligible(request.spots[i])} = {}
      /\ {i \in Before : Reportable(request.interactions[i])} = {}
      /\ {i \in Before : Mitigable(request.interactions[i])} = {}
  BY DEF Before
<1>2. spot = NoSpotSeen => SpotsSeen
  BY <1>1, NothingSifted DEF SpotsSeen, NoSpotSeen
<1>3. overprint = NoInteractionSeen => InteractionsSeen
  <2>1. Interactions(<<>>) = <<>>
    BY DEF Interactions
  <2>2. QED
    BY <1>1, <2>1, NothingSifted DEF InteractionsSeen, NoInteractionSeen
<1>4. QED
  BY <1>2, <1>3, ListsOf

(* The intent at hand is looked at behind those before it.                  *)
LEMMA IntentConsidered ==
  ASSUME request \in Requests, NEW n \in 1..Len(request.intents), NEW decision,
         IntentDecided(n, decision), ~IsTarget(request.intents[n])
  PROVE  IntentDecided(n + 1, IF SameSubtype(request.intents[n])
                                   /\ decision.decision = "RequiresEnsureTarget"
                              THEN [decision |-> "ConflictsWithExisting",
                                    existing |-> request.intents[n]]
                              ELSE decision)
<1> DEFINE intents == request.intents
           after == IF SameSubtype(intents[n]) /\ decision.decision = "RequiresEnsureTarget"
                    THEN [decision |-> "ConflictsWithExisting", existing |-> intents[n]]
                    ELSE decision
<1>1. n \in Nat \ {0} /\ (n + 1) - 1 = n
  BY ListsOf
<1>2. 1..((n + 1) - 1) = 1..(n - 1) \cup {n}
  BY <1>1
<1>3. \A i \in 1..((n + 1) - 1) : ~IsTarget(intents[i])
  BY <1>2 DEF IntentDecided
<1>4. CASE (\A i \in 1..(n - 1) : ~Conflicts(intents[i])) /\ decision.decision = "RequiresEnsureTarget"
  <2>1. CASE SameSubtype(intents[n])
    <3>1. Conflicts(intents[n]) /\ n \in 1..((n + 1) - 1)
      BY <2>1, <1>1 DEF Conflicts
    <3>2. after = [decision |-> "ConflictsWithExisting", existing |-> intents[n]]
      BY <2>1, <1>4
    <3>3. QED
      BY <3>1, <3>2, <1>3, <1>4 DEF IntentDecided
  <2>2. CASE ~SameSubtype(intents[n])
    <3>1. ~Conflicts(intents[n]) /\ after = decision
      BY <2>2 DEF Conflicts
    <3>2. \A i \in 1..((n + 1) - 1) : ~Conflicts(intents[i])
      BY <3>1, <1>2, <1>4
    <3>3. QED
      BY <3>1, <3>2, <1>3, <1>4 DEF IntentDecided
  <2>3. QED
    BY <2>1, <2>2
<1>5. CASE \E i \in 1..(n - 1) :
             /\ Conflicts(intents[i])
             /\ \A j \in 1..(i - 1) : ~Conflicts(intents[j])
             /\ decision = [decision |-> "ConflictsWithExisting", existing |-> intents[i]]
  <2>1. after = decision
    BY <1>5
  <2>2. \E i \in 1..((n + 1) - 1) :
          /\ Conflicts(intents[i])
          /\ \A j \in 1..(i - 1) : ~Conflicts(intents[j])
          /\ decision = [decision |-> "ConflictsWithExisting", existing |-> intents[i]]
    BY <1>2, <1>5
  <2>3. QED
    BY <2>1, <2>2, <1>3 DEF IntentDecided
<1>6. QED
  BY <1>4, <1>5 DEF IntentDecided

LEMMA ConsiderIntentDecides ==
  ASSUME DInv, ConsiderIntent
  PROVE  DInv'
<1> DEFINE intents == request.intents
<1>1. /\ resolving = "intents" /\ request.output_intent.policy = "EnsureTarget" /\ ~Behind(intents)
      /\ request' = request /\ UNCHANGED <<device_link, spot, overprint>>
  BY DEF ConsiderIntent, Stay, MoveOn
<1>2. /\ request \in Requests /\ position \in Nat \ {0} /\ LinksAnswered /\ IntentsSeen
      /\ spot = NoSpotSeen /\ overprint = NoInteractionSeen
  BY <1>1 DEF DInv
<1>3. /\ position \in 1..Len(intents) /\ DOMAIN intents = 1..Len(intents)
      /\ Here(intents) = intents[position]
  BY <1>1, <1>2, ListsOf DEF Behind, Here
<1>4. LinksAnswered'
  BY <1>1, <1>2, AnswersKept
<1>5. IntentDecided(position, output_intent)
  BY <1>1, <1>2 DEF IntentsSeen
<1>6. CASE IsTarget(intents[position])
  <2>1. /\ output_intent' = [decision |-> "AlreadySatisfied"]
        /\ resolving' = "spots" /\ position' = 1
    BY <1>3, <1>6 DEF ConsiderIntent, MoveOn, IsTarget, SameSubtype
  <2>2. position \in First(intents, IsTarget)
    BY <1>3, <1>5, <1>6 DEF First, IntentDecided
  <2>3. IntentsAnswered'
    <3>1. First(intents, IsTarget)' # {}
      BY <2>2, <1>1 DEF First, IsTarget
    <3>2. QED
      BY <3>1, <2>1 DEF IntentsAnswered
  <2>4. SpotsSeen' /\ position' <= Len(request'.spots) + 1
    <3>1. (request \in Requests)' /\ (position = 1)' /\ (spot = NoSpotSeen)'
      BY <2>1, <1>1, <1>2 DEF NoSpotSeen
    <3>2. (request \in Requests /\ position = 1 /\ spot = NoSpotSeen
             => SpotsSeen /\ position <= Len(request.spots) + 1)'
      BY NoneSeen, PTL
    <3>3. QED
      BY <3>1, <3>2
  <2>5. QED
    BY <2>1, <2>3, <2>4, <1>1, <1>2, <1>4 DEF DInv, NoInteractionSeen
<1>7. CASE ~IsTarget(intents[position])
  <2>1. /\ output_intent' =
             IF SameSubtype(intents[position]) /\ output_intent.decision = "RequiresEnsureTarget"
             THEN [decision |-> "ConflictsWithExisting", existing |-> intents[position]]
             ELSE output_intent
        /\ resolving' = "intents" /\ position' = position + 1
    BY <1>1, <1>3, <1>7 DEF ConsiderIntent, Stay
  <2>2. IntentDecided(position', output_intent')
    BY <2>1, <1>2, <1>3, <1>5, <1>7, IntentConsidered
  <2>3. IntentsSeen'
    BY <2>2, <1>1 DEF IntentsSeen, IntentDecided, Conflicts, SameSubtype, IsTarget
  <2>4. position' <= Len(request'.intents) + 1
    BY <2>1, <1>1, <1>2, <1>3, ListsOf
  <2>5. QED
    BY <2>1, <2>3, <2>4, <1>1, <1>2, <1>4 DEF DInv, NoSpotSeen, NoInteractionSeen
<1>8. QED
  BY <1>6, <1>7

LEMMA SettleIntentDecides ==
  ASSUME DInv, SettleIntent
  PROVE  DInv'
<1> DEFINE intents == request.intents
<1>1. /\ resolving = "intents" /\ (request.output_intent.policy = "EnsureTarget" => Behind(intents))
      /\ request' = request /\ UNCHANGED <<device_link, spot, overprint>>
      /\ resolving' = "spots" /\ position' = 1
  BY DEF SettleIntent, MoveOn
<1>2. /\ request \in Requests /\ position \in Nat \ {0} /\ LinksAnswered /\ IntentsSeen
      /\ spot = NoSpotSeen /\ overprint = NoInteractionSeen
      /\ position <= Len(intents) + 1
  BY <1>1 DEF DInv
<1>3. LinksAnswered'
  BY <1>1, <1>2, AnswersKept
<1>4. IntentsAnswered'
  <2>1. SUFFICES ASSUME request.output_intent.policy = "EnsureTarget" PROVE IntentsAnswered'
    BY <1>1 DEF IntentsAnswered
  <2>2. output_intent' = output_intent
    BY <2>1 DEF SettleIntent
  <2>3. /\ IntentDecided(position, output_intent) /\ position > Len(intents)
        /\ DOMAIN intents = 1..Len(intents) /\ Len(intents) \in Nat
    BY <2>1, <1>1, <1>2, ListsOf DEF IntentsSeen, Behind
  <2>4. \A i \in DOMAIN intents : i \in 1..(position - 1)
    BY <2>3, <1>2
  <2>5. First(intents, IsTarget) = {}
    BY <2>3, <2>4 DEF First, IntentDecided
  <2>6. IF First(intents, Conflicts) = {}
        THEN output_intent.decision = "RequiresEnsureTarget"
        ELSE \E i \in First(intents, Conflicts) :
               output_intent = [decision |-> "ConflictsWithExisting", existing |-> intents[i]]
    <3>1. CASE /\ \A i \in 1..(position - 1) : ~Conflicts(intents[i])
               /\ output_intent.decision = "RequiresEnsureTarget"
      <4>1. First(intents, Conflicts) = {}
        BY <3>1, <2>4 DEF First
      <4>2. QED
        BY <4>1, <3>1
    <3>2. CASE \E i \in 1..(position - 1) :
                 /\ Conflicts(intents[i])
                 /\ \A j \in 1..(i - 1) : ~Conflicts(intents[j])
                 /\ output_intent = [decision |-> "ConflictsWithExisting", existing |-> intents[i]]
      <4>1. PICK i \in 1..(position - 1) :
              /\ Conflicts(intents[i])
              /\ \A j \in 1..(i - 1) : ~Conflicts(intents[j])
              /\ output_intent = [decision |-> "ConflictsWithExisting", existing |-> intents[i]]
        BY <3>2
      <4>2. i \in First(intents, Conflicts)
        BY <4>1, <2>3, <1>2 DEF First
      <4>3. QED
        BY <4>1, <4>2
    <3>3. QED
      BY <3>1, <3>2, <2>3 DEF IntentDecided
  <2>7. QED
    BY <2>2, <2>5, <2>6, <1>1 DEF IntentsAnswered, First, Conflicts, IsTarget, SameSubtype
<1>5. SpotsSeen' /\ position' <= Len(request'.spots) + 1
  <2>1. (request \in Requests)' /\ (position = 1)' /\ (spot = NoSpotSeen)'
    BY <1>1, <1>2 DEF NoSpotSeen
  <2>2. (request \in Requests /\ position = 1 /\ spot = NoSpotSeen
           => SpotsSeen /\ position <= Len(request.spots) + 1)'
    BY NoneSeen, PTL
  <2>3. QED
    BY <2>1, <2>2
<1>6. QED
  BY <1>1, <1>2, <1>3, <1>4, <1>5 DEF DInv, NoInteractionSeen

(* The spot colour at hand goes to one side or the other.                   *)
LEMMA ConsiderSpotDecides ==
  ASSUME DInv, ConsiderSpot
  PROVE  DInv'
<1> DEFINE spots == request.spots
           x == spots[position]
           chosen == {i \in Before : Eligible(spots[i])}
           others == {i \in Before : ~Eligible(spots[i])}
<1>1. /\ resolving = "spots" /\ request.spot = "ConvertAlternate" /\ ~Behind(spots)
      /\ request' = request /\ resolving' = "spots" /\ position' = position + 1
      /\ spot' = IF Eligible(x) THEN [spot EXCEPT !.eligible = Append(@, x)]
                 ELSE [spot EXCEPT !.skipped = Append(@, x)]
      /\ UNCHANGED <<device_link, output_intent, overprint>>
  BY DEF ConsiderSpot, Stay, Here
<1>2. /\ request \in Requests /\ position \in Nat \ {0} /\ LinksAnswered /\ IntentsAnswered
      /\ overprint = NoInteractionSeen /\ SpotsSeen
  BY <1>1 DEF DInv
<1>3. /\ position \in 1..Len(spots) /\ x \in ObservedSpots /\ Len(spots) \in Nat
  <2>1. position \in 1..Len(spots) /\ spots \in Seq(ObservedSpots) /\ Len(spots) \in Nat
    BY <1>1, <1>2, ListsOf DEF Behind
  <2>2. QED
    BY <2>1, ElementOfSeq
<1>4. LinksAnswered' /\ IntentsAnswered'
  BY <1>1, <1>2, AnswersKept
<1>5. /\ spot \in [decision : {"ConvertAlternate"}, eligible : Seq(ObservedSpots),
                   skipped : Seq(ObservedSpots)]
      /\ IsSifted(spot.eligible, spots, chosen) /\ IsSifted(spot.skipped, spots, others)
  BY <1>1, <1>2 DEF SpotsSeen
<1>6. /\ Before' = Before \cup {position} /\ Before = 1..(position - 1)
      /\ position - 1 \in Nat /\ (position - 1) + 1 = position /\ position \notin Before
  BY <1>1, <1>2 DEF Before
<1>7. /\ chosen' = IF Eligible(x) THEN chosen \cup {position} ELSE chosen
      /\ others' = IF Eligible(x) THEN others ELSE others \cup {position}
  BY <1>1, <1>6 DEF Eligible
<1>8. chosen \in SUBSET (1..(position - 1)) /\ others \in SUBSET (1..(position - 1))
  BY <1>6
<1>9. /\ SpotsSeen' <=>
           /\ spot' \in [decision : {"ConvertAlternate"}, eligible : Seq(ObservedSpots),
                         skipped : Seq(ObservedSpots)]
           /\ IsSifted(spot'.eligible, spots, chosen')
           /\ IsSifted(spot'.skipped, spots, others')
  <2>1. request'.spot = "ConvertAlternate" /\ ObservedSpots' = ObservedSpots /\ request'.spots = spots
    BY <1>1
  <2>2. QED
    BY <2>1 DEF SpotsSeen
<1> HIDE DEF chosen, others, x
<1>10. /\ spot.eligible \in Seq(ObservedSpots) /\ spot.skipped \in Seq(ObservedSpots)
       /\ spot.decision = "ConvertAlternate"
  BY <1>5
<1>11. CASE Eligible(x)
  <2>1. /\ spot' \in [decision : {"ConvertAlternate"}, eligible : Seq(ObservedSpots),
                      skipped : Seq(ObservedSpots)]
        /\ spot'.eligible = Append(spot.eligible, x) /\ spot'.skipped = spot.skipped
    <3>1. Append(spot.eligible, x) \in Seq(ObservedSpots)
      BY <1>3, <1>10, AppendProperties
    <3>2. spot' = [spot EXCEPT !.eligible = Append(spot.eligible, x)]
      BY <1>1, <1>11
    <3>3. QED
      BY <3>1, <3>2, <1>5
  <2>2. IsSifted(Append(spot.eligible, x), spots, chosen \cup {(position - 1) + 1})
    BY <1>3, <1>5, <1>6, <1>8, <1>10, SiftedAppend DEF x
  <2>3. IsSifted(spot'.eligible, spots, chosen') /\ IsSifted(spot'.skipped, spots, others')
    BY <2>1, <2>2, <1>5, <1>6, <1>7, <1>11
  <2>4. SpotsSeen'
    BY <2>1, <2>3, <1>9
  <2>5. position' <= Len(request'.spots) + 1
    BY <1>1, <1>3
  <2>6. QED
    BY <2>4, <2>5, <1>1, <1>2, <1>4 DEF DInv, NoInteractionSeen
<1>12. CASE ~Eligible(x)
  <2>1. /\ spot' \in [decision : {"ConvertAlternate"}, eligible : Seq(ObservedSpots),
                      skipped : Seq(ObservedSpots)]
        /\ spot'.skipped = Append(spot.skipped, x) /\ spot'.eligible = spot.eligible
    <3>1. Append(spot.skipped, x) \in Seq(ObservedSpots)
      BY <1>3, <1>10, AppendProperties
    <3>2. spot' = [spot EXCEPT !.skipped = Append(spot.skipped, x)]
      BY <1>1, <1>12
    <3>3. QED
      BY <3>1, <3>2, <1>5
  <2>2. IsSifted(Append(spot.skipped, x), spots, others \cup {(position - 1) + 1})
    BY <1>3, <1>5, <1>6, <1>8, <1>10, SiftedAppend DEF x
  <2>3. IsSifted(spot'.eligible, spots, chosen') /\ IsSifted(spot'.skipped, spots, others')
    BY <2>1, <2>2, <1>5, <1>6, <1>7, <1>12
  <2>4. SpotsSeen'
    BY <2>1, <2>3, <1>9
  <2>5. position' <= Len(request'.spots) + 1
    BY <1>1, <1>3
  <2>6. QED
    BY <2>4, <2>5, <1>1, <1>2, <1>4 DEF DInv, NoInteractionSeen
<1>13. QED
  BY <1>11, <1>12

LEMMA SettleSpotDecides ==
  ASSUME DInv, SettleSpot
  PROVE  DInv'
<1> DEFINE spots == request.spots
<1>1. /\ resolving = "spots" /\ (request.spot = "ConvertAlternate" => Behind(spots))
      /\ request' = request /\ UNCHANGED <<device_link, output_intent, overprint>>
      /\ resolving' = "overprint" /\ position' = 1
  BY DEF SettleSpot, MoveOn
<1>2. /\ request \in Requests /\ position \in Nat \ {0} /\ LinksAnswered /\ IntentsAnswered
      /\ overprint = NoInteractionSeen /\ SpotsSeen /\ position <= Len(spots) + 1
  BY <1>1 DEF DInv
<1>3. LinksAnswered' /\ IntentsAnswered'
  BY <1>1, <1>2, AnswersKept
<1>4. SpotsAnswered'
  <2>1. SUFFICES ASSUME request.spot = "ConvertAlternate" PROVE SpotsAnswered'
    BY <1>1 DEF SpotsAnswered
  <2>2. spot' = spot
    BY <2>1 DEF SettleSpot
  <2>3. DOMAIN spots = 1..Len(spots) /\ Len(spots) \in Nat
    BY <1>2, ListsOf
  <2>4. Before = DOMAIN spots
    BY <2>1, <2>3, <1>1, <1>2 DEF Behind, Before
  <2>5. /\ IsSifted(spot.eligible, spots, {i \in DOMAIN spots : Eligible(spots[i])})
        /\ IsSifted(spot.skipped, spots, {i \in DOMAIN spots : ~Eligible(spots[i])})
    BY <2>1, <2>4, <1>2 DEF SpotsSeen
  <2>6. /\ Places(spots, Eligible) = {i \in DOMAIN spots : Eligible(spots[i])}
        /\ DOMAIN spots \ Places(spots, Eligible) = {i \in DOMAIN spots : ~Eligible(spots[i])}
    BY DEF Places
  <2>7. SpotsAnswered
    BY <2>5, <2>6 DEF SpotsAnswered
  <2>8. QED
    BY <2>2, <2>7, <1>1, AnswersKept
<1>5. InteractionsSeen' /\ position' <= Len(request'.interactions) + 1
  <2>1. (request \in Requests)' /\ (position = 1)' /\ (overprint = NoInteractionSeen)'
    BY <1>1, <1>2 DEF NoInteractionSeen
  <2>2. (request \in Requests /\ position = 1 /\ overprint = NoInteractionSeen
           => InteractionsSeen /\ position <= Len(request.interactions) + 1)'
    BY NoneSeen, PTL
  <2>3. QED
    BY <2>1, <2>2
<1>6. QED
  BY <1>1, <1>2, <1>3, <1>4, <1>5 DEF DInv

(* An interaction is reported, mitigated or safe, one of the three.         *)
LEMMA ConsiderInteractionDecides ==
  ASSUME DInv, ConsiderInteraction
  PROVE  DInv'
<1> DEFINE list == request.interactions
           x == list[position]
           reported == {i \in Before : Reportable(list[i])}
           mitigated == {i \in Before : Mitigable(list[i])}
<1>1. /\ resolving = "overprint" /\ request.overprint = "Mitigate" /\ ~Behind(list)
      /\ request' = request /\ resolving' = "overprint" /\ position' = position + 1
      /\ overprint' = Mitigated(overprint, x)
      /\ UNCHANGED <<device_link, output_intent, spot>>
  BY DEF ConsiderInteraction, Stay, Here
<1>2. /\ request \in Requests /\ position \in Nat \ {0}
      /\ LinksAnswered /\ IntentsAnswered /\ SpotsAnswered /\ InteractionsSeen
  BY <1>1 DEF DInv
<1>3. /\ position \in 1..Len(list) /\ x \in ObservedInteractions /\ Len(list) \in Nat
  <2>1. position \in 1..Len(list) /\ list \in Seq(ObservedInteractions) /\ Len(list) \in Nat
    BY <1>1, <1>2, ListsOf DEF Behind
  <2>2. QED
    BY <2>1, ElementOfSeq
<1>4. LinksAnswered' /\ IntentsAnswered' /\ SpotsAnswered'
  BY <1>1, <1>2, AnswersKept
<1>5. /\ overprint \in [decision : {"Mitigate"}, supported : Seq(Mitigations),
                        skipped : Seq(ObservedInteractions)]
      /\ IsSifted(overprint.skipped, list, reported)
      /\ IsSifted(Interactions(overprint.supported), list, mitigated)
  BY <1>1, <1>2 DEF InteractionsSeen
<1>6. /\ Before' = Before \cup {position} /\ Before = 1..(position - 1)
      /\ position - 1 \in Nat /\ (position - 1) + 1 = position /\ position \notin Before
  BY <1>1, <1>2 DEF Before
<1>7. /\ reported' = IF Reportable(x) THEN reported \cup {position} ELSE reported
      /\ mitigated' = IF Mitigable(x) THEN mitigated \cup {position} ELSE mitigated
  BY <1>1, <1>6 DEF Reportable, Mitigable
<1>8. reported \in SUBSET (1..(position - 1)) /\ mitigated \in SUBSET (1..(position - 1))
  BY <1>6
<1>9. InteractionsSeen' <=>
           /\ overprint' \in [decision : {"Mitigate"}, supported : Seq(Mitigations),
                              skipped : Seq(ObservedInteractions)]
           /\ IsSifted(overprint'.skipped, list, reported')
           /\ IsSifted(Interactions(overprint'.supported), list, mitigated')
  <2>1. /\ request'.overprint = "Mitigate" /\ request'.interactions = list
        /\ ObservedInteractions' = ObservedInteractions /\ Mitigations' = Mitigations
    BY <1>1
  <2>2. QED
    BY <2>1 DEF InteractionsSeen
<1>10. position' <= Len(request'.interactions) + 1
  BY <1>1, <1>3
<1> HIDE DEF reported, mitigated, x
<1>11. /\ overprint.supported \in Seq(Mitigations) /\ overprint.skipped \in Seq(ObservedInteractions)
       /\ overprint.decision = "Mitigate"
  BY <1>5
<1>12. InteractionsSeen'
  <2>1. CASE x.sensitivity = "Safe"
    <3>1. overprint' = overprint /\ ~Reportable(x) /\ ~Mitigable(x)
      BY <2>1, <1>1 DEF Mitigated, Reportable, Mitigable
    <3>2. QED
      BY <3>1, <1>5, <1>7, <1>9
  <2>2. CASE x.sensitivity = "Unsupported"
    <3>1. Reportable(x) /\ ~Mitigable(x)
      BY <2>2 DEF Reportable, Mitigable
    <3>2. /\ overprint' \in [decision : {"Mitigate"}, supported : Seq(Mitigations),
                             skipped : Seq(ObservedInteractions)]
          /\ overprint'.skipped = Append(overprint.skipped, x)
          /\ overprint'.supported = overprint.supported
      <4>1. Append(overprint.skipped, x) \in Seq(ObservedInteractions)
        BY <1>3, <1>11, AppendProperties
      <4>2. overprint' = [overprint EXCEPT !.skipped = Append(overprint.skipped, x)]
        BY <2>2, <1>1 DEF Mitigated
      <4>3. QED
        BY <4>1, <4>2, <1>5
    <3>3. IsSifted(Append(overprint.skipped, x), list, reported \cup {(position - 1) + 1})
      BY <1>3, <1>5, <1>6, <1>8, <1>11, SiftedAppend DEF x
    <3>4. QED
      BY <3>1, <3>2, <3>3, <1>5, <1>6, <1>7, <1>9
  <2>3. CASE Mitigable(x)
    <3>1. ~Reportable(x)
      BY <2>3 DEF Reportable, Mitigable
    <3>2. /\ overprint' \in [decision : {"Mitigate"}, supported : Seq(Mitigations),
                             skipped : Seq(ObservedInteractions)]
          /\ overprint'.supported = Append(overprint.supported, Mitigation(x))
          /\ overprint'.skipped = overprint.skipped
      <4>1. Append(overprint.supported, Mitigation(x)) \in Seq(Mitigations)
        BY <1>3, <1>11, InteractionsAppend
      <4>2. overprint' = [overprint EXCEPT !.supported = Append(overprint.supported, Mitigation(x))]
        BY <2>3, <1>1 DEF Mitigated, Mitigable
      <4>3. QED
        BY <4>1, <4>2, <1>5
    <3>3. /\ Interactions(overprint.supported) \in Seq(ObservedInteractions)
          /\ Interactions(overprint'.supported) = Append(Interactions(overprint.supported), x)
      BY <3>2, <1>3, <1>11, InteractionsAppend
    <3>4. IsSifted(Append(Interactions(overprint.supported), x), list,
                   mitigated \cup {(position - 1) + 1})
      BY <3>3, <1>3, <1>5, <1>6, <1>8, SiftedAppend DEF x
    <3>5. QED
      BY <2>3, <3>1, <3>2, <3>3, <3>4, <1>5, <1>6, <1>7, <1>9
  <2>4. QED
    BY <2>1, <2>2, <2>3 DEF Mitigable
<1>13. QED
  BY <1>1, <1>2, <1>4, <1>10, <1>12 DEF DInv

LEMMA SettleOverprintDecides ==
  ASSUME DInv, SettleOverprint
  PROVE  DInv'
<1> DEFINE list == request.interactions
<1>1. /\ resolving = "overprint" /\ (request.overprint = "Mitigate" => Behind(list))
      /\ request' = request /\ UNCHANGED <<device_link, output_intent, spot>>
      /\ resolving' = "key" /\ position' = 1
  BY DEF SettleOverprint, MoveOn
<1>2. /\ request \in Requests /\ position \in Nat \ {0} /\ position <= Len(list) + 1
      /\ LinksAnswered /\ IntentsAnswered /\ SpotsAnswered /\ InteractionsSeen
  BY <1>1 DEF DInv
<1>3. LinksAnswered' /\ IntentsAnswered' /\ SpotsAnswered'
  BY <1>1, <1>2, AnswersKept
<1>4. UnsafeAnswered'
  <2>1. SUFFICES ASSUME request.overprint = "Mitigate" PROVE UnsafeAnswered'
    BY <1>1 DEF UnsafeAnswered
  <2>2. overprint' = overprint
    BY <2>1 DEF SettleOverprint
  <2>3. DOMAIN list = 1..Len(list) /\ Len(list) \in Nat
    BY <1>2, ListsOf
  <2>4. Before = DOMAIN list
    BY <2>1, <2>3, <1>1, <1>2 DEF Behind, Before
  <2>5. /\ IsSifted(overprint.skipped, list, Places(list, Reportable))
        /\ IsSifted(Interactions(overprint.supported), list, Places(list, Mitigable))
    BY <2>1, <2>4, <1>2 DEF InteractionsSeen, Places
  <2>6. /\ request'.interactions = list
        /\ IsSifted(overprint'.skipped, list, {i \in DOMAIN list : Reportable(list[i])})
        /\ IsSifted(Interactions(overprint'.supported), list, {i \in DOMAIN list : Mitigable(list[i])})
    BY <2>2, <2>5, <1>1 DEF Places
  <2>7. QED
    BY <2>6 DEF UnsafeAnswered, Places, Reportable, Mitigable, Interactions
<1>5. QED
  BY <1>1, <1>2, <1>3, <1>4 DEF DInv

(* Every step decides on what it has seen, and keeps what was decided.      *)
LEMMA StepKeepsDecisions ==
  ASSUME DInv, [TransformNext]_transformVars
  PROVE  DInv'
<1>1. CASE Submit
  BY <1>1, SubmitDecides
<1>2. CASE ConsiderLink \/ SettleLink
  BY <1>2, ConsiderLinkDecides, SettleLinkDecides
<1>3. CASE ConsiderIntent \/ SettleIntent
  BY <1>3, ConsiderIntentDecides, SettleIntentDecides
<1>4. CASE ConsiderSpot \/ SettleSpot
  BY <1>4, ConsiderSpotDecides, SettleSpotDecides
<1>5. CASE ConsiderInteraction \/ SettleOverprint
  BY <1>5, ConsiderInteractionDecides, SettleOverprintDecides
<1>6. CASE DeriveKey
  <2>1. resolving' = "idle" /\ position' = 1
    BY <1>6 DEF DeriveKey
  <2>2. QED
    BY <2>1 DEF DInv
<1>7. CASE UNCHANGED transformVars
  <2>1. /\ request' = request /\ resolving' = resolving /\ position' = position
        /\ device_link' = device_link /\ output_intent' = output_intent
        /\ spot' = spot /\ overprint' = overprint
    BY <1>7 DEF transformVars
  <2>2. /\ LinksAnswered => LinksAnswered'
        /\ IntentsAnswered => IntentsAnswered'
        /\ SpotsAnswered => SpotsAnswered'
    BY <2>1, AnswersKept
  <2>3. /\ LinksPassed => LinksPassed'
        /\ IntentsSeen => IntentsSeen'
        /\ SpotsSeen => SpotsSeen'
        /\ InteractionsSeen => InteractionsSeen'
        /\ UnsafeAnswered => UnsafeAnswered'
    <3>1. LinksPassed => LinksPassed'
      BY <2>1 DEF LinksPassed, LooksAtLinks, Serves, Before
    <3>2. IntentsSeen => IntentsSeen'
      BY <2>1 DEF IntentsSeen, IntentDecided, Conflicts, SameSubtype, IsTarget
    <3>3. Before' = Before
      BY <2>1 DEF Before
    <3>4. SpotsSeen => SpotsSeen'
      BY <2>1, <3>3 DEF SpotsSeen, Eligible
    <3>5. InteractionsSeen => InteractionsSeen'
      BY <2>1, <3>3 DEF InteractionsSeen
    <3>6. UnsafeAnswered => UnsafeAnswered'
      BY <2>1 DEF UnsafeAnswered, Places
    <3>7. QED
      BY <3>1, <3>2, <3>4, <3>5, <3>6
  <2>4. QED
    BY <2>1, <2>2, <2>3 DEF DInv, NoSpotSeen, NoInteractionSeen, NoConflictSeen
<1>8. QED
  BY <1>1, <1>2, <1>3, <1>4, <1>5, <1>6, <1>7 DEF TransformNext, AllAnswered

(* A plan that is complete answers all that was observed for its request.   *)
THEOREM DecisionsAlwaysFollow == TransformSpec => []DecisionsFollowObservations
<1>1. TransformInit => DInv
  BY DEF TransformInit, DInv
<1>2. DInv /\ [TransformNext]_transformVars => DInv'
  BY StepKeepsDecisions
<1>3. DInv => DecisionsFollowObservations
  BY DEF DInv, DecisionsFollowObservations
<1>4. QED
  BY <1>1, <1>2, <1>3, PTL DEF TransformSpec

=============================================================================
