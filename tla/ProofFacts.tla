------------------------------ MODULE ProofFacts ------------------------------
(***************************************************************************)
(* Facts that several of the proofs use: least and greatest elements of    *)
(* sets of naturals, which is all the induction they need, a sequence      *)
(* without its last element, counting one index more, and sequences joined *)
(* into one.                                                               *)
(***************************************************************************)
EXTENDS Integers, Sequences, SequencesExt, FiniteSetTheorems, SequenceTheorems, WellFoundedInduction, TLAPS

(* A nonempty set of naturals has a least element.                          *)
LEMMA LeastElement ==
  ASSUME NEW S \in SUBSET Nat, S # {}
  PROVE  \E n \in S : \A m \in S : n <= m
<1> DEFINE R == {ss \in Nat \X Nat : ss[1] < ss[2]}
<1>1. R = OpToRel(<, Nat)
  BY DEF OpToRel
<1>2. IsWellFoundedOn(R, Nat)
  BY <1>1, NatLessThanWellFounded, Zenon
<1>3. \A x, y \in Nat : y < x => <<y, x>> \in R
  OBVIOUS
<1> HIDE DEF R
<1>4. \E x \in S : \A y \in S : ~ (<<y, x>> \in R)
  BY <1>2, WFMin
<1>5. PICK x \in S : \A y \in S : ~ (<<y, x>> \in R)
  BY <1>4
<1>6. \A y \in S : ~ (y < x)
  BY <1>5, <1>3, Zenon
<1>7. QED
  BY <1>6

(* A nonempty set of naturals below a bound has a greatest element.         *)
LEMMA GreatestElement ==
  ASSUME NEW S \in SUBSET Nat, S # {}, NEW bound \in Nat,
         \A x \in S : x <= bound
  PROVE  \E n \in S : \A m \in S : m <= n
<1> DEFINE T == {bound - x : x \in S}
<1>1. T \in SUBSET Nat /\ T # {}
  <2>1. T \in SUBSET Nat
    OBVIOUS
  <2>2. PICK x \in S : TRUE
    OBVIOUS
  <2>3. bound - x \in T
    OBVIOUS
  <2>4. QED
    BY <2>1, <2>3, Zenon
<1> HIDE DEF T
<1>2. PICK d \in T : \A e \in T : d <= e
  BY <1>1, LeastElement
<1>3. PICK n \in S : d = bound - n
  BY <1>2 DEF T
<1>4. \A m \in S : bound - n <= bound - m
  BY <1>2, <1>3 DEF T
<1>5. QED
  BY <1>3, <1>4

(* What is left of a sequence when its last element is taken.               *)
LEMMA Popped ==
  ASSUME NEW S, NEW seq \in Seq(S), seq # <<>>
  PROVE  LET back == SubSeq(seq, 1, Len(seq) - 1)
         IN  /\ back \in Seq(S) /\ Len(back) = Len(seq) - 1 /\ Len(seq) \in Nat \ {0}
             /\ \A k \in 1..Len(back) : back[k] = seq[k]
<1>1. Len(seq) \in Nat \ {0}
  BY EmptySeq
<1>2. \A k \in 1..(Len(seq) - 1) : seq[k] \in S
  BY <1>1, ElementOfSeq
<1> DEFINE n == Len(seq) - 1
           back == SubSeq(seq, 1, n)
<1>3. n \in Nat
  BY <1>1
<1>4. \A k \in 1..n : seq[k] \in S
  BY <1>2
<1> HIDE DEF n
<1>5. /\ back \in Seq(S)
      /\ Len(back) = IF 1 <= n THEN n - 1 + 1 ELSE 0
      /\ \A k \in 1..(n - 1 + 1) : back[k] = seq[1 + k - 1]
  BY <1>3, <1>4, SubSeqProperties
<1> HIDE DEF back
<1>6. Len(back) = n
  BY <1>3, <1>5
<1>7. \A k \in 1..n : back[k] = seq[k]
  BY <1>3, <1>5
<1>8. QED
  BY <1>1, <1>5, <1>6, <1>7 DEF n, back

(* One more index is counted, or is not.                                    *)
LEMMA CountOneMore ==
  ASSUME NEW n \in Nat, NEW A \in SUBSET (1..n)
  PROVE  /\ IsFiniteSet(A) /\ Cardinality(A) \in Nat
         /\ Cardinality(A \cup {n + 1}) = Cardinality(A) + 1
<1>1. IsFiniteSet(A)
  <2>1. IsFiniteSet(1..n)
    BY FS_Interval
  <2>2. QED
    BY <2>1, FS_Subset
<1>2. n + 1 \notin A
  OBVIOUS
<1>3. QED
  BY <1>1, <1>2, FS_CardinalityType, FS_AddElement

(* The recursion of FlattenSeq has a solution up to every place.            *)
LEMMA FlattenExists ==
  ASSUME NEW seqs, NEW n \in Nat \ {0}
  PROVE  \E F : F = [i \in 1..n |-> IF i = 1 THEN seqs[i] ELSE F[i - 1] \o seqs[i]]
<1> DEFINE Solved(m) ==
             \E F : F = [i \in 1..m |-> IF i = 1 THEN seqs[i] ELSE F[i - 1] \o seqs[i]]
           Bad == {m \in Nat \ {0} : ~Solved(m)}
<1> SUFFICES ASSUME Bad # {} PROVE FALSE
  OBVIOUS
<1>1. PICK m \in Bad : \A k \in Bad : m <= k
  <2>1. Bad \in SUBSET Nat
    OBVIOUS
  <2> HIDE DEF Bad
  <2>2. QED
    BY <2>1, LeastElement
<1>2. m \in Nat \ {0} /\ ~Solved(m)
  OBVIOUS
<1>3. CASE m = 1
  <2> DEFINE F == [i \in 1..1 |-> seqs[i]]
  <2>1. F = [i \in 1..1 |-> IF i = 1 THEN seqs[i] ELSE F[i - 1] \o seqs[i]]
    OBVIOUS
  <2> HIDE DEF F
  <2>2. Solved(1)
    BY <2>1
  <2>3. QED
    BY <2>2, <1>2, <1>3
<1>4. CASE m # 1
  <2>1. m - 1 \in Nat \ {0} /\ m - 1 < m
    BY <1>2, <1>4
  <2>2. Solved(m - 1)
    <3>1. m - 1 \notin Bad
      <4> HIDE DEF Bad
      <4>1. QED
        BY <2>1, <1>1, <1>2
    <3> HIDE DEF Solved
    <3>2. QED
      BY <3>1, <2>1
  <2>3. PICK F : F = [i \in 1..(m - 1) |-> IF i = 1 THEN seqs[i] ELSE F[i - 1] \o seqs[i]]
    BY <2>2
  <2> DEFINE G == [i \in 1..m |-> IF i = m THEN F[m - 1] \o seqs[m] ELSE F[i]]
  <2>4. \A i \in 1..m : G[i] = IF i = 1 THEN seqs[i] ELSE G[i - 1] \o seqs[i]
    <3> TAKE i \in 1..m
    <3>1. CASE i = m
      <4>1. m \in 1..m /\ m - 1 \in 1..m /\ m - 1 # m
        BY <2>1
      <4>2. G[m] = F[m - 1] \o seqs[m] /\ G[m - 1] = F[m - 1]
        BY <4>1
      <4> HIDE DEF G
      <4>3. QED
        BY <1>4, <3>1, <4>2
    <3>2. CASE i # m
      <4>1. i \in 1..(m - 1)
        BY <3>2, <2>1
      <4>2. F[i] = IF i = 1 THEN seqs[i] ELSE F[i - 1] \o seqs[i]
        BY <2>3, <4>1
      <4>3. i # 1 => i - 1 \in 1..m /\ i - 1 # m
        BY <4>1, <2>1
      <4>4. QED
        BY <4>2, <4>3, <3>2
    <3>3. QED
      BY <3>1, <3>2
  <2>5. G = [i \in 1..m |-> IF i = 1 THEN seqs[i] ELSE G[i - 1] \o seqs[i]]
    <3>1. G = [i \in 1..m |-> G[i]]
      OBVIOUS
    <3> HIDE DEF G
    <3>2. QED
      BY <3>1, <2>4, Zenon
  <2> HIDE DEF G
  <2>6. QED
    BY <2>5, <1>2
<1>5. QED
  BY <1>3, <1>4

(* One sequence after the other.                                            *)
LEMMA FlattenSteps ==
  ASSUME NEW seqs, Len(seqs) \in Nat \ {0}
  PROVE  \E F : /\ FlattenSeq(seqs) = F[Len(seqs)]
                /\ \A i \in 1..Len(seqs) :
                     F[i] = IF i = 1 THEN seqs[i] ELSE F[i - 1] \o seqs[i]
<1> DEFINE n == Len(seqs)
           Solves(F) == F = [i \in 1..n |-> IF i = 1 THEN seqs[i] ELSE F[i - 1] \o seqs[i]]
           C == CHOOSE F : Solves(F)
<1>1. FlattenSeq(seqs) = C[n]
  BY Zenon DEF FlattenSeq
<1>2. \E F : Solves(F)
  BY FlattenExists
<1>3. Solves(C)
  <2> HIDE DEF Solves
  <2>1. QED
    BY <1>2, Zenon
<1>4. \A i \in 1..n : C[i] = IF i = 1 THEN seqs[i] ELSE C[i - 1] \o seqs[i]
  <2> HIDE DEF C
  <2>1. QED
    BY <1>3
<1>5. QED
  <2> HIDE DEF C
  <2>1. QED
    BY <1>1, <1>4, Zenon

LEMMA EmptyJoin ==
  ASSUME NEW S, NEW one \in Seq(S), NEW two \in Seq(S)
  PROVE  one \o two \in Seq(S) /\ (one \o two = <<>> <=> one = <<>> /\ two = <<>>)
<1> DEFINE both == one \o two
<1>1. both \in Seq(S) /\ Len(both) = Len(one) + Len(two) /\ Len(one) \in Nat /\ Len(two) \in Nat
  BY LenProperties, ConcatProperties
<1> HIDE DEF both
<1>2. both = <<>> <=> Len(both) = 0
  BY <1>1, EmptySeq
<1>3. (one = <<>> <=> Len(one) = 0) /\ (two = <<>> <=> Len(two) = 0)
  BY EmptySeq
<1>4. both \in Seq(S) /\ (both = <<>> <=> one = <<>> /\ two = <<>>)
  BY <1>1, <1>2, <1>3
<1>5. QED
  BY <1>4 DEF both

(* What the joined sequences hold, and when they hold nothing.              *)
LEMMA FlattenHolds ==
  ASSUME NEW S, NEW n \in Nat, NEW seqs, Len(seqs) = n, seqs \in [1..n -> Seq(S)]
  PROVE  n # 0 =>
           /\ FlattenSeq(seqs) \in Seq(S)
           /\ FlattenSeq(seqs) = <<>> <=> \A i \in 1..n : seqs[i] = <<>>
<1> SUFFICES ASSUME n # 0
             PROVE  /\ FlattenSeq(seqs) \in Seq(S)
                    /\ FlattenSeq(seqs) = <<>> <=> \A i \in 1..n : seqs[i] = <<>>
  OBVIOUS
<1>1. n \in Nat \ {0}
  OBVIOUS
<1>2. PICK F : /\ FlattenSeq(seqs) = F[n]
               /\ \A i \in 1..n : F[i] = IF i = 1 THEN seqs[i] ELSE F[i - 1] \o seqs[i]
  BY <1>1, FlattenSteps
<1> DEFINE Good(m) == F[m] \in Seq(S) /\ (F[m] = <<>> <=> \A i \in 1..m : seqs[i] = <<>>)
           Bad == {m \in 1..n : ~Good(m)}
<1>3. ASSUME Bad # {}
      PROVE  FALSE
  <2>1. PICK m \in Bad : \A k \in Bad : m <= k
    <3>1. Bad \in SUBSET Nat
      OBVIOUS
    <3> HIDE DEF Bad
    <3>2. QED
      BY <1>3, <3>1, LeastElement
  <2>2. m \in 1..n /\ ~Good(m)
    OBVIOUS
  <2>3. seqs[m] \in Seq(S)
    BY <2>2
  <2>4. CASE m = 1
    <3>1. F[1] = seqs[1]
      BY <1>2, <2>2, <2>4
    <3>2. \A i \in 1..1 : i = 1
      OBVIOUS
    <3>3. QED
      BY <2>2, <2>3, <2>4, <3>1, <3>2
  <2>5. CASE m # 1
    <3>1. m - 1 \in 1..n /\ ~(m <= m - 1)
      BY <2>2, <2>5
    <3>2. Good(m - 1)
      <4>1. m - 1 \notin Bad
        <5> HIDE DEF Bad
        <5>1. QED
          BY <2>1, <3>1
      <4> HIDE DEF Good
      <4>2. QED
        BY <3>1, <4>1
    <3>3. F[m] = F[m - 1] \o seqs[m]
      BY <1>2, <2>2, <2>5
    <3>4. F[m] \in Seq(S) /\ (F[m] = <<>> <=> F[m - 1] = <<>> /\ seqs[m] = <<>>)
      BY <2>3, <3>2, <3>3, EmptyJoin
    <3>5. \A i \in 1..m : i \in 1..(m - 1) \/ i = m
      BY <2>2
    <3>6. \A i \in 1..(m - 1) : i \in 1..m
      BY <2>2
    <3>7. m \in 1..m
      BY <2>2
    <3>8. Good(m)
      BY <3>2, <3>4, <3>5, <3>6, <3>7
    <3>9. QED
      BY <2>2, <3>8
  <2>6. QED
    BY <2>4, <2>5
<1>4. n \in 1..n
  BY <1>1
<1>5. Good(n)
  BY <1>3, <1>4
<1>6. QED
  BY <1>2, <1>5

(* Nothing to join is nothing.                                              *)
LEMMA FlattenAny ==
  ASSUME NEW S, NEW n \in Nat, NEW seqs, Len(seqs) = n, seqs \in [1..n -> Seq(S)]
  PROVE  /\ FlattenSeq(seqs) \in Seq(S)
         /\ FlattenSeq(seqs) = <<>> <=> \A i \in 1..n : seqs[i] = <<>>
<1>1. CASE n = 0
  <2>1. FlattenSeq(seqs) = seqs
    BY <1>1, Zenon DEF FlattenSeq
  <2>2. seqs \in [1..0 -> S]
    BY <1>1
  <2>3. seqs \in Seq(S)
    BY <2>2
  <2>4. seqs = <<>>
    BY <1>1, <2>3, EmptySeq
  <2>5. 1..0 = {}
    OBVIOUS
  <2>6. QED
    BY <1>1, <2>1, <2>3, <2>4, <2>5
<1>2. QED
  BY <1>1, FlattenHolds

(* Sequences of elements of S, and the same ones with one more behind.       *)
Lengthened(S, n, seqs, last, more) ==
  /\ n \in Nat /\ last \in Nat /\ last = n + 1
  /\ Len(seqs) = n /\ seqs \in [1..n -> Seq(S)]
  /\ Len(more) = last /\ more \in [1..last -> Seq(S)]
  /\ \A i \in 1..n : more[i] = seqs[i]

LEMMA FlattenGrows ==
  ASSUME NEW S, NEW n, NEW seqs, NEW last, NEW more, Lengthened(S, n, seqs, last, more)
  PROVE  FlattenSeq(more) = FlattenSeq(seqs) \o more[last]
<1>0. /\ n \in Nat /\ last \in Nat /\ last = n + 1
      /\ Len(seqs) = n /\ seqs \in [1..n -> Seq(S)]
      /\ Len(more) = last /\ more \in [1..last -> Seq(S)]
      /\ \A i \in 1..n : more[i] = seqs[i]
  BY DEF Lengthened
<1>1. Len(more) \in Nat \ {0} /\ last \in 1..Len(more) /\ 1 \in 1..Len(more)
  BY <1>0
<1>2. PICK G : /\ FlattenSeq(more) = G[Len(more)]
               /\ \A i \in 1..Len(more) : G[i] = IF i = 1 THEN more[i] ELSE G[i - 1] \o more[i]
  BY <1>1, FlattenSteps
<1>3. CASE n = 0
  <2>1. FlattenSeq(seqs) = seqs
    BY <1>0, <1>3, Zenon DEF FlattenSeq
  <2>2. seqs \in [1..0 -> S]
    BY <1>0, <1>3
  <2>3. seqs \in Seq(S)
    BY <2>2
  <2>4. seqs = <<>>
    BY <1>0, <1>3, <2>3, EmptySeq
  <2>5. PICK one \in Seq(S) : one = more[last]
    BY <1>0, <1>1
  <2>6. <<>> \o one = one
    BY <2>5, ConcatEmptySeq
  <2>7. FlattenSeq(more) = G[1] /\ G[1] = more[1] /\ more[last] = more[1]
    BY <1>0, <1>1, <1>2, <1>3
  <2>8. FlattenSeq(more) = one /\ FlattenSeq(seqs) = <<>>
    BY <2>1, <2>4, <2>5, <2>7
  <2>9. QED
    BY <2>5, <2>6, <2>8, Zenon
<1>4. CASE n # 0
  <2>1. Len(seqs) \in Nat \ {0}
    BY <1>0, <1>4
  <2>a. PICK F : /\ FlattenSeq(seqs) = F[Len(seqs)]
                 /\ \A i \in 1..Len(seqs) :
                      F[i] = IF i = 1 THEN seqs[i] ELSE F[i - 1] \o seqs[i]
    BY <2>1, FlattenSteps
  <2>2. /\ FlattenSeq(seqs) = F[n]
        /\ \A i \in 1..n : F[i] = IF i = 1 THEN seqs[i] ELSE F[i - 1] \o seqs[i]
    BY <1>0, <2>a, Zenon
  <2> DEFINE Bad == {i \in 1..n : G[i] # F[i]}
  <2>3. ASSUME Bad # {}
        PROVE  FALSE
    <3>1. PICK m \in Bad : \A k \in Bad : m <= k
      <4>1. Bad \in SUBSET Nat
        BY <1>0
      <4> HIDE DEF Bad
      <4>2. QED
        BY <2>3, <4>1, LeastElement
    <3>2. m \in 1..n /\ G[m] # F[m]
      OBVIOUS
    <3>3. m \in 1..Len(more)
      BY <1>0, <3>2
    <3>4. CASE m = 1
      BY <1>0, <1>2, <2>2, <3>2, <3>3, <3>4
    <3>5. CASE m # 1
      <4>1. m - 1 \in 1..n /\ ~(m <= m - 1)
        BY <1>0, <3>2, <3>5
      <4>2. G[m - 1] = F[m - 1]
        <5>1. m - 1 \notin Bad
          <6> HIDE DEF Bad
          <6>1. QED
            BY <3>1, <4>1
        <5>2. QED
          BY <4>1, <5>1
      <4>3. G[m] = G[m - 1] \o more[m] /\ F[m] = F[m - 1] \o seqs[m] /\ more[m] = seqs[m]
        BY <1>0, <1>2, <2>2, <3>2, <3>3, <3>5
      <4>4. QED
        BY <3>2, <4>2, <4>3
    <3>6. QED
      BY <3>4, <3>5
  <2>4. G[n] = F[n]
    <3>1. n \in 1..n
      BY <1>0, <1>4
    <3>2. QED
      BY <2>3, <3>1
  <2>5. last # 1 /\ last - 1 = n /\ last = Len(more)
    BY <1>0, <1>1, <1>4
  <2> HIDE DEF Bad
  <2>6. FlattenSeq(more) = G[n] \o more[last]
    <3>1. G[last] = IF last = 1 THEN more[last] ELSE G[last - 1] \o more[last]
      BY <1>1, <1>2, Zenon
    <3>2. G[last] = G[n] \o more[last]
      BY <2>5, <3>1, Zenon
    <3>3. QED
      BY <1>2, <2>5, <3>2, Zenon
  <2>7. QED
    BY <2>2, <2>4, <2>6
<1>5. QED
  BY <1>3, <1>4

=============================================================================
