------------------------ MODULE StreamDocument_proof ------------------------
(***************************************************************************)
(* What a document with cross-reference streams answers from, and that the *)
(* answers are right, for every file, every chain of sections and every    *)
(* limit.  First one section: its object numbers and its records are the   *)
(* naturals they should be, and of several records for a number the last   *)
(* is decoded.  Then paths of sections.                                    *)
(***************************************************************************)
EXTENDS StreamDocument, ProofFacts

(***************************************************************************)
(* One section.                                                            *)
(***************************************************************************)

(* The recursion of BigEndian has a solution for every length.              *)
LEMMA BigEndianExists ==
  ASSUME NEW bytes, NEW n \in Nat
  PROVE  \E v : v = [i \in 0..n |-> IF i = 0 THEN 0 ELSE v[i - 1] * 256 + bytes[i]]
<1> DEFINE Solved(m) ==
             \E v : v = [i \in 0..m |-> IF i = 0 THEN 0 ELSE v[i - 1] * 256 + bytes[i]]
           Bad == {m \in Nat : ~Solved(m)}
<1>0. Bad = {} => Solved(n)
  <2> HIDE DEF Solved
  <2>1. QED
    OBVIOUS
<1> SUFFICES ASSUME Bad # {} PROVE FALSE
  BY <1>0
<1>1. PICK m \in Bad : \A k \in Bad : m <= k
  <2>1. Bad \in SUBSET Nat
    OBVIOUS
  <2> HIDE DEF Bad
  <2>2. QED
    BY <2>1, LeastElement
<1>2. m \in Nat /\ ~Solved(m)
  OBVIOUS
<1>3. CASE m = 0
  <2> DEFINE F == [i \in 0..0 |-> 0]
  <2>1. F = [i \in 0..0 |-> IF i = 0 THEN 0 ELSE F[i - 1] * 256 + bytes[i]]
    <3>1. \A i \in 0..0 : i = 0
      OBVIOUS
    <3>2. \A i \in 0..0 : 0 = IF i = 0 THEN 0 ELSE F[i - 1] * 256 + bytes[i]
      BY <3>1, Zenon
    <3> DEFINE Right(G, i) == IF i = 0 THEN 0 ELSE G[i - 1] * 256 + bytes[i]
    <3>3. \A i \in 0..0 : 0 = Right(F, i)
      BY <3>2
    <3> HIDE DEF Right
    <3>4. F = [i \in 0..0 |-> Right(F, i)]
      BY <3>3, Zenon
    <3>5. QED
      BY <3>4 DEF Right
  <2> HIDE DEF F
  <2>2. Solved(0)
    BY <2>1
  <2>3. QED
    BY <2>2, <1>2, <1>3
<1>4. CASE m # 0
  <2>1. m - 1 \in Nat /\ m - 1 < m
    BY <1>2, <1>4
  <2>2. Solved(m - 1)
    <3>1. m - 1 \notin Bad
      <4> HIDE DEF Bad
      <4>1. QED
        BY <2>1, <1>1, <1>2
    <3> HIDE DEF Solved
    <3>2. QED
      BY <3>1, <2>1
  <2>3. PICK F : F = [i \in 0..(m - 1) |-> IF i = 0 THEN 0 ELSE F[i - 1] * 256 + bytes[i]]
    BY <2>2
  <2> DEFINE G == [i \in 0..m |-> IF i = m THEN F[m - 1] * 256 + bytes[m] ELSE F[i]]
  <2>4. \A i \in 0..m : G[i] = IF i = 0 THEN 0 ELSE G[i - 1] * 256 + bytes[i]
    <3> TAKE i \in 0..m
    <3>1. CASE i = m
      <4>1. m \in 0..m /\ m - 1 \in 0..m /\ m - 1 # m
        BY <2>1
      <4>2. G[m] = F[m - 1] * 256 + bytes[m] /\ G[m - 1] = F[m - 1]
        BY <4>1
      <4> HIDE DEF G
      <4>3. QED
        BY <1>4, <3>1, <4>2
    <3>2. CASE i # m
      <4>1. i \in 0..(m - 1)
        BY <3>2, <2>1
      <4>2. F[i] = IF i = 0 THEN 0 ELSE F[i - 1] * 256 + bytes[i]
        BY <2>3, <4>1
      <4>3. i # 0 => i - 1 \in 0..m /\ i - 1 # m
        BY <4>1, <2>1
      <4>4. QED
        BY <4>2, <4>3, <3>2
    <3>3. QED
      BY <3>1, <3>2
  <2>5. G = [i \in 0..m |-> IF i = 0 THEN 0 ELSE G[i - 1] * 256 + bytes[i]]
    <3>1. G = [i \in 0..m |-> G[i]]
      OBVIOUS
    <3> HIDE DEF G
    <3>2. QED
      BY <3>1, <2>4, Zenon
  <2> HIDE DEF G
  <2>6. QED
    BY <2>5, <1>2
<1>5. QED
  BY <1>3, <1>4

(* A field is a natural.                                                    *)
LEMMA BigEndianIsNat ==
  ASSUME NEW bytes \in Seq(Nat)
  PROVE  BigEndian(bytes) \in Nat
<1> DEFINE n == Len(bytes)
           Solves(v) == v = [i \in 0..n |-> IF i = 0 THEN 0 ELSE v[i - 1] * 256 + bytes[i]]
           V == CHOOSE v : Solves(v)
<1>1. n \in Nat /\ \A i \in 1..n : bytes[i] \in Nat
  BY LenProperties, ElementOfSeq
<1>2. BigEndian(bytes) = V[n]
  BY Zenon DEF BigEndian
<1>3. Solves(V)
  <2>1. \E v : Solves(v)
    BY <1>1, BigEndianExists
  <2> HIDE DEF Solves
  <2>2. QED
    BY <2>1, Zenon
<1>4. \A i \in 0..n : V[i] = IF i = 0 THEN 0 ELSE V[i - 1] * 256 + bytes[i]
  <2> HIDE DEF V
  <2>1. QED
    BY <1>3
<1> HIDE DEF V, n
<1> DEFINE Bad == {i \in 0..n : V[i] \notin Nat}
<1>5. ASSUME Bad # {}
      PROVE  FALSE
  <2>1. PICK m \in Bad : \A k \in Bad : m <= k
    <3>1. Bad \in SUBSET Nat
      BY <1>1
    <3> HIDE DEF Bad
    <3>2. QED
      BY <1>5, <3>1, LeastElement
  <2>2. m \in 0..n /\ V[m] \notin Nat
    OBVIOUS
  <2>3. m # 0
    BY <1>4, <2>2
  <2>4. m - 1 \in 0..n /\ ~(m <= m - 1) /\ m \in 1..n
    BY <1>1, <2>2, <2>3
  <2>5. V[m - 1] \in Nat
    <3>1. m - 1 \notin Bad
      <4> HIDE DEF Bad
      <4>1. QED
        BY <2>1, <2>4
    <3>2. QED
      BY <3>1, <2>4
  <2>6. V[m] = V[m - 1] * 256 + bytes[m]
    BY <1>4, <2>2, <2>3
  <2>7. QED
    BY <1>1, <2>2, <2>4, <2>5, <2>6
<1>6. QED
  BY <1>1, <1>2, <1>5

(* What a section that decodes states is of the right kind.                 *)
LEMMA SectionStates ==
  ASSUME NEW x \in Chunk, SectionDecodes(x)
  PROVE  /\ x.widths \in Seq(Nat) /\ Len(x.widths) = 3
         /\ x.size \in Nat /\ x.root \in IndirectRef /\ x.prev \in Nat \cup {Absent}
         /\ x.body \in Seq(Byte)
         /\ x.index # Absent => x.index \in Seq(Nat)
<1>1. x.kind = "xref"
  BY DEF SectionDecodes
<1>2. /\ x.widths \in Seq(Nat) \cup {Unreadable} /\ x.size \in Nat \cup {Unreadable}
      /\ x.index \in Seq(Nat) \cup {Absent, Unreadable}
      /\ x.root \in IndirectRef \cup {Unreadable} /\ x.prev \in Nat \cup {Absent, Unreadable}
      /\ x.body \in Seq(Byte) \cup {Unreadable}
  BY <1>1 DEF Chunk
<1>3. /\ x.widths # Unreadable /\ Len(x.widths) = 3 /\ x.size # Unreadable
      /\ x.index # Unreadable /\ x.root # Unreadable /\ x.prev # Unreadable
      /\ x.body # Unreadable
  BY DEF SectionDecodes, Geometry, Navigable, BodyDecodes
<1>4. QED
  BY <1>2, <1>3, Zenon

LEMMA Half == \A m \in Nat : m \div 2 \in Nat /\ 2 * (m \div 2) <= m
OBVIOUS

(* The runs of object numbers that /Index announces.                        *)
LEMMA RunsOfNumbers ==
  ASSUME NEW x \in Chunk, SectionDecodes(x)
  PROVE  \E n \in Nat : /\ DOMAIN Subsections(x) = 1..n
                        /\ \A i \in 1..n : /\ Subsections(x)[i][1] \in Nat
                                           /\ Subsections(x)[i][2] \in Nat
<1>1. CASE x.index = Absent
  <2>1. Subsections(x) = << <<0, x.size>> >>
    BY <1>1 DEF Subsections
  <2>2. x.size \in Nat
    BY SectionStates
  <2>3. PICK one \in Nat : one = 1
    OBVIOUS
  <2>4. DOMAIN Subsections(x) = 1..1
    BY <2>1
  <2>5. \A i \in 1..1 : Subsections(x)[i][1] \in Nat /\ Subsections(x)[i][2] \in Nat
    BY <2>1, <2>2
  <2>6. DOMAIN Subsections(x) = 1..one
        /\ \A i \in 1..one : Subsections(x)[i][1] \in Nat /\ Subsections(x)[i][2] \in Nat
    BY <2>3, <2>4, <2>5, Zenon
  <2>7. QED
    BY <2>6
<1>2. CASE x.index # Absent
  <2>1. x.index \in Seq(Nat)
    BY <1>2, SectionStates
  <2>2. Len(x.index) \in Nat /\ \A i \in 1..Len(x.index) : x.index[i] \in Nat
    BY <2>1, LenProperties, ElementOfSeq
  <2> DEFINE n == Len(x.index) \div 2
  <2>3. n \in Nat /\ 2 * n <= Len(x.index)
    BY <2>2, Half
  <2>4. Subsections(x) = [i \in 1..n |-> <<x.index[2 * i - 1], x.index[2 * i]>>]
    BY <1>2 DEF Subsections
  <2> HIDE DEF n
  <2>5. \A i \in 1..n : 2 * i - 1 \in 1..Len(x.index) /\ 2 * i \in 1..Len(x.index)
    BY <2>2, <2>3
  <2>6. DOMAIN Subsections(x) = 1..n
    BY <2>4
  <2>7. ASSUME NEW i \in 1..n
        PROVE  Subsections(x)[i][1] \in Nat /\ Subsections(x)[i][2] \in Nat
    <3>1. Subsections(x)[i] = <<x.index[2 * i - 1], x.index[2 * i]>>
      BY <2>4
    <3>2. x.index[2 * i - 1] \in Nat /\ x.index[2 * i] \in Nat
      BY <2>2, <2>5
    <3>3. QED
      BY <3>1, <3>2
  <2>8. QED
    BY <2>3, <2>6, <2>7
<1>3. QED
  BY <1>1, <1>2

(* The object numbers are naturals a usize holds.                           *)
LEMMA NumbersTyped ==
  ASSUME NEW x \in Chunk, SectionDecodes(x)
  PROVE  /\ ObjectNumbers(x) \in Seq(Nat) /\ Len(ObjectNumbers(x)) \in Nat
         /\ DOMAIN ObjectNumbers(x) = 1..Len(ObjectNumbers(x))
         /\ \A k \in 1..Len(ObjectNumbers(x)) : ObjectNumbers(x)[k] \in 0..MaxUsize
<1> DEFINE runs == Subsections(x)
           seqs == [i \in DOMAIN runs |-> [j \in 1..runs[i][2] |-> runs[i][1] + j - 1]]
           numbers == ObjectNumbers(x)
<1>1. PICK n \in Nat : DOMAIN runs = 1..n /\ \A i \in 1..n : runs[i][1] \in Nat /\ runs[i][2] \in Nat
  BY RunsOfNumbers
<1>2. numbers = FlattenSeq(seqs)
  BY DEF ObjectNumbers
<1> HIDE DEF runs
<1>3. ASSUME NEW i \in 1..n
      PROVE  [j \in 1..runs[i][2] |-> runs[i][1] + j - 1] \in Seq(Nat)
  <2>1. \A j \in 1..runs[i][2] : runs[i][1] + j - 1 \in Nat
    BY <1>1
  <2>2. [j \in 1..runs[i][2] |-> runs[i][1] + j - 1] \in [1..runs[i][2] -> Nat]
    BY <2>1
  <2>3. QED
    BY <1>1, <2>2
<1>4. seqs \in [1..n -> Seq(Nat)]
  BY <1>1, <1>3
<1> HIDE DEF seqs, numbers
<1>5. seqs \in Seq(Seq(Nat))
  BY <1>4
<1>6. Len(seqs) = n
  BY <1>4, <1>5, LenProperties
<1>7. numbers \in Seq(Nat)
  BY <1>2, <1>4, <1>6, FlattenAny
<1>8. Len(numbers) \in Nat /\ DOMAIN numbers = 1..Len(numbers)
      /\ \A k \in 1..Len(numbers) : numbers[k] \in Nat
  BY <1>7, LenProperties, ElementOfSeq
<1>9. \A k \in DOMAIN numbers : numbers[k] <= MaxUsize
  BY DEF numbers, SectionDecodes, WellSized
<1>10. MaxUsize \in Nat
  BY WidthsAreNat
<1>11. \A k \in 1..Len(numbers) : numbers[k] \in 0..MaxUsize
  BY <1>8, <1>9, <1>10
<1>12. QED
  BY <1>7, <1>8, <1>11 DEF numbers

(* A field that lies within the body is a natural.                          *)
LEMMA FieldIsNat ==
  ASSUME NEW x, x.body \in Seq(Byte), NEW before \in Nat, NEW width \in Nat,
         before + width <= Len(x.body), NEW default \in Nat
  PROVE  Field(x, before, width, default) \in Nat
<1> DEFINE bytes == SubSeq(x.body, before + 1, before + width)
<1>1. \A k \in (before + 1)..(before + width) : k \in 1..Len(x.body)
  BY LenProperties
<1>2. \A k \in (before + 1)..(before + width) : x.body[k] \in Byte
  BY <1>1, ElementOfSeq
<1>3. \A k \in (before + 1)..(before + width) : x.body[k] \in Nat
  <2>1. \A b \in Byte : b \in Nat
    BY DEF Byte
  <2>2. QED
    BY <1>2, <2>1, Zenon
<1>4. before + 1 \in Int /\ before + width \in Int
  OBVIOUS
<1>5. bytes \in Seq(Nat)
  BY <1>3, <1>4, SubSeqProperties
<1> HIDE DEF bytes
<1>6. BigEndian(bytes) \in Nat
  BY <1>5, BigEndianIsNat
<1>7. QED
  BY <1>6 DEF Field, bytes

(* The records that /Index announces lie within the body.                   *)
LEMMA RecordsTyped ==
  ASSUME NEW x \in Chunk, SectionDecodes(x), NEW k \in 1..Len(ObjectNumbers(x))
  PROVE  Record(x, k) \in EntryRecord
<1> DEFINE n == Len(ObjectNumbers(x))
           w == RecordWidth(x)
           at == (k - 1) * w
<1>1. x.widths[1] \in Nat /\ x.widths[2] \in Nat /\ x.widths[3] \in Nat
  <2>1. x.widths \in Seq(Nat) /\ Len(x.widths) = 3
    BY SectionStates
  <2>2. 1 \in 1..Len(x.widths) /\ 2 \in 1..Len(x.widths) /\ 3 \in 1..Len(x.widths)
    BY <2>1
  <2>3. QED
    BY <2>1, <2>2, ElementOfSeq, Zenon
<1>a. PICK a \in Nat, b \in Nat, c \in Nat :
        a = x.widths[1] /\ b = x.widths[2] /\ c = x.widths[3]
  BY <1>1
<1>b. w = x.widths[1] + x.widths[2] + x.widths[3]
  BY Zenon DEF RecordWidth
<1> HIDE DEF w
<1>2. w \in Nat /\ w = a + b + c
  <2>1. w = a + b + c
    BY <1>a, <1>b, Zenon
  <2>2. QED
    BY <2>1
<1>3. n \in Nat /\ k \in Nat /\ 1 <= k /\ k <= n
  BY NumbersTyped
<1>4. Len(x.body) = n * w
  BY DEF SectionDecodes, WellSized, w
<1>5. x.body \in Seq(Byte)
  BY SectionStates
<1> HIDE DEF n
<1>6. at \in Nat /\ at + w <= n * w
  <2>1. k - 1 \in Nat /\ n - k \in Nat
    BY <1>3
  <2>2. (k - 1) * w \in Nat /\ (n - k) * w \in Nat
    BY <1>2, <2>1
  <2>3. n * w = (k - 1) * w + w + (n - k) * w
    BY <1>2, <1>3
  <2>4. QED
    BY <1>2, <2>2, <2>3
<1>7. at + w <= Len(x.body)
  BY <1>4, <1>6
<1> HIDE DEF at
<1>8. Len(x.body) \in Nat
  BY <1>5, LenProperties
<1>9. /\ at + a \in Nat /\ at + a <= Len(x.body)
      /\ at + a + b \in Nat /\ at + a + b <= Len(x.body) /\ at + a + b + c <= Len(x.body)
  BY <1>2, <1>6, <1>7, <1>8
<1>10. 0 \in Nat /\ 1 \in Nat
  OBVIOUS
<1>11. /\ Field(x, at, a, 1) \in Nat /\ Field(x, at + a, b, 0) \in Nat
       /\ Field(x, at + a + b, c, 0) \in Nat
  BY <1>5, <1>6, <1>9, <1>10, FieldIsNat
<1>12. /\ Field(x, at, x.widths[1], 1) \in Nat
       /\ Field(x, at + x.widths[1], x.widths[2], 0) \in Nat
       /\ Field(x, at + x.widths[1] + x.widths[2], x.widths[3], 0) \in Nat
  BY <1>11, <1>a, Zenon
<1>13. QED
  BY <1>12 DEF Record, EntryRecord, at, w

(* Of several records for a number the last is decoded.                     *)
LEMMA LastIsDecoded ==
  ASSUME NEW x \in Chunk, SectionDecodes(x)
  PROVE  /\ DOMAIN DecodedEntries(x) = Range(ObjectNumbers(x))
         /\ \A n \in Range(ObjectNumbers(x)) : \E k \in 1..Len(ObjectNumbers(x)) :
              /\ ObjectNumbers(x)[k] = n /\ DecodedEntries(x)[n] = Record(x, k)
              /\ \A h \in (k + 1)..Len(ObjectNumbers(x)) : ObjectNumbers(x)[h] # n
<1> DEFINE numbers == ObjectNumbers(x)
           FinalAt(n, k) == numbers[k] = n /\ \A j \in (k + 1)..Len(numbers) : numbers[j] # n
           it(n) == CHOOSE k \in DOMAIN numbers : FinalAt(n, k)
<1>1. DecodedEntries(x) = [n \in Range(numbers) |-> Record(x, it(n))]
  BY Zenon DEF DecodedEntries
<1>2. Len(numbers) \in Nat /\ DOMAIN numbers = 1..Len(numbers)
  BY NumbersTyped
<1> HIDE DEF numbers
<1>3. ASSUME NEW n \in Range(numbers)
      PROVE  \E k \in DOMAIN numbers : FinalAt(n, k)
  <2> DEFINE At == {k \in 1..Len(numbers) : numbers[k] = n}
  <2>1. At \in SUBSET Nat /\ \A k \in At : k <= Len(numbers)
    BY <1>2
  <2>2. At # {}
    BY <1>2, <1>3 DEF Range
  <2>3. PICK k \in At : \A h \in At : h <= k
    <3> HIDE DEF At
    <3>1. QED
      BY <1>2, <2>1, <2>2, GreatestElement
  <2>4. k \in 1..Len(numbers) /\ numbers[k] = n
    OBVIOUS
  <2>5. \A h \in (k + 1)..Len(numbers) : h \in 1..Len(numbers) /\ ~(h <= k)
    BY <1>2, <2>4
  <2>6. \A h \in (k + 1)..Len(numbers) : numbers[h] # n
    <3>1. ASSUME NEW h \in (k + 1)..Len(numbers), numbers[h] = n
          PROVE  FALSE
      <4>1. h \in At
        BY <2>5, <3>1
      <4> HIDE DEF At
      <4>2. QED
        BY <2>3, <2>5, <4>1
    <3>2. QED
      BY <3>1
  <2>7. QED
    BY <1>2, <2>4, <2>6
<1>4. ASSUME NEW n \in Range(numbers)
      PROVE  it(n) \in DOMAIN numbers /\ FinalAt(n, it(n))
  <2> HIDE DEF FinalAt
  <2>1. QED
    BY <1>3, Zenon
<1> HIDE DEF it
<1>5. DOMAIN DecodedEntries(x) = Range(numbers)
      /\ \A n \in Range(numbers) : DecodedEntries(x)[n] = Record(x, it(n))
  BY <1>1
<1>6. \A n \in Range(numbers) : \E k \in 1..Len(numbers) :
        /\ numbers[k] = n /\ DecodedEntries(x)[n] = Record(x, k)
        /\ \A h \in (k + 1)..Len(numbers) : numbers[h] # n
  BY <1>2, <1>4, <1>5, Zenon
<1>7. QED
  BY <1>5, <1>6 DEF numbers

(***************************************************************************)
(* Paths of sections.                                                      *)
(***************************************************************************)

(* A section that decodes is a chunk of the file.                           *)
LEMMA DecodesIs ==
  ASSUME file \in Seq(Chunk), NEW o, Decodes(o)
  PROVE  o \in Nat /\ o \in DOMAIN file /\ file[o] \in Chunk /\ SectionDecodes(file[o])
<1>1. o \in DOMAIN file /\ SectionDecodes(file[o])
  BY DEF Decodes
<1>2. DOMAIN file = 1..Len(file)
  BY LenProperties
<1>3. o \in 1..Len(file)
  BY <1>1, <1>2
<1>4. file[o] \in Chunk
  BY <1>3, ElementOfSeq
<1>5. o \in Nat
  BY <1>3, LenProperties
<1>6. QED
  BY <1>1, <1>4, <1>5

(* A whole path is a sequence no longer than the section limit.             *)
LEMMA WholePathIs ==
  ASSUME NEW whole \in WholePaths
  PROVE  /\ Len(whole) \in 1..MaxSections
         /\ IsPath(whole) /\ EndsThere(whole)
<1>1. whole \in UNION {[1..n -> DOMAIN file] : n \in 1..MaxSections}
      /\ IsPath(whole) /\ EndsThere(whole)
  BY Zenon DEF WholePaths
<1>2. PICK n \in 1..MaxSections : whole \in [1..n -> DOMAIN file]
  BY <1>1
<1>3. n \in Nat
  BY ChainLimitsAreNat
<1>4. whole \in Seq(DOMAIN file)
  BY <1>2, <1>3
<1>5. Len(whole) = n
  BY <1>2, <1>3, <1>4, LenProperties
<1>6. QED
  BY <1>1, <1>2, <1>5

(* A path that was followed is the beginning of every whole path.           *)
LEMMA FollowedIsBeginning ==
  ASSUME file \in Seq(Chunk), NEW whole \in WholePaths, NEW path, Len(path) \in Nat, IsPath(path)
  PROVE  \A i \in 1..Len(path) : i <= Len(whole) /\ whole[i] = path[i]
<1> DEFINE Bad == {i \in 1..Len(path) : ~(i <= Len(whole) /\ whole[i] = path[i])}
<1> SUFFICES ASSUME Bad # {} PROVE FALSE
  OBVIOUS
<1>1. PICK i \in Bad : \A k \in Bad : i <= k
  <2>1. Bad \in SUBSET Nat
    OBVIOUS
  <2> HIDE DEF Bad
  <2>2. QED
    BY <2>1, LeastElement
<1>2. i \in 1..Len(path) /\ ~(i <= Len(whole) /\ whole[i] = path[i])
  OBVIOUS
<1>3. Len(whole) \in Nat /\ Len(whole) >= 1 /\ IsPath(whole) /\ EndsThere(whole)
  <2>1. Len(whole) \in 1..MaxSections /\ IsPath(whole) /\ EndsThere(whole)
    BY WholePathIs
  <2>2. QED
    BY <2>1, ChainLimitsAreNat
<1>4. /\ whole[1] = path[1]
      /\ \A j \in 2..Len(whole) : whole[j] = file[whole[j - 1]].prev
      /\ \A j \in 2..Len(path) : path[j] = file[path[j - 1]].prev
      /\ \A j \in 1..Len(path) : Decodes(path[j])
      /\ file[whole[Len(whole)]].prev = Absent
  BY <1>3 DEF IsPath, EndsThere
<1>5. i # 1
  BY <1>2, <1>3, <1>4
<1>6. i - 1 \in 1..Len(path) /\ ~(i <= i - 1) /\ i \in 2..Len(path)
  BY <1>2, <1>5
<1>7. i - 1 <= Len(whole) /\ whole[i - 1] = path[i - 1]
  <2>1. i - 1 \notin Bad
    <3> HIDE DEF Bad
    <3>1. QED
      BY <1>1, <1>6
  <2>2. QED
    BY <2>1, <1>6
<1>8. path[i] = file[whole[i - 1]].prev
  BY <1>4, <1>6, <1>7
<1>9. path[i] \in Nat
  BY <1>2, <1>4, DecodesIs
<1>10. i - 1 # Len(whole)
  BY <1>4, <1>8, <1>9, AbsentIsNoOffset
<1>11. i \in 2..Len(whole)
  BY <1>3, <1>6, <1>7, <1>10
<1>12. whole[i] = path[i] /\ i <= Len(whole)
  BY <1>3, <1>4, <1>8, <1>11
<1>13. QED
  BY <1>2, <1>12

(* ... and what its last section names comes next.                          *)
LEMMA NextIsInWhole ==
  ASSUME file \in Seq(Chunk), NEW whole \in WholePaths,
         NEW path, Len(path) \in Nat, NEW o \in Nat,
         Len(path) = 0 => o = startxref,
         Len(path) # 0 => IsPath(path) /\ o = file[path[Len(path)]].prev
  PROVE  /\ Len(path) + 1 <= Len(whole) /\ whole[Len(path) + 1] = o
         /\ \A i \in 1..Len(path) : whole[i] = path[i]
<1>1. Len(whole) \in Nat /\ Len(whole) >= 1 /\ IsPath(whole) /\ EndsThere(whole)
  <2>1. Len(whole) \in 1..MaxSections /\ IsPath(whole) /\ EndsThere(whole)
    BY WholePathIs
  <2>2. QED
    BY <2>1, ChainLimitsAreNat
<1>2. CASE Len(path) = 0
  <2>1. whole[1] = startxref
    BY <1>1 DEF IsPath
  <2>2. QED
    BY <1>1, <1>2, <2>1
<1>3. CASE Len(path) # 0
  <2>1. \A i \in 1..Len(path) : i <= Len(whole) /\ whole[i] = path[i]
    BY <1>3, FollowedIsBeginning
  <2>2. Len(path) \in 1..Len(path)
    BY <1>3
  <2>3. o = file[whole[Len(path)]].prev
    BY <1>3, <2>1, <2>2
  <2>4. Len(path) # Len(whole)
    BY <1>1, <2>3, AbsentIsNoOffset DEF EndsThere
  <2>5. Len(path) + 1 \in 2..Len(whole)
    BY <1>1, <1>3, <2>1, <2>2, <2>4
  <2>6. \A i \in 2..Len(whole) : whole[i] = file[whole[i - 1]].prev
    BY <1>1 DEF IsPath
  <2>7. whole[Len(path) + 1] = file[whole[Len(path) + 1 - 1]].prev
    BY <2>5, <2>6
  <2>8. Len(path) + 1 - 1 = Len(path)
    OBVIOUS
  <2>9. whole[Len(path) + 1] = o
    BY <2>3, <2>7, <2>8
  <2>10. Len(path) + 1 <= Len(whole)
    BY <1>1, <2>5
  <2>11. QED
    BY <2>1, <2>9, <2>10
<1>4. QED
  BY <1>2, <1>3

(* No section is twice on a whole path: it would never have ended.          *)
LEMMA WholeHasNoTwice ==
  ASSUME file \in Seq(Chunk), NEW whole \in WholePaths
  PROVE  \A a, b \in 1..Len(whole) : a < b => whole[a] # whole[b]
<1> DEFINE n == Len(whole)
           Twice == {b \in 1..n : \E a \in 1..n : a < b /\ whole[a] = whole[b]}
<1>1. n \in Nat /\ n >= 1 /\ IsPath(whole) /\ EndsThere(whole)
  <2>1. Len(whole) \in 1..MaxSections /\ IsPath(whole) /\ EndsThere(whole)
    BY WholePathIs
  <2>2. QED
    BY <2>1, ChainLimitsAreNat
<1>2. /\ \A j \in 2..n : whole[j] = file[whole[j - 1]].prev
      /\ \A j \in 1..n : Decodes(whole[j])
      /\ file[whole[n]].prev = Absent
  BY <1>1 DEF IsPath, EndsThere
<1> HIDE DEF n
<1>3. ASSUME Twice # {}
      PROVE  FALSE
  <2>1. PICK b \in Twice : \A k \in Twice : k <= b
    <3>1. Twice \in SUBSET Nat /\ \A k \in Twice : k <= n
      BY <1>1
    <3> HIDE DEF Twice
    <3>2. QED
      BY <1>1, <1>3, <3>1, GreatestElement
  <2>2. PICK a \in 1..n : a < b /\ whole[a] = whole[b]
    OBVIOUS
  <2>3. b \in 1..n /\ a + 1 \in 2..n /\ a + 1 - 1 = a /\ a + 1 \in 1..n
    <3>1. b \in 1..n
      OBVIOUS
    <3> HIDE DEF Twice
    <3>2. QED
      BY <1>1, <2>2, <3>1
  <2>4. whole[a + 1] = file[whole[b]].prev
    BY <1>2, <2>2, <2>3
  <2>5. CASE b = n
    <3>1. whole[a + 1] = Absent
      BY <1>2, <2>4, <2>5
    <3>2. whole[a + 1] \in Nat
      BY <1>2, <2>3, DecodesIs
    <3>3. QED
      BY <3>1, <3>2, AbsentIsNoOffset
  <2>6. CASE b # n
    <3>1. b + 1 \in 2..n /\ b + 1 - 1 = b /\ b + 1 \in 1..n /\ a + 1 < b + 1 /\ ~(b + 1 <= b)
      <4> HIDE DEF Twice
      <4>1. QED
        BY <1>1, <2>2, <2>3, <2>6
    <3>2. whole[b + 1] = file[whole[b]].prev
      BY <1>2, <3>1
    <3>3. b + 1 \in Twice
      BY <2>3, <2>4, <3>1, <3>2
    <3> HIDE DEF Twice
    <3>4. QED
      BY <2>1, <3>1, <3>3
  <2>7. QED
    BY <2>5, <2>6
<1>4. QED
  BY <1>3 DEF n

(***************************************************************************)
(* One section more.                                                       *)
(***************************************************************************)
Longer(path, o, more) ==
  /\ Len(path) \in Nat /\ Len(more) = Len(path) + 1
  /\ more[Len(path) + 1] = o
  /\ \A i \in 1..Len(path) : more[i] = path[i]

(* The section at o is the next one of a path.                              *)
Continues(path, o) ==
  /\ Len(path) = 0 => o = startxref
  /\ Len(path) # 0 => IsPath(path) /\ o = file[path[Len(path)]].prev

(* The records are those of the sections of a path.                         *)
Reads(path, records) ==
  /\ DOMAIN records = Listed(path)
  /\ \A n \in DOMAIN records : CurrentRecord(path, n, records[n])

(* What an older section adds to the records.                               *)
Adds(records, o, merged) ==
  /\ DOMAIN merged = DOMAIN records \cup DOMAIN DecodedEntries(file[o])
  /\ \A n \in DOMAIN merged :
       merged[n] = IF n \in DOMAIN records THEN records[n] ELSE DecodedEntries(file[o])[n]

LEMMA AppendIsLonger ==
  ASSUME NEW path \in Seq(Nat), NEW o \in Nat
  PROVE  /\ Append(path, o) \in Seq(Nat) /\ Longer(path, o, Append(path, o))
         /\ Len(Append(path, o)) # 0
<1>1. /\ Append(path, o) \in Seq(Nat) /\ Len(Append(path, o)) = Len(path) + 1
      /\ \A i \in 1..Len(path) : Append(path, o)[i] = path[i]
      /\ Append(path, o)[Len(path) + 1] = o
  BY AppendProperties
<1>2. Len(path) \in Nat
  BY LenProperties
<1>3. QED
  BY <1>1, <1>2 DEF Longer

(* What the longer path lists.                                              *)
LEMMA ListedLonger ==
  ASSUME NEW path, NEW o, NEW more, Longer(path, o, more)
  PROVE  Listed(more) = Listed(path) \cup Range(Numbers(o))
<1>1. /\ Len(path) \in Nat /\ Len(more) = Len(path) + 1
      /\ more[Len(path) + 1] = o
      /\ \A i \in 1..Len(path) : more[i] = path[i]
  BY DEF Longer
<1>2. /\ \A i \in 1..Len(more) : i \in 1..Len(path) \/ i = Len(path) + 1
      /\ \A i \in 1..Len(path) : i \in 1..Len(more)
      /\ Len(path) + 1 \in 1..Len(more)
  BY <1>1
<1> DEFINE In(p, i) == Range(Numbers(p[i]))
<1>3. ASSUME NEW n
      PROVE  n \in Listed(more) <=> n \in Listed(path) \/ n \in Range(Numbers(o))
  <2>1. n \in Listed(more) <=> \E i \in 1..Len(more) : n \in In(more, i)
    BY DEF Listed
  <2>2. n \in Listed(path) <=> \E i \in 1..Len(path) : n \in In(path, i)
    BY DEF Listed
  <2>3. \A i \in 1..Len(path) : In(more, i) = In(path, i)
    BY <1>1
  <2>4. In(more, Len(path) + 1) = Range(Numbers(o))
    BY <1>1
  <2> HIDE DEF In
  <2>5. QED
    BY <1>2, <2>1, <2>2, <2>3, <2>4
<1>4. QED
  BY <1>3

(* The records of a longer path are the older section's where no newer one  *)
(* lists the number.                                                        *)
LEMMA OneMoreSection ==
  ASSUME file \in Seq(Chunk), NEW path, NEW o, NEW more, Longer(path, o, more),
         Continues(path, o), Decodes(o),
         NEW records, Reads(path, records), NEW merged, Adds(records, o, merged)
  PROVE  IsPath(more) /\ Reads(more, merged)
<1>1. /\ Len(path) \in Nat /\ Len(more) = Len(path) + 1
      /\ more[Len(path) + 1] = o
      /\ \A i \in 1..Len(path) : more[i] = path[i]
  BY DEF Longer
<1>2. /\ \A i \in 1..Len(more) : i \in 1..Len(path) \/ i = Len(path) + 1
      /\ \A i \in 1..Len(path) : i \in 1..Len(more)
      /\ Len(path) + 1 \in 1..Len(more)
  BY <1>1
<1>3. IsPath(more)
  <2>1. more[1] = startxref
    <3>1. CASE Len(path) = 0
      BY <1>1, <3>1 DEF Continues
    <3>2. CASE Len(path) # 0
      <4>1. path[1] = startxref
        BY <3>2 DEF Continues, IsPath
      <4>2. 1 \in 1..Len(path)
        BY <1>1, <3>2
      <4>3. QED
        BY <1>1, <4>1, <4>2
    <3>3. QED
      BY <3>1, <3>2
  <2>2. \A i \in 1..Len(more) : Decodes(more[i])
    <3>1. ASSUME NEW i \in 1..Len(path)
          PROVE  Decodes(path[i])
      <4>1. Len(path) # 0
        BY <1>1
      <4>2. QED
        BY <4>1 DEF Continues, IsPath
    <3>2. QED
      BY <1>1, <1>2, <3>1
  <2>3. ASSUME NEW i \in 2..Len(more)
        PROVE  more[i] = file[more[i - 1]].prev
    <3>1. CASE i = Len(path) + 1
      <4>1. Len(path) # 0 /\ Len(path) \in 1..Len(path) /\ i - 1 = Len(path)
        BY <1>1, <3>1
      <4>2. o = file[path[Len(path)]].prev
        BY <4>1 DEF Continues
      <4>3. more[i - 1] = path[Len(path)] /\ more[i] = o
        BY <1>1, <3>1, <4>1
      <4>4. QED
        BY <4>2, <4>3
    <3>2. CASE i # Len(path) + 1
      <4>1. Len(path) # 0 /\ i \in 2..Len(path) /\ i \in 1..Len(path) /\ i - 1 \in 1..Len(path)
        BY <1>1, <3>2
      <4>2. path[i] = file[path[i - 1]].prev
        BY <4>1 DEF Continues, IsPath
      <4>3. more[i] = path[i] /\ more[i - 1] = path[i - 1]
        BY <1>1, <4>1
      <4>4. QED
        BY <4>2, <4>3
    <3>3. QED
      BY <3>1, <3>2
  <2>4. QED
    BY <2>1, <2>2, <2>3 DEF IsPath
<1>4. file[o] \in Chunk /\ SectionDecodes(file[o])
  BY DecodesIs
<1> DEFINE numbers == ObjectNumbers(file[o])
           new == DecodedEntries(file[o])
<1>5. /\ DOMAIN new = Range(numbers)
      /\ \A n \in Range(numbers) : \E k \in 1..Len(numbers) :
           /\ numbers[k] = n /\ new[n] = Record(file[o], k)
           /\ \A h \in (k + 1)..Len(numbers) : numbers[h] # n
  BY <1>4, LastIsDecoded
<1>6. Numbers(o) = numbers
  BY DEF Numbers
<1>7. DOMAIN records = Listed(path) /\ \A n \in DOMAIN records : CurrentRecord(path, n, records[n])
  BY DEF Reads
<1> HIDE DEF numbers, new
<1>8. DOMAIN merged = Listed(more)
  BY <1>5, <1>6, <1>7, ListedLonger DEF new, Adds
<1>9. ASSUME NEW n \in DOMAIN records
      PROVE  CurrentRecord(more, n, records[n])
  <2>0. PICK i \in 1..Len(path) : \E k \in 1..Len(Numbers(path[i])) :
          /\ Numbers(path[i])[k] = n /\ records[n] = Record(file[path[i]], k)
          /\ \A h \in (k + 1)..Len(Numbers(path[i])) : Numbers(path[i])[h] # n
          /\ \A j \in 1..(i - 1) : n \notin Range(Numbers(path[j]))
    BY <1>7 DEF CurrentRecord
  <2>1. PICK k \in 1..Len(Numbers(path[i])) :
          /\ Numbers(path[i])[k] = n /\ records[n] = Record(file[path[i]], k)
          /\ \A h \in (k + 1)..Len(Numbers(path[i])) : Numbers(path[i])[h] # n
          /\ \A j \in 1..(i - 1) : n \notin Range(Numbers(path[j]))
    BY <2>0
  <2>2. more[i] = path[i] /\ i \in 1..Len(more)
    BY <1>1, <1>2
  <2>3. \A j \in 1..(i - 1) : j \in 1..Len(path)
    BY <1>1
  <2>4. \A j \in 1..(i - 1) : n \notin Range(Numbers(more[j]))
    BY <1>1, <2>1, <2>3
  <2>5. k \in 1..Len(Numbers(more[i]))
    BY <2>2
  <2>6. /\ Numbers(more[i])[k] = n /\ records[n] = Record(file[more[i]], k)
        /\ \A h \in (k + 1)..Len(Numbers(more[i])) : Numbers(more[i])[h] # n
    BY <2>1, <2>2
  <2>7. QED
    BY <2>2, <2>4, <2>5, <2>6 DEF CurrentRecord
<1>10. ASSUME NEW n \in DOMAIN new, n \notin DOMAIN records
       PROVE  CurrentRecord(more, n, new[n])
  <2>1. PICK k \in 1..Len(numbers) :
          /\ numbers[k] = n /\ new[n] = Record(file[o], k)
          /\ \A h \in (k + 1)..Len(numbers) : numbers[h] # n
    BY <1>5, <1>10
  <2>2. ASSUME NEW j \in 1..Len(path)
        PROVE  n \notin Range(Numbers(more[j]))
    <3>1. n \notin Range(Numbers(path[j]))
      BY <1>7, <1>10 DEF Listed
    <3>2. QED
      BY <1>1, <3>1
  <2>3. PICK i \in 1..Len(more) : i = Len(path) + 1
    BY <1>2
  <2>4. more[i] = o /\ i - 1 = Len(path)
    BY <1>1, <2>3
  <2>5. Numbers(more[i]) = numbers /\ file[more[i]] = file[o]
    BY <1>6, <2>4
  <2>6. \A j \in 1..(i - 1) : n \notin Range(Numbers(more[j]))
    BY <2>2, <2>4
  <2>7. /\ k \in 1..Len(Numbers(more[i]))
        /\ Numbers(more[i])[k] = n /\ new[n] = Record(file[more[i]], k)
        /\ \A h \in (k + 1)..Len(Numbers(more[i])) : Numbers(more[i])[h] # n
    BY <2>1, <2>5
  <2>8. QED
    BY <2>6, <2>7 DEF CurrentRecord
<1>11. \A n \in DOMAIN merged : CurrentRecord(more, n, merged[n])
  <2>1. ASSUME NEW n \in DOMAIN merged
        PROVE  CurrentRecord(more, n, merged[n])
    <3>1. CASE n \in DOMAIN records
      <4>1. merged[n] = records[n]
        BY <3>1 DEF Adds
      <4>2. QED
        BY <1>9, <3>1, <4>1
    <3>2. CASE n \notin DOMAIN records
      <4>1. n \in DOMAIN new /\ merged[n] = new[n]
        BY <3>2 DEF new, Adds
      <4>2. QED
        BY <1>10, <3>2, <4>1
    <3>3. QED
      BY <3>1, <3>2
  <2>2. QED
    BY <2>1
<1>12. QED
  BY <1>3, <1>8, <1>11 DEF Reads

(* A whole path lists numbers that a usize holds: they can be counted.      *)
LEMMA ListedFinite ==
  ASSUME file \in Seq(Chunk), NEW whole \in WholePaths
  PROVE  IsFiniteSet(Listed(whole))
<1>1. IsPath(whole)
  BY WholePathIs
<1>2. \A i \in 1..Len(whole) : Decodes(whole[i])
  BY <1>1 DEF IsPath
<1>3. ASSUME NEW i \in 1..Len(whole)
      PROVE  Range(Numbers(whole[i])) \subseteq 0..MaxUsize
  <2>1. file[whole[i]] \in Chunk /\ SectionDecodes(file[whole[i]])
    BY <1>2, DecodesIs
  <2>2. /\ DOMAIN ObjectNumbers(file[whole[i]]) = 1..Len(ObjectNumbers(file[whole[i]]))
        /\ \A k \in 1..Len(ObjectNumbers(file[whole[i]])) :
             ObjectNumbers(file[whole[i]])[k] \in 0..MaxUsize
    BY <2>1, NumbersTyped
  <2>3. QED
    BY <2>2 DEF Range, Numbers
<1>4. Listed(whole) \subseteq 0..MaxUsize
  BY <1>3 DEF Listed
<1>5. MaxUsize \in Int /\ 0 \in Int
  BY WidthsAreNat
<1>6. IsFiniteSet(0..MaxUsize)
  BY <1>5, FS_Interval, Zenon
<1>7. QED
  BY <1>4, <1>6, FS_Subset, Zenon

(* The chain is refused only when no path of sections ends in time, or the  *)
(* one that does lists too many numbers.                                    *)
LEMMA RefusedHasNoPath ==
  ASSUME file \in Seq(Chunk), NEW path \in Seq(Nat), path = section_byte_offsets,
         NEW o \in Nat, Continues(path, o), DOMAIN entries = Listed(path),
         SectionRejection(o) # "none", NEW whole \in WholePaths
  PROVE  Cardinality(Listed(whole)) > MaxEntries
<1> DEFINE merged == MergeSection(entries, DecodedEntries(file[o]))
<1>1. \/ Len(path) >= MaxSections
      \/ o \notin DOMAIN file
      \/ o \in Visited
      \/ SectionKind(file, o) = "Unclassified"
      \/ SectionKind(file, o) = "Table"
      \/ ~SectionDecodes(file[o])
      \/ Cardinality(DOMAIN merged) > MaxEntries
  BY DEF SectionRejection
<1> HIDE DEF merged
<1>2. Len(path) \in Nat /\ DOMAIN path = 1..Len(path)
  BY LenProperties
<1>3. /\ Len(path) + 1 <= Len(whole) /\ whole[Len(path) + 1] = o
      /\ \A i \in 1..Len(path) : whole[i] = path[i]
  BY <1>2, NextIsInWhole DEF Continues
<1>4. Len(whole) \in 1..MaxSections /\ IsPath(whole) /\ MaxSections \in Nat
  BY WholePathIs, ChainLimitsAreNat
<1>5. Len(path) + 1 \in 1..Len(whole)
  BY <1>2, <1>3, <1>4
<1>6. Decodes(o)
  BY <1>3, <1>4, <1>5 DEF IsPath
<1>7. o \in DOMAIN file /\ SectionDecodes(file[o]) /\ file[o] \in Chunk
  BY <1>6, DecodesIs
<1>8. SectionKind(file, o) = "Stream"
  <2>1. file[o].kind = "xref"
    BY <1>7 DEF SectionDecodes
  <2>2. QED
    BY <1>7, <2>1 DEF SectionKind
<1>9. ~(Len(path) >= MaxSections)
  BY <1>2, <1>3, <1>4
<1>10. o \notin Visited
  <2>1. ASSUME o \in Visited
        PROVE  FALSE
    <3>1. PICK j \in 1..Len(path) : path[j] = o
      BY <1>2, <2>1 DEF Visited, Range
    <3>2. whole[j] = o /\ j \in 1..Len(whole) /\ j < Len(path) + 1
      BY <1>2, <1>3, <1>4, <3>1
    <3>3. QED
      BY <1>3, <1>5, <3>2, WholeHasNoTwice
  <2>2. QED
    BY <2>1
<1>11. Cardinality(DOMAIN merged) > MaxEntries
  BY <1>1, <1>7, <1>8, <1>9, <1>10
<1>12. DOMAIN merged = Listed(path) \cup Range(Numbers(o))
  <2>1. DOMAIN merged = DOMAIN entries \cup DOMAIN DecodedEntries(file[o])
    BY DEF merged, MergeSection
  <2>2. DOMAIN DecodedEntries(file[o]) = Range(ObjectNumbers(file[o]))
    BY <1>7, LastIsDecoded
  <2>3. QED
    BY <2>1, <2>2 DEF Numbers
<1>13. DOMAIN merged \subseteq Listed(whole)
  <2>1. ASSUME NEW n, n \in Listed(path)
        PROVE  n \in Listed(whole)
    <3>1. PICK i \in 1..Len(path) : n \in Range(Numbers(path[i]))
      BY <2>1 DEF Listed
    <3>2. i \in 1..Len(whole) /\ whole[i] = path[i]
      BY <1>2, <1>3, <1>4
    <3>3. QED
      BY <3>1, <3>2 DEF Listed
  <2>2. ASSUME NEW n, n \in Range(Numbers(o))
        PROVE  n \in Listed(whole)
    BY <1>3, <1>5, <2>2 DEF Listed
  <2>3. QED
    BY <1>12, <2>1, <2>2
<1>14. IsFiniteSet(Listed(whole))
  BY ListedFinite
<1>15. Cardinality(DOMAIN merged) <= Cardinality(Listed(whole)) /\ IsFiniteSet(DOMAIN merged)
  BY <1>13, <1>14, FS_Subset, Zenon
<1>16. Cardinality(DOMAIN merged) \in Nat /\ Cardinality(Listed(whole)) \in Nat
  BY <1>14, <1>15, FS_CardinalityType, Zenon
<1>17. QED
  BY <1>11, <1>15, <1>16, ChainLimitsAreNat

(***************************************************************************)
(* The inductive invariant.  The records merged so far are always those of *)
(* the sections followed so far, which lie on the path from startxref; an  *)
(* opened document has come to the end of it, and a refused chain has no   *)
(* end.  What was handed out is what resolving the reference gives now.    *)
(***************************************************************************)
FollowedSoFar ==
  /\ section_byte_offsets \in Seq(Nat)
  /\ Reads(section_byte_offsets, entries)
  /\ Len(section_byte_offsets) = 0 => root_reference = Absent
  /\ Len(section_byte_offsets) # 0 =>
       IsPath(section_byte_offsets) /\ root_reference = file[startxref].root

Progress ==
  /\ access = "start" => Len(section_byte_offsets) = 0
  /\ access = "chain" => Continues(section_byte_offsets, next_offset)
  /\ access \in {"catalog", "open"} =>
       Len(section_byte_offsets) # 0 /\ EndsThere(section_byte_offsets)
  /\ access \in ChainRejection =>
       \A path \in WholePaths : Cardinality(Listed(path)) > MaxEntries

Answered ==
  Resolved(answer) =>
    access = "open" /\ \E ref \in IndirectRef : asked = ref /\ answer = Resolve(ref)

Inv ==
  /\ file \in Seq(Chunk) /\ startxref \in Nat
  /\ FollowedSoFar /\ Progress /\ Answered

LEMMA InitInv == Init => Inv
<1> SUFFICES ASSUME Init PROVE Inv
  OBVIOUS
<1>1. PICK d \in Documents : file = d.file /\ startxref = d.startxref
  BY DEF Init
<1>2. file \in Seq(Chunk) /\ startxref \in Nat
  BY <1>1, DocumentsAreFiles
<1>3. /\ access = "start" /\ section_byte_offsets = <<>> /\ entries = EmptyMap
      /\ root_reference = Absent
  BY DEF Init, ChainInit
<1>4. section_byte_offsets \in Seq(Nat) /\ Len(section_byte_offsets) = 0
  BY <1>3
<1>5. Reads(section_byte_offsets, entries)
  <2>1. DOMAIN entries = {}
    BY <1>3 DEF EmptyMap
  <2>2. 1..Len(section_byte_offsets) = {}
    BY <1>4
  <2>3. Listed(section_byte_offsets) = {}
    BY <2>2 DEF Listed
  <2>4. QED
    BY <2>1, <2>3 DEF Reads
<1>6. FollowedSoFar
  BY <1>3, <1>4, <1>5 DEF FollowedSoFar
<1>7. Progress
  BY <1>3, <1>4 DEF Progress, ChainRejection
<1>8. Answered
  BY DEF Init, Answered, Resolved, Unresolved
<1>9. QED
  BY <1>2, <1>6, <1>7, <1>8 DEF Inv

(* The reading of a file depends on nothing but the file.                   *)
LEMMA ReadingStays ==
  ASSUME UNCHANGED <<file, startxref, section_byte_offsets, entries, root_reference>>
  PROVE  FollowedSoFar' <=> FollowedSoFar
BY DEF FollowedSoFar, Reads, IsPath, Decodes, Listed, CurrentRecord, Numbers

LEMMA WholePathsStay ==
  ASSUME UNCHANGED <<file, startxref>>
  PROVE  (\A path \in WholePaths : Cardinality(Listed(path)) > MaxEntries)'
           <=> (\A path \in WholePaths : Cardinality(Listed(path)) > MaxEntries)
BY DEF WholePaths, IsPath, EndsThere, Decodes, Listed, Numbers

(* Resolving depends on the file and the records.                           *)
LEMMA ResolveStays ==
  ASSUME UNCHANGED <<file, entries>>, NEW ref
  PROVE  Resolve(ref)' = Resolve(ref)
BY DEF Resolve, ResolveMember, ResolveOffset, Location

(* A section that ends the merging or leads on becomes part of the path.    *)
LEMMA SectionTaken ==
  ASSUME Inv, UNCHANGED <<file, startxref>>,
         NEW o \in Nat, NEW more \in Seq(Nat), Longer(section_byte_offsets, o, more),
         Continues(section_byte_offsets, o), Decodes(o),
         NEW merged, Adds(entries, o, merged),
         section_byte_offsets' = more, entries' = merged,
         root_reference' = IF root_reference = Absent THEN file[o].root ELSE root_reference
  PROVE  FollowedSoFar' /\ Len(more) # 0 /\ more[Len(more)] = o
<1>1. file \in Seq(Chunk) /\ FollowedSoFar /\ startxref \in Nat
  BY DEF Inv
<1>2. Reads(section_byte_offsets, entries)
  BY <1>1 DEF FollowedSoFar
<1>3. IsPath(more) /\ Reads(more, merged)
  BY <1>1, <1>2, OneMoreSection
<1>4. /\ Len(section_byte_offsets) \in Nat /\ Len(more) = Len(section_byte_offsets) + 1
      /\ more[Len(section_byte_offsets) + 1] = o
  BY DEF Longer
<1>5. root_reference' = file[startxref].root
  <2>1. CASE Len(section_byte_offsets) = 0
    <3>1. o = startxref /\ root_reference = Absent
      BY <1>1, <2>1 DEF Continues, FollowedSoFar
    <3>2. QED
      BY <3>1
  <2>2. CASE Len(section_byte_offsets) # 0
    <3>1. IsPath(section_byte_offsets) /\ root_reference = file[startxref].root
      BY <1>1, <2>2 DEF FollowedSoFar
    <3>2. section_byte_offsets[1] = startxref /\ Decodes(section_byte_offsets[1])
      <4>1. 1 \in 1..Len(section_byte_offsets)
        BY <1>4, <2>2
      <4>2. QED
        BY <3>1, <4>1 DEF IsPath
    <3>3. root_reference \in IndirectRef
      BY <1>1, <3>1, <3>2, DecodesIs, SectionStates
    <3>4. QED
      BY <3>1, <3>3, AbsentIsNoReference
  <2>3. QED
    BY <2>1, <2>2
<1>6. IsPath(section_byte_offsets)'
  BY <1>3 DEF IsPath, Decodes
<1>7. Reads(section_byte_offsets, entries)'
  <2>1. DOMAIN merged = Listed(more) /\ \A n \in DOMAIN merged : CurrentRecord(more, n, merged[n])
    BY <1>3 DEF Reads
  <2>2. Listed(section_byte_offsets)' = Listed(more)
    BY DEF Listed, Numbers
  <2>3. ASSUME NEW n \in DOMAIN merged
        PROVE  CurrentRecord(section_byte_offsets, n, entries[n])'
    <3>1. PICK record : record = merged[n]
      OBVIOUS
    <3>2. CurrentRecord(more, n, record)
      BY <2>1, <3>1
    <3>3. entries'[n] = record
      BY <3>1
    <3>4. QED
      BY <3>2, <3>3 DEF CurrentRecord, Numbers
  <2>4. QED
    BY <2>1, <2>2, <2>3 DEF Reads
<1>8. Len(more) # 0 /\ more[Len(more)] = o
  BY <1>4
<1>9. FollowedSoFar'
  BY <1>5, <1>6, <1>7, <1>8 DEF FollowedSoFar
<1>10. QED
  BY <1>8, <1>9

(* The last section of the path states where to go on, or nothing.          *)
LEMMA NextIsTyped ==
  ASSUME Inv, NEW o, Continues(section_byte_offsets, o)
  PROVE  o \in Nat \cup {Absent}
<1>1. file \in Seq(Chunk) /\ FollowedSoFar /\ startxref \in Nat
  BY DEF Inv
<1>2. CASE Len(section_byte_offsets) = 0
  BY <1>1, <1>2 DEF Continues
<1>3. CASE Len(section_byte_offsets) # 0
  <2>1. /\ IsPath(section_byte_offsets)
        /\ o = file[section_byte_offsets[Len(section_byte_offsets)]].prev
    BY <1>3 DEF Continues
  <2>2. Len(section_byte_offsets) \in 1..Len(section_byte_offsets)
    <3>1. Len(section_byte_offsets) \in Nat
      BY <1>1, LenProperties DEF FollowedSoFar
    <3>2. QED
      BY <1>3, <3>1
  <2>3. Decodes(section_byte_offsets[Len(section_byte_offsets)])
    BY <2>1, <2>2 DEF IsPath
  <2>4. QED
    BY <1>1, <2>1, <2>3, DecodesIs, SectionStates
<1>4. QED
  BY <1>2, <1>3

(* Nothing is handed out while the document is being opened.                *)
LEMMA NoAnswerYet ==
  ASSUME Inv, access # "open", UNCHANGED answer
  PROVE  Answered'
BY DEF Inv, Answered, Resolved

LEMMA AnswerStays ==
  ASSUME Inv, UNCHANGED <<file, entries, access, asked, answer>>
  PROVE  Answered'
<1>1. Answered
  BY DEF Inv
<1>2. \A ref \in IndirectRef : Resolve(ref)' = Resolve(ref)
  BY ResolveStays
<1>3. ASSUME Resolved(answer)'
      PROVE  access' = "open" /\ \E ref \in IndirectRef : asked' = ref /\ answer' = Resolve(ref)'
  <2>1. Resolved(answer)
    BY <1>3 DEF Resolved
  <2>2. access = "open" /\ \E ref \in IndirectRef : asked = ref /\ answer = Resolve(ref)
    BY <1>1, <2>1 DEF Answered
  <2>3. QED
    BY <1>2, <2>2
<1>4. QED
  BY <1>3 DEF Answered

(* Opening: the document turned away, one section used, a chain followed.   *)
LEMMA OpenInv ==
  ASSUME Inv, Open
  PROVE  Inv'
<1>1. file \in Seq(Chunk) /\ startxref \in Nat /\ FollowedSoFar /\ Progress
  BY DEF Inv
<1>2. UNCHANGED <<file, startxref, asked, answer>> /\ access \in {"start", "chain"}
  BY DEF Open, OpenStep, RejectSpine, UseSection, StartChain, FollowSection, RejectSection,
         FinishChain
<1>3. file' \in Seq(Chunk) /\ startxref' \in Nat
  BY <1>1, <1>2
<1>4. Answered'
  BY <1>2, NoAnswerYet
<1> DEFINE path == section_byte_offsets
<1>5. path \in Seq(Nat) /\ Len(path) \in Nat
  BY <1>1, LenProperties DEF FollowedSoFar
<1>6. SUFFICES FollowedSoFar' /\ Progress'
  BY <1>3, <1>4 DEF Inv
<1>7. CASE RejectSpine
  <2>1. UNCHANGED <<section_byte_offsets, entries, root_reference>> /\ access' = SpineRejection
        /\ SpineRejection # "none"
    BY <1>7 DEF RejectSpine, chainVars
  <2>2. access' \in {"XrefSectionUnclassified", "ClassicSpine", "XrefStreamDecode"}
    BY <2>1 DEF SpineRejection
  <2>3. Progress'
    BY <2>2 DEF Progress, ChainRejection
  <2>4. QED
    BY <1>1, <1>2, <2>1, <2>3, ReadingStays
<1>8. CASE UseSection
  <2>1. /\ access = "start" /\ SpineRejection = "none" /\ file[startxref].prev = Absent
        /\ entries' = DecodedEntries(file[startxref]) /\ root_reference' = file[startxref].root
        /\ section_byte_offsets' = <<startxref>> /\ access' = "catalog"
    BY <1>8 DEF UseSection
  <2>2. Decodes(startxref)
    BY <2>1 DEF SpineRejection, SectionKind, Decodes
  <2>3. Len(path) = 0
    BY <1>1, <2>1 DEF Progress
  <2>4. PICK more \in Seq(Nat) : more = <<startxref>> /\ Len(more) = 1 /\ more[1] = startxref
    <3>1. <<startxref>> \in Seq(Nat) /\ Len(<<startxref>>) = 1 /\ <<startxref>>[1] = startxref
      BY <1>1
    <3>2. QED
      BY <3>1, Zenon
  <2>5. Longer(path, startxref, more)
    BY <2>3, <2>4 DEF Longer
  <2>6. Continues(path, startxref)
    BY <2>3 DEF Continues
  <2>7. DOMAIN entries = {}
    <3>1. DOMAIN entries = Listed(path)
      BY <1>1 DEF FollowedSoFar, Reads
    <3>2. 1..Len(path) = {}
      BY <2>3
    <3>3. QED
      BY <3>1, <3>2 DEF Listed
  <2>8. PICK merged : merged = DecodedEntries(file[startxref])
    OBVIOUS
  <2>9. Adds(entries, startxref, merged)
    BY <2>7, <2>8 DEF Adds
  <2>10. root_reference = Absent
    BY <1>1, <2>3 DEF FollowedSoFar
  <2>11. FollowedSoFar' /\ Len(more) # 0 /\ more[Len(more)] = startxref
    <3>1. section_byte_offsets' = more /\ entries' = merged
      BY <2>1, <2>4, <2>8
    <3>2. root_reference' = IF root_reference = Absent THEN file[startxref].root ELSE root_reference
      BY <2>1, <2>10
    <3>3. UNCHANGED <<file, startxref>>
      BY <1>2
    <3> HIDE DEF path
    <3>4. QED
      BY <1>1, <2>2, <2>4, <2>5, <2>6, <2>9, <3>1, <3>2, <3>3, SectionTaken DEF path
  <2>12. Progress'
    <3>1. file'[section_byte_offsets'[Len(section_byte_offsets')]].prev = Absent
          /\ Len(section_byte_offsets') # 0
      BY <1>2, <2>1, <2>4, <2>11
    <3>2. QED
      BY <2>1, <3>1 DEF Progress, EndsThere, ChainRejection
  <2>13. QED
    BY <2>11, <2>12
<1>9. CASE StartChain
  <2>1. /\ access = "start" /\ next_offset' = startxref /\ access' = "chain"
        /\ UNCHANGED <<section_byte_offsets, entries, root_reference>>
    BY <1>9 DEF StartChain
  <2>2. Len(section_byte_offsets) = 0
    BY <1>1, <2>1 DEF Progress
  <2>3. Progress'
    BY <1>2, <2>1, <2>2 DEF Progress, Continues, ChainRejection
  <2>4. QED
    BY <1>1, <1>2, <2>1, <2>3, ReadingStays
<1>10. CASE FollowSection
  <2>1. /\ access = "chain" /\ access' = "chain" /\ next_offset # Absent
        /\ SectionRejection(next_offset) = "none"
        /\ root_reference' =
             IF root_reference = Absent THEN file[next_offset].root ELSE root_reference
        /\ entries' = MergeSection(entries, DecodedEntries(file[next_offset]))
        /\ next_offset' = file[next_offset].prev
        /\ section_byte_offsets' = Append(section_byte_offsets, next_offset)
    BY <1>10 DEF FollowSection, Remember
  <2>2. PICK o : o = next_offset
    OBVIOUS
  <2>3. Decodes(o)
    BY <2>1, <2>2 DEF SectionRejection, Decodes
  <2>4. o \in Nat
    BY <1>1, <2>3, DecodesIs
  <2>5. Continues(path, o)
    BY <1>1, <2>1, <2>2 DEF Progress
  <2>6. PICK more : more = Append(path, o)
    OBVIOUS
  <2>7. more \in Seq(Nat) /\ Longer(path, o, more)
    BY <1>5, <2>4, <2>6, AppendIsLonger
  <2>8. PICK merged : merged = MergeSection(entries, DecodedEntries(file[o]))
    OBVIOUS
  <2>9. Adds(entries, o, merged)
    BY <2>8 DEF Adds, MergeSection
  <2>10. FollowedSoFar' /\ Len(more) # 0 /\ more[Len(more)] = o
    <3>1. section_byte_offsets' = more /\ entries' = merged
      BY <2>1, <2>2, <2>6, <2>8
    <3>2. root_reference' = IF root_reference = Absent THEN file[o].root ELSE root_reference
      BY <2>1, <2>2
    <3>3. UNCHANGED <<file, startxref>>
      BY <1>2
    <3> HIDE DEF path
    <3>4. QED
      BY <2>3, <2>4, <2>5, <2>7, <2>9, <3>1, <3>2, <3>3, SectionTaken DEF path
  <2>11. Progress'
    <3>1. section_byte_offsets' = more /\ next_offset' = file'[o].prev
      BY <1>2, <2>1, <2>2, <2>6
    <3>2. IsPath(section_byte_offsets)'
      BY <2>10, <3>1 DEF FollowedSoFar
    <3>3. Continues(section_byte_offsets, next_offset)'
      BY <2>10, <3>1, <3>2 DEF Continues
    <3>4. QED
      BY <2>1, <3>3 DEF Progress, ChainRejection
  <2>12. QED
    BY <2>10, <2>11
<1>11. CASE RejectSection
  <2>1. /\ access = "chain" /\ next_offset # Absent
        /\ SectionRejection(next_offset) # "none" /\ access' = SectionRejection(next_offset)
        /\ UNCHANGED <<section_byte_offsets, entries, root_reference>>
    BY <1>11 DEF RejectSection, chainVars
  <2>2. PICK o : o = next_offset
    OBVIOUS
  <2>3. Continues(path, o)
    BY <1>1, <2>1, <2>2 DEF Progress
  <2>4. o \in Nat
    BY <2>1, <2>2, <2>3, NextIsTyped
  <2>5. DOMAIN entries = Listed(path)
    BY <1>1 DEF FollowedSoFar, Reads
  <2>6. \A whole \in WholePaths : Cardinality(Listed(whole)) > MaxEntries
    BY <1>1, <1>5, <2>1, <2>2, <2>3, <2>4, <2>5, RefusedHasNoPath
  <2>7. (\A whole \in WholePaths : Cardinality(Listed(whole)) > MaxEntries)'
    BY <1>2, <2>6, WholePathsStay
  <2>8. access' \in ChainRejection
    BY <2>1 DEF SectionRejection, ChainRejection
  <2>9. access' \notin {"start", "chain", "catalog", "open"}
    BY <2>8 DEF ChainRejection
  <2>10. Progress'
    BY <2>7, <2>9 DEF Progress
  <2>11. QED
    BY <1>1, <1>2, <2>1, <2>10, ReadingStays
<1>12. CASE FinishChain
  <2>1. /\ access = "chain" /\ next_offset = Absent /\ access' = "catalog"
        /\ UNCHANGED <<section_byte_offsets, entries, root_reference>>
    BY <1>12 DEF FinishChain, chainVars
  <2>2. Continues(path, Absent)
    BY <1>1, <2>1 DEF Progress
  <2>3. Len(path) # 0
    BY <1>1, <2>2, AbsentIsNoOffset DEF Continues
  <2>4. EndsThere(path)
    BY <2>2, <2>3 DEF Continues, EndsThere
  <2>5. EndsThere(section_byte_offsets)' /\ Len(section_byte_offsets') # 0
    BY <1>2, <2>1, <2>3, <2>4 DEF EndsThere
  <2>6. Progress'
    BY <2>1, <2>5 DEF Progress, ChainRejection
  <2>7. QED
    BY <1>1, <1>2, <2>1, <2>6, ReadingStays
<1>13. QED
  BY <1>7, <1>8, <1>9, <1>10, <1>11, <1>12 DEF Open, OpenStep

(* The catalog named by the newest section is resolved first.               *)
LEMMA CatalogInv ==
  ASSUME Inv, ResolveCatalog
  PROVE  Inv'
<1>1. file \in Seq(Chunk) /\ startxref \in Nat /\ FollowedSoFar /\ Progress
  BY DEF Inv
<1>2. /\ access = "catalog" /\ asked' = root_reference /\ answer' = Resolve(root_reference)
      /\ access' = IF Resolved(answer') THEN "open" ELSE "RootObject"
      /\ UNCHANGED <<file, startxref, next_offset, section_byte_offsets, entries,
                     root_reference>>
  BY DEF ResolveCatalog, chainVars
<1>3. Len(section_byte_offsets) # 0 /\ EndsThere(section_byte_offsets)
  BY <1>1, <1>2 DEF Progress
<1>4. IsPath(section_byte_offsets) /\ root_reference = file[startxref].root
  BY <1>1, <1>3 DEF FollowedSoFar
<1>5. root_reference \in IndirectRef
  <2>1. 1 \in 1..Len(section_byte_offsets)
    <3>1. Len(section_byte_offsets) \in Nat
      BY <1>1, LenProperties DEF FollowedSoFar
    <3>2. QED
      BY <1>3, <3>1
  <2>2. section_byte_offsets[1] = startxref /\ Decodes(section_byte_offsets[1])
    BY <1>4, <2>1 DEF IsPath
  <2>3. QED
    BY <1>1, <1>4, <2>2, DecodesIs, SectionStates
<1>6. Progress'
  <2>1. EndsThere(section_byte_offsets)' /\ Len(section_byte_offsets') # 0
    BY <1>2, <1>3 DEF EndsThere
  <2>2. access' \in {"open", "RootObject"}
    BY <1>2
  <2>3. access' \notin ChainRejection \cup {"start", "chain"}
    BY <2>2 DEF ChainRejection
  <2>4. QED
    BY <2>1, <2>3 DEF Progress
<1>7. Answered'
  <2>1. PICK ref \in IndirectRef : ref = root_reference
    BY <1>5
  <2>2. Resolve(ref)' = Resolve(ref)
    BY <1>2, ResolveStays
  <2>3. asked' = ref /\ answer' = Resolve(ref)'
    BY <1>2, <2>1, <2>2
  <2>4. Resolved(answer)' => access' = "open"
    BY <1>2 DEF Resolved
  <2>5. QED
    BY <2>3, <2>4 DEF Answered
<1>8. FollowedSoFar'
  BY <1>1, <1>2, ReadingStays
<1>9. QED
  BY <1>1, <1>2, <1>6, <1>7, <1>8 DEF Inv

(* Nothing else changes what was read.                                      *)
LEMMA ReadingOnlyInv ==
  ASSUME Inv, UNCHANGED accessVars, Answered'
  PROVE  Inv'
<1>1. file \in Seq(Chunk) /\ startxref \in Nat /\ FollowedSoFar /\ Progress
  BY DEF Inv
<1>2. UNCHANGED <<file, startxref, access, next_offset, section_byte_offsets, entries,
                  root_reference>>
  BY DEF accessVars, chainVars
<1>3. FollowedSoFar'
  BY <1>1, <1>2, ReadingStays
<1>4. (\A path \in WholePaths : Cardinality(Listed(path)) > MaxEntries)'
        <=> (\A path \in WholePaths : Cardinality(Listed(path)) > MaxEntries)
  BY <1>2, WholePathsStay
<1>5. Continues(section_byte_offsets, next_offset)'
        <=> Continues(section_byte_offsets, next_offset)
  BY <1>2 DEF Continues, IsPath, Decodes
<1>6. EndsThere(section_byte_offsets)' <=> EndsThere(section_byte_offsets)
  BY <1>2 DEF EndsThere
<1>7. Progress'
  BY <1>1, <1>2, <1>4, <1>5, <1>6 DEF Progress
<1>8. QED
  BY <1>1, <1>2, <1>3, <1>7 DEF Inv

LEMMA NextInv == Inv /\ [Next]_vars => Inv'
<1> SUFFICES ASSUME Inv, [Next]_vars PROVE Inv'
  OBVIOUS
<1>1. CASE Open
  BY <1>1, OpenInv
<1>2. CASE ResolveCatalog
  BY <1>2, CatalogInv
<1>3. CASE ResolveObject
  <2>1. access = "open" /\ UNCHANGED accessVars
    BY <1>3 DEF ResolveObject
  <2>2. PICK ref \in References : asked' = ref /\ answer' = Resolve(ref)
    BY <1>3 DEF ResolveObject
  <2>3. ref \in IndirectRef
    BY ReferencesAreRefs
  <2>4. UNCHANGED <<file, entries, access>>
    BY <2>1 DEF accessVars, chainVars
  <2>5. Resolve(ref)' = Resolve(ref)
    BY <2>4, ResolveStays
  <2>6. Answered'
    BY <2>1, <2>2, <2>3, <2>4, <2>5 DEF Answered
  <2>7. QED
    BY <2>1, <2>6, ReadingOnlyInv
<1>4. CASE UNCHANGED vars
  <2>1. UNCHANGED accessVars /\ UNCHANGED <<file, entries, access, asked, answer>>
    BY <1>4 DEF vars, accessVars, chainVars
  <2>2. Answered'
    BY <2>1, AnswerStays
  <2>3. QED
    BY <2>1, <2>2, ReadingOnlyInv
<1>5. CASE Failed
  BY <1>4, <1>5 DEF Failed
<1>6. QED
  BY <1>1, <1>2, <1>3, <1>4, <1>5 DEF Next

THEOREM SpecInv == Spec => []Inv
<1>1. QED
  BY InitInv, NextInv, PTL DEF Spec

(***************************************************************************)
(* An opened document answers from exactly the sections of its /Prev       *)
(* chain, the newest record of a number hiding the older ones, and a chain *)
(* is refused only if no path of sections ends within the limit or the one *)
(* that does lists too many numbers (build_xref_stream_chain).             *)
(***************************************************************************)
THEOREM LookupAlwaysFollowsRevisions == Spec => []LookupFollowsRevisions
<1>1. Inv => LookupFollowsRevisions
  <2> SUFFICES ASSUME Inv PROVE LookupFollowsRevisions
    OBVIOUS
  <2>1. FollowedSoFar /\ Progress
    BY DEF Inv
  <2>2. ASSUME access \in {"catalog", "open"}
        PROVE  /\ IsPath(section_byte_offsets) /\ EndsThere(section_byte_offsets)
               /\ DOMAIN entries = Listed(section_byte_offsets)
               /\ \A n \in DOMAIN entries : CurrentRecord(section_byte_offsets, n, entries[n])
               /\ root_reference = file[startxref].root
    BY <2>1, <2>2 DEF FollowedSoFar, Progress, Reads
  <2>3. access \in ChainRejection =>
          \A path \in WholePaths : Cardinality(Listed(path)) > MaxEntries
    BY <2>1 DEF Progress
  <2>4. QED
    BY <2>2, <2>3 DEF LookupFollowsRevisions
<1>2. QED
  BY <1>1, SpecInv, PTL

(***************************************************************************)
(* Resolving references.                                                   *)
(***************************************************************************)

(* The merged records are of the right kind.                                *)
LEMMA EntriesTyped ==
  ASSUME Inv
  PROVE  \A n \in DOMAIN entries : entries[n] \in EntryRecord
<1>1. file \in Seq(Chunk) /\ FollowedSoFar
  BY DEF Inv
<1> SUFFICES ASSUME NEW n \in DOMAIN entries PROVE entries[n] \in EntryRecord
  OBVIOUS
<1>2. CurrentRecord(section_byte_offsets, n, entries[n])
  BY <1>1 DEF FollowedSoFar, Reads
<1>3. PICK i \in 1..Len(section_byte_offsets) :
        \E k \in 1..Len(Numbers(section_byte_offsets[i])) :
          entries[n] = Record(file[section_byte_offsets[i]], k)
  BY <1>2 DEF CurrentRecord
<1>4. PICK k \in 1..Len(Numbers(section_byte_offsets[i])) :
        entries[n] = Record(file[section_byte_offsets[i]], k)
  BY <1>3
<1>5. Len(section_byte_offsets) # 0
  BY <1>1, LenProperties DEF FollowedSoFar
<1>6. Decodes(section_byte_offsets[i])
  BY <1>1, <1>5 DEF FollowedSoFar, IsPath
<1>7. /\ file[section_byte_offsets[i]] \in Chunk /\ SectionDecodes(file[section_byte_offsets[i]])
      /\ k \in 1..Len(ObjectNumbers(file[section_byte_offsets[i]]))
  BY <1>1, <1>4, <1>6, DecodesIs DEF Numbers
<1>8. QED
  BY <1>4, <1>7, RecordsTyped

(* resolve_xref_object_offset, when it succeeds.                            *)
LEMMA OffsetResolved ==
  ASSUME Inv, NEW ref \in IndirectRef, ResolveOffset(ref).result = "Uncompressed"
  PROVE  /\ ref.num \in DOMAIN entries
         /\ \E o \in Nat : /\ ResolveOffset(ref).place = <<o>>
                           /\ entries[ref.num] = InUse(o, ref.gen)
                           /\ o \in DOMAIN file /\ IsObject(file[o]) /\ file[o].header = ref
<1>1. /\ Location(ref.num) = "Uncompressed" /\ entries[ref.num].field3 = ref.gen
      /\ entries[ref.num].field2 \in DOMAIN file /\ IsObject(file[entries[ref.num].field2])
      /\ file[entries[ref.num].field2].header = ref
      /\ ResolveOffset(ref).place = <<entries[ref.num].field2>>
  BY DEF ResolveOffset, Unresolved
<1>2. ref.num \in DOMAIN entries /\ entries[ref.num].type = 1
  BY <1>1 DEF Location
<1>3. entries[ref.num] \in EntryRecord
  BY <1>2, EntriesTyped
<1>4. entries[ref.num].field2 \in Nat
      /\ entries[ref.num] = InUse(entries[ref.num].field2, ref.gen)
  BY <1>1, <1>2, <1>3 DEF EntryRecord, InUse
<1>5. QED
  BY <1>1, <1>2, <1>4

(* What extract_object_stream_member took at an index of the stream at o.   *)
TakenFrom(ref, o, i) ==
  /\ file[o].header.gen = 0 /\ file[o].header.num \in DOMAIN entries
  /\ entries[file[o].header.num] = InUse(o, 0)
  /\ entries[ref.num] = MemberOf(file[o].header.num, i)
  /\ Extracts(file[o], ref.num, i)
  /\ ResolveMember(ref).place = <<o, SpanStart(file[o], i), SpanEnd(file[o], i)>>

(* resolve_compressed_object, when it succeeds.                             *)
LEMMA MemberResolved ==
  ASSUME Inv, NEW ref \in IndirectRef, Location(ref.num) = "Compressed",
         ResolveMember(ref).result = "Compressed"
  PROVE  /\ ref.num \in DOMAIN entries /\ ref.gen = 0
         /\ \E o \in DOMAIN file : \E i \in Nat \ {0} : TakenFrom(ref, o, i)
<1> DEFINE container == [num |-> entries[ref.num].field2, gen |-> 0]
           index == entries[ref.num].field3 + 1
           located == ResolveOffset(container)
           stream == file[located.place[1]]
<1>1. ResolveMember(ref) =
        IF ref.gen # 0 THEN Unresolved("CompressedObjectGenerationNotZero")
        ELSE IF container.num > MaxObjNum THEN Unresolved("ObjectStreamObjectUnresolved")
        ELSE IF located.result = "UnsupportedCompressedXrefStreamEntry"
             THEN Unresolved("ObjectStreamIsCompressed")
        ELSE IF located.result # "Uncompressed" THEN Unresolved("ObjectStreamObjectUnresolved")
        ELSE IF ~Extracts(stream, ref.num, index) THEN Unresolved("ObjectStreamMemberExtraction")
        ELSE [result |-> "Compressed",
              place |-> <<located.place[1], SpanStart(stream, index), SpanEnd(stream, index)>>]
  BY Zenon DEF ResolveMember
<1>2. container.num = entries[ref.num].field2 /\ container.gen = 0
  OBVIOUS
<1>3. ref.num \in DOMAIN entries /\ entries[ref.num].type = 2
  BY DEF Location
<1>4. entries[ref.num] \in EntryRecord
  BY <1>3, EntriesTyped
<1>5. entries[ref.num].field2 \in Nat /\ entries[ref.num].field3 \in Nat
  BY <1>4 DEF EntryRecord
<1> HIDE DEF located, stream
<1>6. /\ ref.gen = 0 /\ ~(container.num > MaxObjNum) /\ located.result = "Uncompressed"
      /\ Extracts(stream, ref.num, index)
      /\ ResolveMember(ref).place =
           <<located.place[1], SpanStart(stream, index), SpanEnd(stream, index)>>
  <2> HIDE DEF container, index
  <2>1. QED
    BY <1>1 DEF Unresolved
<1>7. container \in IndirectRef
  <2>1. MaxObjNum \in Nat /\ MaxGen \in Nat
    BY WidthsAreNat
  <2>2. entries[ref.num].field2 \in 0..MaxObjNum /\ 0 \in 0..MaxGen
    BY <1>2, <1>5, <1>6, <2>1
  <2>3. QED
    BY <2>2 DEF IndirectRef
<1> HIDE DEF container
<1>8. /\ container.num \in DOMAIN entries
      /\ \E o \in Nat : /\ located.place = <<o>> /\ entries[container.num] = InUse(o, container.gen)
                        /\ o \in DOMAIN file /\ file[o].header = container
  BY <1>6, <1>7, OffsetResolved DEF located
<1>9. PICK o \in Nat : /\ located.place = <<o>>
                       /\ entries[container.num] = InUse(o, container.gen)
                       /\ o \in DOMAIN file /\ file[o].header = container
  BY <1>8
<1>10. located.place[1] = o /\ stream = file[o]
  BY <1>9 DEF stream
<1>11. PICK i \in Nat \ {0} : i = index
  BY <1>5
<1>12. entries[ref.num] = MemberOf(container.num, i)
  BY <1>2, <1>3, <1>4, <1>5, <1>11 DEF EntryRecord, MemberOf
<1> HIDE DEF index
<1>13. TakenFrom(ref, o, i)
  BY <1>2, <1>6, <1>8, <1>9, <1>10, <1>11, <1>12 DEF TakenFrom
<1>14. QED
  BY <1>3, <1>6, <1>9, <1>13

(* The two ways in which a reference is resolved.                           *)
LEMMA TwoWays ==
  ASSUME NEW ref, Resolved(Resolve(ref))
  PROVE  \/ /\ Resolve(ref) = ResolveOffset(ref) /\ Location(ref.num) # "Compressed"
            /\ Resolve(ref).result = "Uncompressed"
         \/ /\ Resolve(ref) = ResolveMember(ref) /\ Location(ref.num) = "Compressed"
            /\ Resolve(ref).result = "Compressed"
<1>1. ResolveOffset(ref).result # "Compressed"
  BY DEF ResolveOffset, Unresolved
<1>2. ResolveMember(ref).result # "Uncompressed"
  BY DEF ResolveMember, Unresolved
<1>3. Resolve(ref) = IF Location(ref.num) = "Compressed" THEN ResolveMember(ref) ELSE ResolveOffset(ref)
  BY DEF Resolve
<1>4. QED
  BY <1>1, <1>2, <1>3 DEF Resolved

(***************************************************************************)
(* What resolve_object hands out is the object that was asked for, in the  *)
(* version the newest section that lists it names: the header found there, *)
(* or the pair in the current version of the object stream, says so.       *)
(***************************************************************************)
THEOREM ResolvedIsAlwaysTheOneAsked == Spec => []ResolvedObjectIsTheOneAsked
<1>1. Inv => ResolvedObjectIsTheOneAsked
  <2> SUFFICES ASSUME Inv, Resolved(answer) PROVE ResolvedObjectIsTheOneAsked
    BY DEF ResolvedObjectIsTheOneAsked
  <2>1. FollowedSoFar /\ Answered
    BY DEF Inv
  <2>2. PICK ref \in IndirectRef : asked = ref /\ answer = Resolve(ref)
    BY <2>1 DEF Answered
  <2>3. \A n \in DOMAIN entries : CurrentRecord(section_byte_offsets, n, entries[n])
    BY <2>1 DEF FollowedSoFar, Reads
  <2>4. CASE answer.result = "Uncompressed"
    <3>1. Resolve(ref) = ResolveOffset(ref) /\ ResolveOffset(ref).result = "Uncompressed"
      BY <2>2, <2>4, TwoWays
    <3>2. PICK o \in Nat : /\ ResolveOffset(ref).place = <<o>>
                           /\ entries[ref.num] = InUse(o, ref.gen) /\ file[o].header = ref
      BY <3>1, OffsetResolved
    <3>3. ref.num \in DOMAIN entries
      BY <3>1, OffsetResolved
    <3>4. answer.place[1] = o
      BY <2>2, <3>1, <3>2
    <3>5. CurrentRecord(section_byte_offsets, asked.num, InUse(answer.place[1], asked.gen))
      BY <2>2, <2>3, <3>2, <3>3, <3>4
    <3>6. QED
      BY <2>2, <2>4, <3>2, <3>4, <3>5 DEF ResolvedObjectIsTheOneAsked
  <2>5. CASE answer.result # "Uncompressed"
    <3>1. /\ Resolve(ref) = ResolveMember(ref) /\ ResolveMember(ref).result = "Compressed"
          /\ Location(ref.num) = "Compressed"
      BY <2>2, <2>5, TwoWays
    <3>2. ref.num \in DOMAIN entries /\ ref.gen = 0
          /\ \E o \in DOMAIN file : \E i \in Nat \ {0} : TakenFrom(ref, o, i)
      BY <3>1, MemberResolved
    <3>3. PICK o \in DOMAIN file : \E i \in Nat \ {0} : TakenFrom(ref, o, i)
      BY <3>2
    <3>4. PICK i \in Nat \ {0} : TakenFrom(ref, o, i)
      BY <3>3
    <3>5. /\ file[o].header.gen = 0 /\ file[o].header.num \in DOMAIN entries
          /\ entries[file[o].header.num] = InUse(o, 0)
          /\ entries[ref.num] = MemberOf(file[o].header.num, i)
          /\ Extracts(file[o], ref.num, i)
          /\ ResolveMember(ref).place = <<o, SpanStart(file[o], i), SpanEnd(file[o], i)>>
      BY <3>4 DEF TakenFrom
    <3>6. answer.place[1] = o /\ answer.place[2] = SpanStart(file[o], i)
      <4>1. answer.place = <<o, SpanStart(file[o], i), SpanEnd(file[o], i)>>
        BY <2>2, <3>1, <3>5
      <4>2. QED
        BY <4>1
    <3>7. /\ CurrentRecord(section_byte_offsets, file[o].header.num, InUse(o, 0))
          /\ CurrentRecord(section_byte_offsets, asked.num, MemberOf(file[o].header.num, i))
      BY <2>2, <2>3, <3>2, <3>5
    <3>8. i \in 1..file[o].count /\ file[o].decoded[2 * i - 1] = asked.num
      <4>1. i <= file[o].count /\ file[o].decoded[2 * i - 1] = asked.num
        BY <2>2, <3>5 DEF Extracts, MemberNumber
      <4>2. QED
        BY <4>1
    <3>9. file[o].first + file[o].decoded[2 * i] = answer.place[2]
      BY <3>6 DEF SpanStart, MemberOffset
    <3>10. QED
      BY <2>2, <2>5, <3>2, <3>5, <3>6, <3>7, <3>8, <3>9 DEF ResolvedObjectIsTheOneAsked
  <2>6. QED
    BY <2>4, <2>5
<1>2. QED
  BY <1>1, SpecInv, PTL

(* The offsets of an object stream that is read lie in it, and increase.    *)
LEMMA MembersInOrder ==
  ASSUME NEW stream \in Chunk, ReadableObjectStream(stream)
  PROVE  /\ stream.count \in Nat /\ stream.first \in Nat /\ Len(stream.decoded) \in Nat
         /\ \A i \in 1..stream.count :
              MemberOffset(stream, i) \in Nat /\ SpanStart(stream, i) <= Len(stream.decoded)
         /\ \A i, j \in 1..stream.count : i < j => MemberOffset(stream, i) < MemberOffset(stream, j)
<1> DEFINE off(i) == MemberOffset(stream, i)
<1>1. stream.kind = "objstm" /\ stream.count # Unreadable /\ stream.first # Unreadable
      /\ stream.decoded # Unreadable
  BY DEF ReadableObjectStream, Described, StreamDecodes
<1>2. /\ stream.count \in Nat \cup {Unreadable} /\ stream.first \in Nat \cup {Unreadable}
      /\ stream.decoded \in Seq(Cell) \cup {Unreadable}
  BY <1>1 DEF Chunk
<1>3. PICK count \in Nat, first \in Nat : count = stream.count /\ first = stream.first
  BY <1>1, <1>2
<1>4. Len(stream.decoded) \in Nat
  BY <1>1, <1>2, LenProperties
<1>5. /\ \A c \in 1..first : stream.decoded[c] \in Nat
      /\ first = 2 * count
      /\ \A i \in 1..count : first + off(i) <= Len(stream.decoded)
      /\ \A i \in 2..count : off(i) > off(i - 1)
  BY <1>3 DEF ReadableObjectStream, HeaderReads, ValidOffsets
<1>6. ASSUME NEW i \in 1..count
      PROVE  off(i) \in Nat
  <2>1. 2 * i \in 1..first
    BY <1>5
  <2>2. QED
    BY <1>5, <2>1 DEF MemberOffset
<1> HIDE DEF off
<1>7. ASSUME NEW i \in 1..count, NEW j \in 1..count, i < j
      PROVE  off(i) < off(j)
  <2> DEFINE Bad == {k \in 1..count : i < k /\ ~(off(i) < off(k))}
  <2>1. ASSUME Bad # {}
        PROVE  FALSE
    <3>1. PICK k \in Bad : \A h \in Bad : k <= h
      <4>1. Bad \in SUBSET Nat
        OBVIOUS
      <4> HIDE DEF Bad
      <4>2. QED
        BY <2>1, <4>1, LeastElement
    <3>2. k \in 1..count /\ i < k /\ ~(off(i) < off(k))
      OBVIOUS
    <3>3. k \in 2..count /\ k - 1 \in 1..count /\ ~(k <= k - 1)
      BY <3>2
    <3>4. off(k - 1) < off(k) /\ off(k - 1) \in Nat /\ off(k) \in Nat /\ off(i) \in Nat
      <4>1. off(k) > off(k - 1)
        BY <1>5, <3>3
      <4>2. off(k - 1) \in Nat /\ off(k) \in Nat /\ off(i) \in Nat
        BY <1>6, <3>2, <3>3
      <4>3. QED
        BY <4>1, <4>2
    <3>5. CASE k - 1 = i
      BY <3>2, <3>4, <3>5
    <3>6. CASE k - 1 # i
      <4>1. i < k - 1
        BY <3>2, <3>3, <3>6
      <4>2. k - 1 \notin Bad
        <5> HIDE DEF Bad
        <5>1. QED
          BY <3>1, <3>3
      <4>3. off(i) < off(k - 1)
        BY <3>3, <4>1, <4>2
      <4>4. QED
        BY <3>2, <3>4, <4>3
    <3>7. QED
      BY <3>5, <3>6
  <2>2. QED
    BY <1>7, <2>1
<1>8. \A i \in 1..count : SpanStart(stream, i) <= Len(stream.decoded)
  BY <1>3, <1>5 DEF SpanStart, off
<1>9. QED
  BY <1>3, <1>4, <1>6, <1>7, <1>8 DEF off

(* The span of a member lies behind the header of its stream, and ends      *)
(* before the next ones begin.                                              *)
LEMMA SpansInOrder ==
  ASSUME NEW stream \in Chunk, NEW n, NEW i \in Nat \ {0}, Extracts(stream, n, i)
  PROVE  /\ i \in 1..stream.count /\ stream.first \in Nat /\ Len(stream.decoded) \in Nat
         /\ SpanStart(stream, i) \in Nat /\ SpanEnd(stream, i) \in Nat
         /\ stream.first <= SpanStart(stream, i) /\ SpanStart(stream, i) <= SpanEnd(stream, i)
         /\ SpanEnd(stream, i) <= Len(stream.decoded)
         /\ \A j \in 1..stream.count : i < j => SpanEnd(stream, i) <= SpanStart(stream, j)
<1>1. ReadableObjectStream(stream) /\ i <= stream.count
  BY DEF Extracts
<1>2. PICK count \in Nat, first \in Nat, last \in Nat :
        count = stream.count /\ first = stream.first /\ last = Len(stream.decoded)
  BY <1>1, MembersInOrder
<1> DEFINE off(j) == MemberOffset(stream, j)
<1>3. /\ \A j \in 1..count : off(j) \in Nat /\ SpanStart(stream, j) <= last
      /\ \A j, k \in 1..count : j < k => off(j) < off(k)
  BY <1>1, <1>2, MembersInOrder
<1>4. i \in 1..count
  BY <1>1, <1>2
<1>5. \A j \in 1..count : SpanStart(stream, j) = first + off(j)
  BY <1>2 DEF SpanStart
<1>6. SpanEnd(stream, i) = IF i < count THEN SpanStart(stream, i + 1) ELSE last
  BY <1>2 DEF SpanEnd
<1> HIDE DEF off
<1>7. SpanStart(stream, i) \in Nat /\ first <= SpanStart(stream, i) /\ SpanStart(stream, i) <= last
  BY <1>3, <1>4, <1>5
<1>8. CASE i < count
  <2>1. i + 1 \in 1..count /\ i < i + 1
    BY <1>4, <1>8
  <2>2. SpanEnd(stream, i) = first + off(i + 1) /\ off(i) < off(i + 1) /\ off(i + 1) \in Nat
        /\ off(i) \in Nat /\ SpanEnd(stream, i) <= last
    BY <1>3, <1>4, <1>5, <1>6, <1>8, <2>1
  <2>3. ASSUME NEW j \in 1..count, i < j
        PROVE  SpanEnd(stream, i) <= SpanStart(stream, j)
    <3>1. j = i + 1 \/ i + 1 < j
      BY <1>4, <2>3
    <3>2. SpanStart(stream, j) = first + off(j) /\ off(j) \in Nat
      BY <1>3, <1>5
    <3>3. CASE j = i + 1
      BY <2>2, <3>2, <3>3
    <3>4. CASE i + 1 < j
      <4>1. off(i + 1) < off(j)
        BY <1>3, <2>1, <3>4
      <4>2. QED
        BY <2>2, <3>2, <4>1
    <3>5. QED
      BY <3>1, <3>3, <3>4
  <2>4. SpanEnd(stream, i) \in Nat /\ SpanStart(stream, i) <= SpanEnd(stream, i)
    BY <1>4, <1>5, <2>2
  <2>5. QED
    BY <1>2, <1>4, <1>7, <2>2, <2>3, <2>4
<1>9. CASE ~(i < count)
  <2>1. SpanEnd(stream, i) = last
    BY <1>6, <1>9
  <2>2. \A j \in 1..count : ~(i < j)
    BY <1>4, <1>9
  <2>3. QED
    BY <1>2, <1>4, <1>7, <2>1, <2>2
<1>10. QED
  BY <1>8, <1>9

(* Where a resolved reference leads.                                        *)
LEMMA WhereResolved ==
  ASSUME Inv, NEW ref \in IndirectRef, Resolved(Resolve(ref))
  PROVE  \/ /\ Resolve(ref).result = "Uncompressed"
            /\ \E o \in Nat : Resolve(ref).place = <<o>> /\ file[o].header = ref
         \/ /\ Resolve(ref).result = "Compressed" /\ ref.gen = 0
            /\ \E o \in DOMAIN file : \E i \in Nat \ {0} :
                 /\ Resolve(ref).place = <<o, SpanStart(file[o], i), SpanEnd(file[o], i)>>
                 /\ Extracts(file[o], ref.num, i)
<1>1. CASE Resolve(ref).result = "Uncompressed"
  <2>1. Resolve(ref) = ResolveOffset(ref) /\ ResolveOffset(ref).result = "Uncompressed"
    BY <1>1, TwoWays
  <2>2. QED
    BY <1>1, <2>1, OffsetResolved
<1>2. CASE Resolve(ref).result # "Uncompressed"
  <2>1. /\ Resolve(ref) = ResolveMember(ref) /\ ResolveMember(ref).result = "Compressed"
        /\ Location(ref.num) = "Compressed"
    BY <1>2, TwoWays
  <2>2. ref.gen = 0 /\ \E o \in DOMAIN file : \E i \in Nat \ {0} : TakenFrom(ref, o, i)
    BY <2>1, MemberResolved
  <2>3. QED
    BY <2>1, <2>2 DEF TakenFrom
<1>3. QED
  BY <1>1, <1>2

(* Two references that lead to overlapping places are the same.             *)
LEMMA ApartFromOthers ==
  ASSUME Inv, NEW r \in IndirectRef, NEW q \in IndirectRef,
         Resolved(Resolve(r)), Resolved(Resolve(q)), Overlap(Resolve(r).place, Resolve(q).place)
  PROVE  r = q
<1> DEFINE rp == Resolve(r).place
           qp == Resolve(q).place
<1>1. Len(rp) = Len(qp) /\ rp[1] = qp[1]
      /\ (Len(rp) = 3 => rp[2] < qp[3] /\ qp[2] < rp[3])
  BY DEF Overlap
<1>2. file \in Seq(Chunk)
  BY DEF Inv
<1>3. CASE Resolve(r).result = "Uncompressed"
  <2>1. PICK o \in Nat : rp = <<o>> /\ file[o].header = r
    BY <1>3, WhereResolved
  <2>2. Len(qp) = 1
    BY <1>1, <2>1
  <2>3. Resolve(q).result = "Uncompressed"
    <3>1. Resolve(q).result # "Compressed"
      <4>1. ASSUME Resolve(q).result = "Compressed"
            PROVE  FALSE
        <5>1. PICK e \in DOMAIN file : \E i \in Nat \ {0} :
                qp = <<e, SpanStart(file[e], i), SpanEnd(file[e], i)>>
          BY <4>1, WhereResolved
        <5>2. Len(qp) = 3
          BY <5>1
        <5>3. QED
          BY <2>2, <5>2
      <4>2. QED
        BY <4>1
    <3>2. QED
      BY <3>1 DEF Resolved
  <2>4. PICK e \in Nat : qp = <<e>> /\ file[e].header = q
    BY <2>3, WhereResolved
  <2>5. o = e
    BY <1>1, <2>1, <2>4
  <2>6. QED
    BY <2>1, <2>4, <2>5
<1>4. CASE Resolve(r).result # "Uncompressed"
  <2>1. Resolve(r).result = "Compressed"
    BY <1>4 DEF Resolved
  <2>2. r.gen = 0 /\ \E o \in DOMAIN file : \E i \in Nat \ {0} :
          rp = <<o, SpanStart(file[o], i), SpanEnd(file[o], i)>> /\ Extracts(file[o], r.num, i)
    BY <2>1, WhereResolved
  <2>3. PICK o \in DOMAIN file : \E i \in Nat \ {0} :
          rp = <<o, SpanStart(file[o], i), SpanEnd(file[o], i)>> /\ Extracts(file[o], r.num, i)
    BY <2>2
  <2>4. PICK i \in Nat \ {0} :
          rp = <<o, SpanStart(file[o], i), SpanEnd(file[o], i)>> /\ Extracts(file[o], r.num, i)
    BY <2>3
  <2>5. Len(rp) = 3 /\ rp[1] = o /\ rp[2] = SpanStart(file[o], i) /\ rp[3] = SpanEnd(file[o], i)
    BY <2>4
  <2>6. Resolve(q).result = "Compressed"
    <3>1. ASSUME Resolve(q).result = "Uncompressed"
          PROVE  FALSE
      <4>1. PICK e \in Nat : qp = <<e>>
        BY <3>1, WhereResolved
      <4>2. Len(qp) = 1
        BY <4>1
      <4> HIDE DEF rp, qp
      <4>3. Len(rp) = Len(qp) /\ Len(rp) = 3
        BY <1>1, <2>5
      <4>4. QED
        BY <4>2, <4>3
    <3>2. QED
      BY <3>1 DEF Resolved
  <2>7. q.gen = 0 /\ \E e \in DOMAIN file : \E j \in Nat \ {0} :
          qp = <<e, SpanStart(file[e], j), SpanEnd(file[e], j)>> /\ Extracts(file[e], q.num, j)
    BY <2>6, WhereResolved
  <2>8. PICK e \in DOMAIN file : \E j \in Nat \ {0} :
          qp = <<e, SpanStart(file[e], j), SpanEnd(file[e], j)>> /\ Extracts(file[e], q.num, j)
    BY <2>7
  <2>9. PICK j \in Nat \ {0} :
          qp = <<e, SpanStart(file[e], j), SpanEnd(file[e], j)>> /\ Extracts(file[e], q.num, j)
    BY <2>8
  <2>10. qp[1] = e /\ qp[2] = SpanStart(file[e], j) /\ qp[3] = SpanEnd(file[e], j)
    BY <2>9
  <2>11. o = e
    BY <1>1, <2>5, <2>10
  <2>12. file[o] \in Chunk
    <3>1. DOMAIN file = 1..Len(file)
      BY <1>2, LenProperties
    <3>2. QED
      BY <1>2, <3>1, ElementOfSeq
  <2>13. Extracts(file[o], r.num, i) /\ Extracts(file[o], q.num, j)
    BY <2>4, <2>9, <2>11
  <2>14. /\ i \in 1..file[o].count /\ j \in 1..file[o].count
         /\ SpanStart(file[o], i) \in Nat /\ SpanEnd(file[o], i) \in Nat
         /\ SpanStart(file[o], j) \in Nat /\ SpanEnd(file[o], j) \in Nat
         /\ i < j => SpanEnd(file[o], i) <= SpanStart(file[o], j)
         /\ j < i => SpanEnd(file[o], j) <= SpanStart(file[o], i)
    BY <2>12, <2>13, SpansInOrder
  <2>15. SpanStart(file[o], i) < SpanEnd(file[o], j) /\ SpanStart(file[o], j) < SpanEnd(file[o], i)
    BY <1>1, <2>5, <2>10, <2>11
  <2>16. i = j
    BY <2>14, <2>15
  <2>17. r.num = q.num
    BY <2>13, <2>16 DEF Extracts
  <2>18. QED
    BY <2>2, <2>7, <2>17 DEF IndirectRef
<1>5. QED
  BY <1>3, <1>4

(***************************************************************************)
(* The spans of object-stream members can be sliced, lie behind the header *)
(* of their stream, and are disjoint; no two references resolve to the     *)
(* same bytes (extract_object_stream_member, resolve_object).              *)
(***************************************************************************)
THEOREM MembersAreAlwaysApart == Spec => []MembersAreApart
<1>1. Inv => MembersAreApart
  <2> SUFFICES ASSUME Inv, NEW r \in References, Resolved(Resolve(r))
               PROVE  /\ Resolve(r).result = "Compressed" =>
                           /\ file[Resolve(r).place[1]].first <= Resolve(r).place[2]
                           /\ Resolve(r).place[2] <= Resolve(r).place[3]
                           /\ Resolve(r).place[3] <= Len(file[Resolve(r).place[1]].decoded)
                      /\ \A q \in References \ {r} :
                           Resolved(Resolve(q)) => ~Overlap(Resolve(r).place, Resolve(q).place)
    BY DEF MembersAreApart
  <2>1. r \in IndirectRef /\ file \in Seq(Chunk)
    BY ReferencesAreRefs DEF Inv
  <2>2. ASSUME Resolve(r).result = "Compressed"
        PROVE  /\ file[Resolve(r).place[1]].first <= Resolve(r).place[2]
               /\ Resolve(r).place[2] <= Resolve(r).place[3]
               /\ Resolve(r).place[3] <= Len(file[Resolve(r).place[1]].decoded)
    <3>1. PICK o \in DOMAIN file : \E i \in Nat \ {0} :
            /\ Resolve(r).place = <<o, SpanStart(file[o], i), SpanEnd(file[o], i)>>
            /\ Extracts(file[o], r.num, i)
      BY <2>1, <2>2, WhereResolved
    <3>2. PICK i \in Nat \ {0} :
            /\ Resolve(r).place = <<o, SpanStart(file[o], i), SpanEnd(file[o], i)>>
            /\ Extracts(file[o], r.num, i)
      BY <3>1
    <3>3. Resolve(r).place[1] = o /\ Resolve(r).place[2] = SpanStart(file[o], i)
          /\ Resolve(r).place[3] = SpanEnd(file[o], i)
      BY <3>2
    <3>4. file[o] \in Chunk
      <4>1. DOMAIN file = 1..Len(file)
        BY <2>1, LenProperties
      <4>2. QED
        BY <2>1, <4>1, ElementOfSeq
    <3>5. /\ file[o].first <= SpanStart(file[o], i)
          /\ SpanStart(file[o], i) <= SpanEnd(file[o], i)
          /\ SpanEnd(file[o], i) <= Len(file[o].decoded)
      BY <3>2, <3>4, SpansInOrder
    <3>6. QED
      BY <3>3, <3>5
  <2>3. \A q \in References \ {r} :
          Resolved(Resolve(q)) => ~Overlap(Resolve(r).place, Resolve(q).place)
    BY <2>1, ReferencesAreRefs, ApartFromOthers
  <2>4. QED
    BY <2>2, <2>3
<1>2. QED
  BY <1>1, SpecInv, PTL

=============================================================================
