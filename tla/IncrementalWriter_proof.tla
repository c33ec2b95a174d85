----------------------- MODULE IncrementalWriter_proof -----------------------
(***************************************************************************)
(* Proofs about the incremental writer, for every value of the constants.  *)
(* First the chain: merging the next section keeps the builder's map equal *)
(* to the reference definition of newest-wins.  The inductive invariant is *)
(* TypeOK together with BuilderFollowsDocument: neither is inductive       *)
(* alone, since the type of the appended trailer's /Root needs the builder *)
(* to have opened a section.  RInv adds the limits a build has checked, so *)
(* that a revised document can be refused for its length alone.            *)
(***************************************************************************)
EXTENDS IncrementalWriter, ProofFacts

(* One element put before a sequence.                                       *)
LEMMA PrependProperties ==
  ASSUME NEW S, NEW e \in S, NEW t \in Seq(S)
  PROVE  /\ <<e>> \o t \in Seq(S) /\ Len(<<e>> \o t) = Len(t) + 1
         /\ (<<e>> \o t)[1] = e
         /\ \A i \in 1 .. Len(t) : (<<e>> \o t)[i + 1] = t[i]
<1> DEFINE front == <<e>>
<1>0. Len(t) \in Nat
  BY LenProperties
<1>1. front \in Seq(S) /\ Len(front) = 1 /\ front[1] = e /\ Len(t) \in Nat
  BY <1>0
<1> HIDE DEF front
<1>2. /\ front \o t \in Seq(S) /\ Len(front \o t) = 1 + Len(t)
      /\ \A i \in 1 .. 1 + Len(t) :
           (front \o t)[i] = IF i <= 1 THEN front[i] ELSE t[i - 1]
  <2>1. /\ front \o t \in Seq(S) /\ Len(front \o t) = Len(front) + Len(t)
        /\ \A i \in 1 .. Len(front) + Len(t) :
             (front \o t)[i] = IF i <= Len(front) THEN front[i] ELSE t[i - Len(front)]
    BY <1>1, ConcatProperties, Zenon
  <2>2. QED
    BY <1>1, <2>1
<1>3. (front \o t)[1] = e
  BY <1>1, <1>2
<1>4. ASSUME NEW i \in 1 .. Len(t) PROVE (front \o t)[i + 1] = t[i]
  <2>1. i + 1 \in 1 .. 1 + Len(t) /\ ~ (i + 1 <= 1) /\ i + 1 - 1 = i
    BY <1>1
  <2>2. QED
    BY <1>2, <2>1
<1>5. Len(front \o t) = Len(t) + 1
  BY <1>1, <1>2
<1>6. QED
  BY <1>2, <1>3, <1>4, <1>5 DEF front

(* The chunk at a table offset is a table chunk.                            *)
LEMMA TableAtOffset ==
  ASSUME NEW f \in Seq(Chunk), NEW o \in TableOffsets(f)
  PROVE  f[o] \in TableChunk /\ o \in DOMAIN f /\ o \in Nat \ {0}
<1>1. o \in 1 .. Len(f) /\ f[o] \in Chunk
  BY ElementOfSeq DEF TableOffsets
<1>2. QED
  BY <1>1 DEF TableOffsets, Chunk, ObjectChunk, TableChunk, OtherChunk

(* The first entry for a declared number is an entry for that number, and   *)
(* the earliest one.                                                        *)
LEMMA FirstEntryCorrect ==
  ASSUME NEW t \in TableChunk, NEW n, Declares(t, n)
  PROVE  /\ FirstEntry(t, n) \in Entry
         /\ FirstEntry(t, n).num = n
<1> DEFINE S == EntryIndexes(t, n)
<1>1. t.entries \in Seq(Entry)
  BY DEF TableChunk
<1>2. S \in SUBSET Nat /\ S # {}
  BY <1>1 DEF Declares, EntryIndexes
<1>3. \E i \in S : \A j \in S : i <= j
  BY <1>2, LeastElement
<1>4. (CHOOSE i \in S : \A j \in S : i <= j) \in S
  BY <1>3
<1>5. QED
  BY <1>1, <1>4, ElementOfSeq DEF FirstEntry, EntryIndexes

(* No entry is a sentinel.                                                  *)
LEMMA EntriesAreNotSentinels == Absent \notin Entry /\ Ambiguous \notin Entry
  BY SentinelAssumption

(* The reference definition over one section more.                          *)
LEMMA NewestWinsAppend ==
  ASSUME NEW f \in Seq(Chunk), NEW K \in Seq(TableOffsets(f)),
         NEW o \in TableOffsets(f), NEW n
  PROVE  NewestWins(f, Append(K, o), n) =
           IF NewestWins(f, K, n) # Absent THEN NewestWins(f, K, n)
           ELSE IF Declares(f[o], n) THEN FirstEntry(f[o], n) ELSE Absent
<1> DEFINE S == NewestIndexes(f, K, n)
           T == NewestIndexes(f, Append(K, o), n)
           min(X) == CHOOSE i \in X : \A j \in X : i <= j
<1>1. /\ Len(K) \in Nat /\ Len(Append(K, o)) = Len(K) + 1
      /\ \A i \in 1 .. Len(K) : Append(K, o)[i] = K[i]
      /\ Append(K, o)[Len(K) + 1] = o
  OBVIOUS
<1>2. T = S \cup (IF Declares(f[o], n) THEN {Len(K) + 1} ELSE {})
  BY <1>1 DEF NewestIndexes
<1>3. S \in SUBSET (1 .. Len(K))
  BY DEF NewestIndexes
<1>4. CASE S # {}
  <2>1. PICK m \in S : \A j \in S : m <= j
    BY <1>1, <1>3, <1>4, LeastElement
  <2>2. m \in T /\ \A j \in T : m <= j
    BY <1>1, <1>2, <1>3, <2>1
  <2>3. min(S) = m
    BY <1>1, <1>3, <2>1
  <2>4. min(T) = m
    <3>1. T \in SUBSET Nat
      BY <1>1, <1>2, <1>3
    <3>2. \A i \in T : (\A j \in T : i <= j) => i = m
      BY <2>2, <3>1
    <3>3. QED
      BY <2>2, <3>2
  <2>5. f[K[m]] \in TableChunk /\ Declares(f[K[m]], n)
    BY <1>3, <2>1, TableAtOffset, ElementOfSeq DEF NewestIndexes
  <2>6. NewestWins(f, K, n) = FirstEntry(f[K[m]], n)
    BY <1>4, <2>3 DEF NewestWins
  <2>7. NewestWins(f, Append(K, o), n) = FirstEntry(f[Append(K, o)[m]], n)
    BY <2>2, <2>4 DEF NewestWins
  <2>8. Append(K, o)[m] = K[m]
    BY <1>1, <1>3, <2>1
  <2>9. FirstEntry(f[K[m]], n) # Absent
    BY <2>5, FirstEntryCorrect, EntriesAreNotSentinels
  <2>10. QED
    BY <2>6, <2>7, <2>8, <2>9
<1>5. CASE S = {} /\ Declares(f[o], n)
  <2>1. T = {Len(K) + 1} /\ min(T) = Len(K) + 1
    BY <1>1, <1>2, <1>5
  <2>2. NewestWins(f, K, n) = Absent
    BY <1>5 DEF NewestWins
  <2>3. NewestWins(f, Append(K, o), n) = FirstEntry(f[o], n)
    BY <1>1, <2>1 DEF NewestWins
  <2>4. QED
    BY <1>5, <2>2, <2>3
<1>6. CASE S = {} /\ ~ Declares(f[o], n)
  BY <1>2, <1>6 DEF NewestWins
<1>7. QED
  BY <1>4, <1>5, <1>6

(* A chain with one newer section, in a file that keeps the older ones.     *)
Prepends(f, K, g, L) ==
  /\ Len(K) \in Nat
  /\ Len(L) = Len(K) + 1
  /\ \A i \in 1 .. Len(K) : L[i + 1] = K[i] /\ g[K[i]] = f[K[i]]

(* The reference definition over such a chain.                              *)
LEMMA NewestWinsPrepend ==
  ASSUME NEW f, NEW g, NEW n, NEW K, NEW L, Prepends(f, K, g, L)
  PROVE  /\ Declares(g[L[1]], n) => NewestWins(g, L, n) = FirstEntry(g[L[1]], n)
         /\ ~ Declares(g[L[1]], n) => NewestWins(g, L, n) = NewestWins(f, K, n)
<1> DEFINE S == NewestIndexes(f, K, n)
           T == NewestIndexes(g, L, n)
           least(I) == CHOOSE i \in I : \A j \in I : i <= j
<1>0. /\ Len(K) \in Nat
      /\ Len(L) = Len(K) + 1
      /\ \A i \in 1 .. Len(K) : L[i + 1] = K[i]
      /\ \A i \in 1 .. Len(K) : g[K[i]] = f[K[i]]
  BY DEF Prepends
<1>1. S \subseteq 1 .. Len(K) /\ T \subseteq 1 .. Len(K) + 1
  BY <1>0 DEF NewestIndexes
<1>2. 1 \in T <=> Declares(g[L[1]], n)
  BY <1>0 DEF NewestIndexes
<1>3. \A i \in 1 .. Len(K) : i + 1 \in T <=> i \in S
  BY <1>0 DEF NewestIndexes
<1>4. CASE Declares(g[L[1]], n)
  <2>1. \A i \in T : (\A j \in T : i <= j) <=> i = 1
    BY <1>0, <1>1, <1>2, <1>4
  <2> HIDE DEF T
  <2>2. least(T) = 1
    BY <1>2, <1>4, <2>1
  <2>3. NewestWins(g, L, n) = FirstEntry(g[L[least(T)]], n)
    BY <1>2, <1>4 DEF NewestWins, T
  <2>4. QED
    BY <1>4, <2>2, <2>3
<1>5. CASE ~ Declares(g[L[1]], n) /\ S = {}
  <2>1. T = {}
    <3>1. \A i \in 1 .. Len(K) + 1 : i = 1 \/ (i - 1 \in 1 .. Len(K) /\ (i - 1) + 1 = i)
      BY <1>0
    <3>2. QED
      BY <1>0, <1>1, <1>2, <1>3, <1>5, <3>1
  <2>2. QED
    BY <1>5, <2>1 DEF NewestWins
<1>6. CASE ~ Declares(g[L[1]], n) /\ S # {}
  <2>1. PICK m \in S : \A j \in S : m <= j
    <3>1. S \in SUBSET Nat
      BY <1>1
    <3>2. QED
      BY <3>1, <1>6, LeastElement
  <2>2. \A i \in S : (\A j \in S : i <= j) <=> i = m
    BY <1>1, <2>1
  <2>3. m + 1 \in T /\ \A i \in T : m + 1 <= i
    <3>1. \A i \in T : i - 1 \in S
      BY <1>0, <1>1, <1>2, <1>3, <1>6
    <3>2. QED
      BY <1>0, <1>1, <1>3, <2>1, <3>1
  <2>4. \A i \in T : (\A j \in T : i <= j) <=> i = m + 1
    BY <1>0, <1>1, <2>1, <2>3
  <2>5. least(S) = m /\ least(T) = m + 1
    BY <2>1, <2>2, <2>3, <2>4
  <2>6. g[L[m + 1]] = f[K[m]]
    <3>1. m \in 1 .. Len(K)
      BY <1>1, <2>1
    <3>2. QED
      BY <1>0, <3>1
  <2>7. NewestWins(g, L, n) = FirstEntry(g[L[m + 1]], n)
    BY <2>3, <2>5 DEF NewestWins
  <2>8. NewestWins(f, K, n) = FirstEntry(f[K[m]], n)
    BY <1>6, <2>5 DEF NewestWins
  <2>9. QED
    BY <1>6, <2>6, <2>7, <2>8
<1>7. QED
  BY <1>4, <1>5, <1>6

(* The reference definition gives an entry for the number, or nothing.      *)
LEMMA NewestWinsType ==
  ASSUME NEW f \in Seq(Chunk), NEW K \in Seq(TableOffsets(f)), NEW n
  PROVE  /\ NewestWins(f, K, n) \in Entry \cup {Absent}
         /\ NewestWins(f, K, n) = Absent <=> NewestIndexes(f, K, n) = {}
         /\ NewestWins(f, K, n) # Absent => NewestWins(f, K, n).num = n
<1> DEFINE S == NewestIndexes(f, K, n)
<1>1. CASE S = {}
  BY <1>1 DEF NewestWins
<1>2. CASE S # {}
  <2>1. S \in SUBSET (1 .. Len(K)) /\ Len(K) \in Nat
    BY DEF NewestIndexes
  <2>2. PICK m \in S : m = (CHOOSE i \in S : \A j \in S : i <= j)
    BY <1>2, <2>1, LeastElement
  <2>3. f[K[m]] \in TableChunk /\ Declares(f[K[m]], n)
    BY <2>1, <2>2, TableAtOffset, ElementOfSeq DEF NewestIndexes
  <2>4. NewestWins(f, K, n) = FirstEntry(f[K[m]], n)
    BY <1>2, <2>2 DEF NewestWins
  <2>5. QED
    BY <1>2, <2>3, <2>4, FirstEntryCorrect, EntriesAreNotSentinels
<1>3. QED
  BY <1>1, <1>2

(* merge_section_entries returns entries, and keeps newest-wins.            *)
LEMMA MergeSectionCorrect ==
  ASSUME NEW f \in Seq(Chunk), NEW K \in Seq(TableOffsets(f)),
         NEW o \in TableOffsets(f), NEW m \in [ObjNums -> Entry \cup {Absent}],
         \A n \in ObjNums : m[n] = NewestWins(f, K, n)
  PROVE  /\ MergeSection(m, f[o]) \in [ObjNums -> Entry \cup {Absent}]
         /\ \A n \in ObjNums :
              MergeSection(m, f[o])[n] = NewestWins(f, Append(K, o), n)
<1>1. f[o] \in TableChunk
  BY TableAtOffset
<1>2. ASSUME NEW n \in ObjNums
      PROVE  /\ MergeSection(m, f[o])[n] = NewestWins(f, Append(K, o), n)
             /\ MergeSection(m, f[o])[n] \in Entry \cup {Absent}
  <2>1. MergeSection(m, f[o])[n] =
          IF m[n] # Absent THEN m[n]
          ELSE IF Declares(f[o], n) THEN FirstEntry(f[o], n) ELSE Absent
    BY DEF MergeSection
  <2>2. MergeSection(m, f[o])[n] = NewestWins(f, Append(K, o), n)
    BY <2>1, NewestWinsAppend
  <2>3. QED
    BY <1>1, <2>1, <2>2, FirstEntryCorrect
<1>3. QED
  BY <1>2 DEF MergeSection

-----------------------------------------------------------------------------
IInv == TypeOK /\ BuilderFollowsDocument

USE MaxObjNumAssumption, SentinelAssumption, ChainLimitsAssumption,
    CallerAssumption

-----------------------------------------------------------------------------
(* Lemmas about single states.                                              *)

(* A section the builder does not refuse is a table it has not seen.        *)
LEMMA AcceptedSection ==
  ASSUME TypeOK, NEW o, SectionRejection(o) = "none"
  PROVE  /\ o \in TableOffsets(file)
         /\ Len(section_byte_offsets) < MaxSections
         /\ o \notin Visited
         /\ root_reference = Absent => file[o].root # Unreadable
<1>1. /\ o \in DOMAIN file /\ SectionKind(file, o) = "Table"
      /\ file[o].kind # "badtable"
  BY DEF SectionRejection, SectionKind
<1>2. file[o] \in Chunk
  BY <1>1, LenProperties, ElementOfSeq DEF TypeOK
<1>3. file[o].kind = "table"
  BY <1>1, <1>2 DEF SectionKind, Chunk, ObjectChunk, TableChunk, OtherChunk
<1>4. QED
  BY <1>1, <1>3 DEF SectionRejection, TableOffsets, TypeOK

(* A newest section that open or write accepts is a table.                  *)
LEMMA AcceptedHead ==
  ASSUME TypeOK, OpenRejection = "none" \/ WriteRejection = "none"
  PROVE  startxref # Absent /\ startxref \in TableOffsets(file)
<1>1. /\ startxref # Absent /\ SectionKind(file, startxref) = "Table"
      /\ startxref \in DOMAIN file /\ file[startxref].kind # "badtable"
  BY DEF OpenRejection, WriteRejection, SectionKind
<1>2. file[startxref] \in Chunk
  BY <1>1, LenProperties, ElementOfSeq DEF TypeOK
<1>3. QED
  BY <1>1, <1>2
     DEF SectionKind, Chunk, ObjectChunk, TableChunk, OtherChunk, TableOffsets

(* Every chain of the file is among Chains, if it is short enough.          *)
LEMMA ChainsComplete ==
  ASSUME NEW f, NEW start, NEW K \in Seq(TableOffsets(f)), NEW bound \in Nat,
         IsChain(f, start, K), Len(K) <= bound
  PROVE  K \in Chains(f, start, bound)
<1>1. K \in [1 .. Len(K) -> TableOffsets(f)] /\ Len(K) \in 1 .. bound
  BY LenProperties DEF IsChain
<1>2. QED
  BY <1>1 DEF Chains

(* The chain of a document is a sequence of table offsets.                  *)
LEMMA ChainOfTables ==
  ASSUME NEW f, NEW start, NEW K \in Seq(Nat), IsChain(f, start, K)
  PROVE  K \in Seq(TableOffsets(f)) /\ start \in TableOffsets(f)
<1>1. K \in [1 .. Len(K) -> TableOffsets(f)] /\ Len(K) \in Nat
  BY LenProperties DEF IsChain
<1>2. QED
  BY <1>1, SeqDef DEF IsChain

(* The sections followed are offsets of tables.                             *)
LEMMA FollowedTables ==
  ASSUME IInv, build # "idle"
  PROVE  section_byte_offsets \in Seq(TableOffsets(file))
<1>1. /\ section_byte_offsets \in [1 .. Len(section_byte_offsets) -> TableOffsets(file)]
      /\ Len(section_byte_offsets) \in Nat
  BY LenProperties DEF IInv, TypeOK, BuilderFollowsDocument, FollowedSectionsLinked
<1>2. QED
  BY <1>1, SeqDef

(* A build that ends has followed the chain of the document, so the file    *)
(* has one.                                                                 *)
LEMMA BuiltChain ==
  ASSUME IInv, build = "built"
  PROVE  /\ document # <<>>
         /\ section_byte_offsets = document
         /\ IsChain(file, startxref, document)
         /\ startxref \in TableOffsets(file)
         /\ root_reference = file[startxref].root
         /\ root_reference \in ObjNums
<1> DEFINE K == section_byte_offsets
<1>1. /\ next_offset = Absent
      /\ FollowedSectionsLinked /\ FollowedSectionsOfDocument
      /\ K \in Seq(Nat) /\ Len(K) \in Nat /\ document \in Seq(Nat)
      /\ file \in Seq(Chunk)
  BY LenProperties DEF IInv, TypeOK, BuilderFollowsDocument
<1>2. K \in Seq(TableOffsets(file))
  BY FollowedTables
<1>3. K # <<>> /\ Len(K) >= 1
  BY <1>1, EmptySeq DEF FollowedSectionsLinked
<1>4. IsChain(file, startxref, K)
  BY <1>1, <1>3 DEF FollowedSectionsLinked, IsChain
<1>5. document # <<>>
  <2>1. K \in Chains(file, startxref, MaxSections + 1)
    BY <1>1, <1>2, <1>4, ChainsComplete DEF FollowedSectionsLinked
  <2>2. QED
    BY <2>1 DEF IInv, BuilderFollowsDocument
<1>6. IsChain(file, startxref, document)
  BY <1>5 DEF IInv, BuilderFollowsDocument
<1>7. Len(K) = Len(document)
  <2>1. Len(K) <= Len(document) /\ \A i \in 1 .. Len(K) : K[i] = document[i]
    BY <1>1, <1>5 DEF FollowedSectionsOfDocument
  <2>2. file[K[Len(K)]].prev = Absent
    BY <1>1, <1>3 DEF FollowedSectionsLinked
  <2>3. ASSUME Len(K) < Len(document) PROVE FALSE
    <3>1. file[document[Len(K)]].prev = document[Len(K) + 1]
      BY <1>1, <1>3, <1>6, <2>1, <2>3 DEF IsChain
    <3>2. document[Len(K) + 1] \in Nat
      BY <1>1, <2>3, ElementOfSeq, LenProperties
    <3>3. K[Len(K)] = document[Len(K)]
      BY <1>1, <1>3, <2>1
    <3>4. document[Len(K) + 1] = Absent
      BY <2>2, <3>1, <3>3
    <3>5. QED
      BY <3>2, <3>4
  <2>4. QED
    BY <1>1, <2>1, <2>3, LenProperties
<1>8. K = document
  BY <1>1, <1>5, <1>7, SeqEqual DEF FollowedSectionsOfDocument
<1>9. startxref \in TableOffsets(file) /\ root_reference = file[startxref].root
      /\ root_reference # Unreadable
  BY <1>1, <1>3 DEF FollowedSectionsLinked
<1>10. root_reference \in ObjNums
  BY <1>1, <1>9, TableAtOffset DEF TableChunk
<1>11. QED
  BY <1>5, <1>6, <1>8, <1>9, <1>10

-----------------------------------------------------------------------------
(* The invariant holds initially and is kept by every action.               *)

LEMMA InitIInv == Init => IInv
<1> SUFFICES ASSUME Init PROVE IInv
  OBVIOUS
<1>1. file \in Seq(Chunk) /\ startxref \in Nat \cup {Absent}
  BY DEF Init
<1>2. /\ document \in Seq(Nat)
      /\ IF document = <<>> THEN Chains(file, startxref, MaxSections + 1) = {}
         ELSE IsChain(file, startxref, document)
  <2>1. CASE Chains(file, startxref, MaxSections + 1) = {}
    <3>1. document = <<>>
      BY <2>1 DEF Init
    <3>2. QED
      BY <2>1, <3>1, EmptySeq
  <2>2. CASE Chains(file, startxref, MaxSections + 1) # {}
    <3>1. document \in Chains(file, startxref, MaxSections + 1)
      BY <2>2 DEF Init
    <3>2. PICK k \in 1 .. MaxSections + 1 : document \in [1 .. k -> TableOffsets(file)]
      BY <3>1 DEF Chains
    <3>3. TableOffsets(file) \subseteq Nat
      BY <1>1, LenProperties DEF TableOffsets
    <3>4. document \in [1 .. k -> Nat]
      BY <3>2, <3>3
    <3>5. document \in Seq(Nat) /\ IsChain(file, startxref, document)
      BY <3>1, <3>4, SeqDef DEF Chains
    <3>6. document # <<>>
      BY <3>5 DEF IsChain
    <3>7. QED
      BY <3>5, <3>6
  <2>3. QED
    BY <2>1, <2>2
<1>3. /\ build = "idle" /\ next_offset = Absent /\ section_byte_offsets = <<>>
      /\ merged = EmptyMap /\ effective_size = 0 /\ root_reference = Absent
      /\ op = "idle" /\ request = <<>> /\ view = EmptyMap /\ revisions = 0
  BY DEF Init, ChainInit
<1>4. TypeOK
  BY <1>1, <1>2, <1>3, EmptySeq DEF TypeOK, EmptyMap
<1>5. BuilderFollowsDocument
  BY <1>2, <1>3 DEF BuilderFollowsDocument
<1>6. QED
  BY <1>4, <1>5 DEF IInv

(* A call that returns and leaves the file alone keeps the invariant.       *)
LEMMA ReturnKeepsIInv ==
  ASSUME IInv, NEW call, NEW result, Return(call, result),
         UNCHANGED <<fileVars, historyVars>>,
         view' \in [ObjNums -> Entry \cup {Absent, Ambiguous}]
  PROVE  IInv'
<1>1. TypeOK'
  BY EmptySeq DEF IInv, TypeOK, Return, fileVars, historyVars, EmptyMap
<1>2. BuilderFollowsDocument'
  BY DEF IInv, BuilderFollowsDocument, Return, fileVars, historyVars
<1>3. QED
  BY <1>1, <1>2 DEF IInv

(* So does a call that enters the chain builder.                            *)
LEMMA StartKeepsIInv ==
  ASSUME IInv, op = "idle", StartChain,
         OpenRejection = "none" \/ WriteRejection = "none",
         op' \in {"read", "write"}, op' = "read" => file[startxref].prev # Absent,
         request' \in Seq(Dirty), UNCHANGED <<fileVars, view, historyVars>>
  PROVE  IInv'
<1>1. startxref # Absent
  BY AcceptedHead DEF IInv
<1>2. TypeOK'
  BY EmptySeq DEF IInv, TypeOK, StartChain, fileVars, historyVars, EmptyMap
<1>3. /\ Len(section_byte_offsets') = 0
      /\ \A n \in ObjNums : merged'[n] = Absent
  BY EmptySeq DEF StartChain, EmptyMap
<1>4. FollowedSectionsLinked'
  BY <1>1, <1>3 DEF FollowedSectionsLinked, StartChain, fileVars
<1>5. FollowedSectionsMerged'
  BY <1>3 DEF FollowedSectionsMerged, NewestWins, NewestIndexes
<1>6. FollowedSectionsOfDocument'
  <2>1. Len(document') \in Nat
    BY <1>2, LenProperties DEF TypeOK
  <2>2. QED
    BY <1>3, <2>1 DEF FollowedSectionsOfDocument
<1>7. BuilderFollowsDocument'
  BY <1>4, <1>5, <1>6
     DEF IInv, BuilderFollowsDocument, StartChain, fileVars, historyVars
<1>8. QED
  BY <1>2, <1>7 DEF IInv

(* One turn of the loop.                                                    *)
LEMMA FollowSectionKeepsIInv ==
  ASSUME IInv, FollowSection, UNCHANGED callVars
  PROVE  IInv'
<1> DEFINE K == section_byte_offsets
           o == next_offset
           table == file[o]
<1>1. /\ build = "running" /\ o # Absent /\ SectionRejection(o) = "none"
      /\ UNCHANGED <<file, startxref, build>>
      /\ UNCHANGED <<op, request, view, outcome, revisions, document>>
      /\ K' = Append(K, o)
      /\ next_offset' = table.prev
      /\ merged' = MergeSection(merged, table)
      /\ root_reference' = IF root_reference = Absent THEN table.root
                           ELSE root_reference
      /\ effective_size' = IF table.size # Absent /\ table.size > effective_size
                           THEN table.size ELSE effective_size
  BY DEF FollowSection, fileVars, callVars, historyVars, Remember
<1>2. /\ o \in TableOffsets(file) /\ Len(K) < MaxSections
      /\ root_reference = Absent => table.root # Unreadable
  BY <1>1, AcceptedSection DEF IInv
<1>3. /\ file \in Seq(Chunk) /\ K \in Seq(Nat) /\ effective_size \in Nat
      /\ merged \in [ObjNums -> Entry \cup {Absent}]
      /\ FollowedSectionsLinked /\ FollowedSectionsMerged
      /\ FollowedSectionsOfDocument
      /\ document \in Seq(Nat)
  BY <1>1 DEF IInv, TypeOK, BuilderFollowsDocument
<1>4. table \in TableChunk /\ o \in Nat
  BY <1>2, <1>3, TableAtOffset
<1>5. K \in Seq(TableOffsets(file))
  BY <1>1, FollowedTables
<1>6. /\ merged' \in [ObjNums -> Entry \cup {Absent}]
      /\ \A n \in ObjNums : merged'[n] = NewestWins(file, Append(K, o), n)
  BY <1>1, <1>2, <1>3, <1>5, MergeSectionCorrect DEF FollowedSectionsMerged
<1>7. /\ Len(K) \in Nat /\ Len(K') = Len(K) + 1
      /\ \A i \in 1 .. Len(K) : K'[i] = K[i]
      /\ K'[Len(K) + 1] = o
      /\ K' \in Seq(Nat)
  BY <1>1, <1>3, <1>4
<1>0. IF K = <<>> THEN Len(K) = 0 ELSE Len(K) >= 1
  BY <1>3, EmptySeq
<1>8. effective_size' \in Nat /\ effective_size <= effective_size'
      /\ (table.size # Absent => table.size <= effective_size')
  BY <1>1, <1>3, <1>4 DEF TableChunk
<1>9. TypeOK'
  <2>1. root_reference' \in ObjNums \cup {Absent}
    BY <1>1, <1>2, <1>4 DEF IInv, TypeOK, TableChunk
  <2>2. next_offset' \in Nat \cup {Absent}
    <3>1. table.prev # Unreadable
      BY <1>1 DEF SectionRejection
    <3>2. QED
      BY <1>1, <1>4, <3>1 DEF TableChunk
  <2>3. QED
    BY <1>1, <1>6, <1>7, <1>8, <2>1, <2>2 DEF IInv, TypeOK
<1>10. FollowedSectionsLinked'
  <2>1. Len(K') <= MaxSections
    BY <1>2, <1>7
  <2>2. \A i \in 1 .. Len(K') : K'[i] \in TableOffsets(file)
    <3>1. K' \in Seq(TableOffsets(file))
      BY <1>1, <1>2, <1>5
    <3>2. QED
      BY <3>1, ElementOfSeq
  <2>3. \A i \in 1 .. Len(K') - 1 : file[K'[i]].prev = K'[i + 1]
    <3>1. TAKE i \in 1 .. Len(K') - 1
    <3>2. i \in 1 .. Len(K) /\ K'[i] = K[i]
      BY <1>7
    <3>3. CASE i < Len(K)
      <4>1. i + 1 \in 1 .. Len(K) /\ i \in 1 .. Len(K) - 1
        BY <1>7, <3>2, <3>3
      <4>2. file[K[i]].prev = K[i + 1]
        BY <1>3, <4>1 DEF FollowedSectionsLinked
      <4>3. QED
        BY <1>7, <3>2, <4>1, <4>2
    <3>4. CASE i = Len(K)
      <4>1. K # <<>>
        BY <1>0, <1>7, <3>2
      <4>2. o = file[K[i]].prev
        BY <1>3, <3>4, <4>1 DEF FollowedSectionsLinked
      <4>3. QED
        BY <1>7, <3>2, <3>4, <4>2
    <3>5. QED
      BY <1>7, <3>2, <3>3, <3>4
  <2>4. K' # <<>> /\ K'[1] = startxref
    <3>1. K' # <<>>
      BY <1>7
    <3>2. CASE K = <<>>
      <4>1. o = startxref
        BY <1>3, <3>2 DEF FollowedSectionsLinked
      <4>2. Len(K) + 1 = 1
        BY <1>0, <3>2
      <4>3. QED
        BY <1>7, <4>1, <4>2
    <3>3. CASE K # <<>>
      <4>1. K[1] = startxref /\ 1 \in 1 .. Len(K)
        BY <1>0, <1>3, <1>7, <3>3 DEF FollowedSectionsLinked
      <4>2. QED
        BY <1>7, <4>1
    <3>4. QED
      BY <3>1, <3>2, <3>3
  <2>5. next_offset' = file[K'[Len(K')]].prev
    BY <1>1, <1>7
  <2>6. root_reference' = file[startxref].root /\ root_reference' # Unreadable
    <3>1. CASE K = <<>>
      BY <1>1, <1>2, <1>3, <3>1 DEF FollowedSectionsLinked
    <3>2. CASE K # <<>>
      <4>1. startxref \in TableOffsets(file)
        BY <1>0, <1>3, <1>7, <3>2 DEF FollowedSectionsLinked
      <4>2. root_reference = file[startxref].root /\ root_reference # Unreadable
        BY <1>3, <3>2 DEF FollowedSectionsLinked
      <4>3. root_reference \in ObjNums
        BY <1>3, <4>1, <4>2, TableAtOffset DEF TableChunk
      <4>4. QED
        BY <1>1, <4>2, <4>3 DEF ObjNums
    <3>3. QED
      BY <3>1, <3>2
  <2>7. QED
    BY <1>1, <2>1, <2>2, <2>3, <2>4, <2>5, <2>6 DEF FollowedSectionsLinked
<1>11. FollowedSectionsMerged'
  <2>1. ASSUME NEW i \in 1 .. Len(K'), file[K'[i]].size # Absent
        PROVE  file[K'[i]].size <= effective_size'
    <3>1. CASE i = Len(K) + 1
      BY <1>7, <1>8, <2>1, <3>1
    <3>2. CASE i \in 1 .. Len(K)
      <4>1. K'[i] = K[i] /\ K[i] \in TableOffsets(file)
        BY <1>5, <1>7, <3>2, ElementOfSeq
      <4>2. file[K[i]].size \in Nat
        BY <1>3, <2>1, <4>1, TableAtOffset DEF TableChunk
      <4>3. file[K[i]].size <= effective_size
        BY <1>3, <2>1, <3>2, <4>1 DEF FollowedSectionsMerged
      <4>4. QED
        BY <1>3, <1>8, <4>1, <4>2, <4>3
    <3>3. QED
      BY <1>7, <3>1, <3>2
  <2>2. QED
    BY <1>1, <1>6, <2>1 DEF FollowedSectionsMerged
<1>12. FollowedSectionsOfDocument'
  <2> SUFFICES ASSUME document # <<>>
               PROVE  /\ Len(K') <= Len(document)
                      /\ K'[Len(K) + 1] = document[Len(K) + 1]
    BY <1>1, <1>3, <1>7 DEF FollowedSectionsOfDocument
  <2>1. /\ IsChain(file, startxref, document)
        /\ Len(document) \in Nat
        /\ Len(K) <= Len(document)
        /\ \A i \in 1 .. Len(K) : K[i] = document[i]
    BY <1>3, LenProperties
       DEF IInv, BuilderFollowsDocument, FollowedSectionsOfDocument
  <2>2. CASE K = <<>>
    BY <1>3, <1>7, <2>1, <2>2, EmptySeq DEF FollowedSectionsLinked, IsChain
  <2>3. CASE K # <<>>
    <3>1. Len(K) \in 1 .. Len(document)
      BY <1>3, <1>7, <2>1, <2>3, EmptySeq
    <3>2. o = file[document[Len(K)]].prev
      BY <1>3, <2>1, <2>3, <3>1 DEF FollowedSectionsLinked
    <3>3. Len(K) < Len(document) /\ o = document[Len(K) + 1]
      BY <1>1, <2>1, <3>1, <3>2 DEF IsChain
    <3>4. QED
      BY <1>7, <2>1, <3>3
  <2>4. QED
    BY <2>2, <2>3
<1>13. BuilderFollowsDocument'
  BY <1>1, <1>10, <1>11, <1>12 DEF IInv, BuilderFollowsDocument
<1>14. QED
  BY <1>9, <1>13 DEF IInv

(* The builder stopping leaves everything it built in place.                *)
LEMMA StopKeepsIInv ==
  ASSUME IInv, RejectSection \/ FinishChain, UNCHANGED callVars
  PROVE  IInv'
<1>1. /\ build = "running" /\ build' # "idle"
      /\ build' = "built" => next_offset = Absent
      /\ build' \in {"built"} \cup ChainRejections
      /\ UNCHANGED <<file, startxref>>
      /\ UNCHANGED <<op, request, view, outcome, revisions, document>>
      /\ UNCHANGED <<next_offset, section_byte_offsets, merged, effective_size,
                     root_reference>>
  BY DEF RejectSection, FinishChain, SectionRejection, ChainRejections,
         callVars, historyVars, fileVars
<1>2. TypeOK'
  BY <1>1 DEF IInv, TypeOK
<1>3. BuilderFollowsDocument'
  BY <1>1 DEF IInv, BuilderFollowsDocument, FollowedSectionsLinked,
              FollowedSectionsMerged, FollowedSectionsOfDocument
<1>4. QED
  BY <1>2, <1>3 DEF IInv

(* The ordered dirty objects are the requested ones.                        *)
LEMMA OrderingType ==
  ASSUME TypeOK, NEW s \in Orderings
  PROVE  /\ s \in Seq(Dirty) /\ Len(s) = Len(request)
         /\ \A i \in DOMAIN s : \E j \in DOMAIN request : s[i] = request[j]
<1>1. request \in Seq(Dirty) /\ Len(request) \in Nat
  BY LenProperties DEF TypeOK
<1>2. {request[i] : i \in DOMAIN request} \subseteq Dirty
  BY <1>1, LenProperties, ElementOfSeq
<1>3. s \in [1 .. Len(request) -> Dirty]
  BY <1>2 DEF Orderings
<1>4. s \in Seq(Dirty) /\ Len(s) = Len(request)
  BY <1>1, <1>3, SeqDef
<1>5. QED
  BY <1>4 DEF Orderings

(* The /Size a revision writes is a number above every merged object number *)
(* and not below the largest declared /Size.                                *)
LEMMA WholeChainSizeCovers ==
  ASSUME TypeOK
  PROVE  /\ WholeChainSize \in Nat
         /\ effective_size <= WholeChainSize
         /\ \A n \in MergedNums(merged) : n < WholeChainSize
<1>1. effective_size \in Nat
  BY DEF TypeOK
<1>2. SizeCandidates \in SUBSET Nat /\ effective_size \in SizeCandidates
  BY <1>1 DEF SizeCandidates, MergedNums, ObjNums
<1>3. \A x \in SizeCandidates : x <= effective_size + MaxObjNum + 1
  BY <1>1 DEF SizeCandidates, MergedNums, ObjNums
<1>4. \E m \in SizeCandidates : \A x \in SizeCandidates : x <= m
  <2>1. effective_size + MaxObjNum + 1 \in Nat
    BY <1>1
  <2>2. SizeCandidates # {}
    BY <1>2
  <2>3. QED
    BY <1>2, <1>3, <2>1, <2>2, GreatestElement
<1>5. /\ WholeChainSize \in SizeCandidates
      /\ \A x \in SizeCandidates : x <= WholeChainSize
  BY <1>4 DEF WholeChainSize
<1>6. \A n \in MergedNums(merged) : n \in Nat /\ n + 1 \in SizeCandidates
  BY DEF SizeCandidates, MergedNums, ObjNums
<1>7. WholeChainSize \in Nat /\ \A n \in MergedNums(merged) : n + 1 <= WholeChainSize
  BY <1>2, <1>5, <1>6
<1>8. QED
  BY <1>2, <1>5, <1>6, <1>7

(* What an accepted write does to the file: the old chunks stay, one table  *)
(* linked to the old newest section comes last, and the chain grows by it.  *)
LEMMA CommitAppends ==
  ASSUME IInv, CommitRevision
  PROVE  \E s \in Orderings :
           /\ ReadyToAppend(s)
           /\ s \in Seq(Dirty)
           /\ AppendedTable(s) \in TableChunk
           /\ file' \in Seq(Chunk)
           /\ Len(file') = Len(file) + Len(s) + 1
           /\ startxref' = Len(file')
           /\ \A o \in 1 .. Len(file) : file'[o] = file[o]
           /\ \A i \in 1 .. Len(s) : file'[Len(file) + i] = AppendedObjects(s)[i]
           /\ file'[startxref'] = AppendedTable(s)
           /\ document' = <<startxref'>> \o document
<1>1. PICK s \in Orderings :
        /\ ReadyToAppend(s)
        /\ file' = file \o AppendedObjects(s) \o <<AppendedTable(s)>>
        /\ startxref' = Len(file) + Len(s) + 1
        /\ document' = <<startxref'>> \o document
  BY DEF CommitRevision
<1>2. /\ TypeOK /\ build = "built" /\ file \in Seq(Chunk) /\ Len(file) \in Nat
      /\ startxref \in Nat \cup {Absent}
  BY <1>1, LenProperties DEF IInv, TypeOK, ReadyToAppend, DirtyReady
<1>3. s \in Seq(Dirty) /\ Len(s) \in Nat /\ \A i \in 1 .. Len(s) : s[i] \in Dirty
  BY <1>2, OrderingType, LenProperties, ElementOfSeq
<1>4. AppendedObjects(s) \in Seq(Chunk) /\ Len(AppendedObjects(s)) = Len(s)
  <2>1. AppendedObjects(s) \in [1 .. Len(s) -> Chunk]
    BY <1>3 DEF AppendedObjects, Dirty, Chunk, ObjectChunk
  <2>2. QED
    BY <1>3, <2>1, SeqDef
<1>5. AppendedTable(s) \in TableChunk
  <2>1. [i \in 1 .. Len(s) |->
           [num |-> s[i].num, gen |-> s[i].gen, state |-> "inuse",
            off |-> AppendedOffset(i)]] \in [1 .. Len(s) -> Entry]
    BY <1>2, <1>3 DEF AppendedOffset, Dirty, Entry
  <2>2. AppendedTable(s).entries \in Seq(Entry)
    BY <1>3, <2>1, SeqDef DEF AppendedTable
  <2>3. file[startxref] \in TableChunk /\ root_reference \in ObjNums
    BY <1>2, BuiltChain, TableAtOffset
  <2>4. /\ file[startxref].id \in Idents \cup {Absent}
        /\ file[startxref].info \in Idents \cup {Absent}
    BY <2>3 DEF TableChunk
  <2>5. WholeChainSize \in Nat
    BY <1>2, WholeChainSizeCovers
  <2>6. QED
    BY <1>2, <2>2, <2>3, <2>4, <2>5 DEF AppendedTable, TableChunk
<1> DEFINE front == file \o AppendedObjects(s)
<1>6. /\ front \in Seq(Chunk) /\ Len(front) = Len(file) + Len(s)
      /\ \A i \in 1 .. Len(file) : front[i] = file[i]
      /\ \A i \in 1 .. Len(s) : front[Len(file) + i] = AppendedObjects(s)[i]
  <2> DEFINE a == AppendedObjects(s)
  <2> HIDE DEF a
  <2>1. a \in Seq(Chunk) /\ Len(a) = Len(s)
    BY <1>4 DEF a
  <2>2. /\ file \o a \in Seq(Chunk) /\ Len(file \o a) = Len(file) + Len(a)
        /\ \A i \in 1 .. Len(file) + Len(a) :
             (file \o a)[i] = IF i <= Len(file) THEN file[i] ELSE a[i - Len(file)]
    BY <1>2, <2>1, ConcatProperties, ZenonT(40)
  <2>3. \A i \in 1 .. Len(file) : (file \o a)[i] = file[i]
    BY <1>2, <1>3, <2>1, <2>2
  <2>4. ASSUME NEW i \in 1 .. Len(s) PROVE (file \o a)[Len(file) + i] = a[i]
    <3>1. /\ Len(file) + i \in 1 .. Len(file) + Len(a)
          /\ ~ (Len(file) + i <= Len(file)) /\ Len(file) + i - Len(file) = i
      BY <1>2, <1>3, <2>1
    <3>2. QED
      BY <2>2, <3>1
  <2>5. QED
    BY <2>1, <2>2, <2>3, <2>4 DEF a
<1>7. <<AppendedTable(s)>> \in Seq(Chunk) /\ Len(<<AppendedTable(s)>>) = 1
      /\ <<AppendedTable(s)>>[1] = AppendedTable(s)
  <2>1. AppendedTable(s) \in Chunk
    BY <1>5 DEF Chunk
  <2> HIDE DEF Chunk
  <2>2. QED
    BY <2>1
<1> HIDE DEF front
<1>8. /\ front \o <<AppendedTable(s)>> \in Seq(Chunk)
      /\ Len(front \o <<AppendedTable(s)>>) = Len(front) + 1
      /\ \A i \in 1 .. Len(front) : (front \o <<AppendedTable(s)>>)[i] = front[i]
      /\ (front \o <<AppendedTable(s)>>)[Len(front) + 1] = AppendedTable(s)
  <2> DEFINE b == <<AppendedTable(s)>>
  <2> HIDE DEF b
  <2>1. b \in Seq(Chunk) /\ Len(b) = 1 /\ b[1] = AppendedTable(s)
    BY <1>7 DEF b
  <2>2. /\ front \o b \in Seq(Chunk) /\ Len(front \o b) = Len(front) + Len(b)
        /\ \A i \in 1 .. Len(front) + Len(b) :
             (front \o b)[i] = IF i <= Len(front) THEN front[i] ELSE b[i - Len(front)]
    <3>1. front \in Seq(Chunk) /\ b \in Seq(Chunk)
      BY <1>6, <2>1
    <3>2. QED
      BY ONLY <3>1, ConcatProperties
  <2>3. /\ Len(front) \in Nat /\ Len(front) + 1 \in 1 .. Len(front) + Len(b)
        /\ ~ (Len(front) + 1 <= Len(front)) /\ Len(front) + 1 - Len(front) = 1
    BY <1>2, <1>3, <1>6, <2>1
  <2>4. (front \o b)[Len(front) + 1] = b[1]
    BY <2>2, <2>3
  <2>5. QED
    BY <2>1, <2>2, <2>3, <2>4 DEF b
<1>9. file' = front \o <<AppendedTable(s)>>
  BY <1>1 DEF front
<1>10. /\ file' \in Seq(Chunk)
       /\ Len(file') = Len(file) + Len(s) + 1
       /\ startxref' = Len(file')
  BY <1>1, <1>2, <1>3, <1>6, <1>8, <1>9
<1>11. file'[startxref'] = AppendedTable(s)
  BY <1>6, <1>8, <1>9, <1>10
<1>12. \A o \in 1 .. Len(file) : file'[o] = file[o]
  BY <1>2, <1>3, <1>6, <1>8, <1>9
<1>13. ASSUME NEW i \in 1 .. Len(s)
       PROVE  file'[Len(file) + i] = AppendedObjects(s)[i]
  <2>1. Len(file) + i \in 1 .. Len(front)
    BY <1>2, <1>3, <1>6
  <2>2. QED
    BY <1>6, <1>8, <1>9, <2>1
<1>14. QED
  BY <1>1, <1>3, <1>5, <1>10, <1>11, <1>12, <1>13

(* An accepted write keeps the invariant.                                   *)
LEMMA CommitKeepsIInv ==
  ASSUME IInv, CommitRevision
  PROVE  IInv'
<1>1. PICK s \in Orderings :
        /\ ReadyToAppend(s)
        /\ file' \in Seq(Chunk)
        /\ Len(file') = Len(file) + Len(s) + 1
        /\ startxref' = Len(file')
        /\ \A o \in 1 .. Len(file) : file'[o] = file[o]
        /\ file'[startxref'] = AppendedTable(s)
        /\ document' = <<startxref'>> \o document
        /\ s \in Seq(Dirty)
  BY CommitAppends
<1>2. /\ file \in Seq(Chunk) /\ Len(file) \in Nat /\ Len(s) \in Nat
      /\ document \in Seq(Nat) /\ Len(document) \in Nat
      /\ build = "built"
      /\ DOMAIN file = 1 .. Len(file) /\ DOMAIN file' = 1 .. Len(file')
  BY <1>1, LenProperties DEF IInv, TypeOK, ReadyToAppend, DirtyReady
<1>3. /\ document # <<>> /\ IsChain(file, startxref, document)
      /\ root_reference \in ObjNums /\ startxref \in Nat
  BY <1>2, BuiltChain, TableAtOffset
<1>4. startxref' \in Nat /\ revisions' \in Nat /\ view' = view
      /\ op' = "idle" /\ build' = "idle" /\ request' = <<>>
      /\ next_offset' = Absent /\ section_byte_offsets' = <<>>
      /\ merged' = EmptyMap /\ effective_size' = 0 /\ root_reference' = Absent
  BY <1>1, <1>2 DEF CommitRevision, Return, IInv, TypeOK
<1>5. /\ document' \in Seq(Nat) /\ Len(document') = Len(document) + 1
      /\ document'[1] = startxref'
      /\ \A i \in 1 .. Len(document) : document'[i + 1] = document[i]
  BY <1>1, <1>2, <1>4, PrependProperties
<1>6. TypeOK'
  BY <1>1, <1>4, <1>5, EmptySeq DEF IInv, TypeOK, EmptyMap
<1>7. \A o \in TableOffsets(file) : o \in TableOffsets(file') /\ file'[o] = file[o]
  BY <1>1, <1>2 DEF TableOffsets
<1>8. /\ startxref' \in TableOffsets(file')
      /\ file'[startxref'].prev = startxref
      /\ file'[startxref'].root # Unreadable
  <2>1. startxref' \in DOMAIN file'
    BY <1>1, <1>2
  <2>2. /\ AppendedTable(s).kind = "table" /\ AppendedTable(s).prev = startxref
        /\ AppendedTable(s).root = root_reference
    BY DEF AppendedTable
  <2>3. root_reference # Unreadable
    BY <1>3 DEF ObjNums
  <2>4. QED
    BY <1>1, <2>1, <2>2, <2>3 DEF TableOffsets
<1>9. IsChain(file', startxref', document')
  <2>1. ASSUME NEW i \in 1 .. Len(document')
        PROVE  /\ document'[i] \in TableOffsets(file')
               /\ file'[document'[i]].prev =
                    IF i < Len(document') THEN document'[i + 1] ELSE Absent
    <3>1. CASE i = 1
      <4>1. 1 < Len(document') /\ 1 \in 1 .. Len(document) /\ document[1] = startxref
        BY <1>2, <1>3, <1>5 DEF IsChain
      <4>2. document'[2] = startxref
        BY <1>5, <4>1
      <4>3. QED
        BY <1>5, <1>8, <3>1, <4>1, <4>2
    <3>2. CASE i # 1
      <4>1. PICK k \in 1 .. Len(document) : i = k + 1
        <5>1. i - 1 \in 1 .. Len(document) /\ i = (i - 1) + 1
          BY <1>2, <1>5, <3>2
        <5>2. QED
          BY <5>1
      <4>2. document'[i] = document[k]
        BY <1>5, <4>1
      <4>3. /\ document[k] \in TableOffsets(file)
            /\ file[document[k]].prev = IF k < Len(document) THEN document[k + 1]
                                       ELSE Absent
        BY <1>3 DEF IsChain
      <4>4. file'[document'[i]].prev = file[document[k]].prev
        BY <1>7, <4>2, <4>3
      <4>5. CASE k < Len(document)
        <5>1. document'[i + 1] = document[k + 1] /\ i < Len(document')
          <6>1. /\ k + 1 \in 1 .. Len(document) /\ i + 1 = (k + 1) + 1
                /\ i < Len(document')
            BY <1>2, <1>5, <4>1, <4>5, SMTT(20)
          <6>2. document'[(k + 1) + 1] = document[k + 1]
            BY <1>5, <6>1
          <6>3. QED
            BY <6>1, <6>2
        <5>2. QED
          BY <1>7, <4>2, <4>3, <4>4, <4>5, <5>1
      <4>6. CASE ~ (k < Len(document))
        <5>1. ~ (i < Len(document'))
          BY <1>2, <1>5, <4>1, <4>6
        <5>2. QED
          BY <1>7, <4>2, <4>3, <4>4, <4>6, <5>1
      <4>7. QED
        BY <4>5, <4>6
    <3>3. QED
      BY <3>1, <3>2
  <2>2. Len(document') >= 1
    BY <1>2, <1>5
  <2>3. QED
    BY <1>5, <1>8, <2>1, <2>2 DEF IsChain
<1>10. document' # <<>>
  BY <1>2, <1>5
<1>11. BuilderFollowsDocument'
  BY <1>4, <1>9, <1>10 DEF BuilderFollowsDocument
<1>12. QED
  BY <1>6, <1>11 DEF IInv

LEMMA NextKeepsIInv == IInv /\ [Next]_vars => IInv'
<1> SUFFICES ASSUME IInv, [Next]_vars PROVE IInv'
  OBVIOUS
<1>0. view \in [ObjNums -> Entry \cup {Absent, Ambiguous}] /\ file \in Seq(Chunk)
      /\ merged \in [ObjNums -> Entry \cup {Absent}]
  BY DEF IInv, TypeOK
<1>1. CASE RejectOpen
  BY <1>0, <1>1, ReturnKeepsIInv DEF RejectOpen
<1>2. CASE OpenSingleTable
  <2>1. file[startxref] \in TableChunk
    BY <1>0, <1>2, AcceptedHead, TableAtOffset DEF OpenSingleTable, IInv
  <2>2. \A n : SingleTableEntry(file[startxref], n) \in Entry \cup {Absent, Ambiguous}
    BY <2>1, FirstEntryCorrect DEF SingleTableEntry, Declares
  <2>3. view' \in [ObjNums -> Entry \cup {Absent, Ambiguous}]
    BY <1>2, <2>2 DEF OpenSingleTable
  <2>4. QED
    BY <1>2, <2>3, ReturnKeepsIInv DEF OpenSingleTable
<1>3. CASE OpenChain
  <2>1. request \in Seq(Dirty)
    BY DEF IInv, TypeOK
  <2>2. /\ request' \in Seq(Dirty) /\ op' = "read" /\ op = "idle"
        /\ OpenRejection = "none" /\ file[startxref].prev # Absent /\ StartChain
        /\ UNCHANGED <<fileVars, view, historyVars>>
    BY <1>3, <2>1 DEF OpenChain, fileVars, historyVars
  <2>3. QED
    BY <2>2, StartKeepsIInv
<1>4. CASE RejectWrite
  BY <1>0, <1>4, ReturnKeepsIInv DEF RejectWrite
<1>5. CASE \E dirty \in Requests : BeginWrite(dirty)
  BY <1>5, StartKeepsIInv DEF BeginWrite
<1>6. CASE ChainStep /\ UNCHANGED callVars
  BY <1>6, FollowSectionKeepsIInv, StopKeepsIInv DEF ChainStep
<1>7. CASE FinishOpenChain
  <2>1. view' \in [ObjNums -> Entry \cup {Absent, Ambiguous}]
    BY <1>0, <1>7 DEF FinishOpenChain
  <2>2. QED
    BY <1>7, <2>1, ReturnKeepsIInv DEF FinishOpenChain
<1>8. CASE FailChain
  BY <1>0, <1>8, ReturnKeepsIInv DEF FailChain
<1>9. CASE RejectDuplicate
  BY <1>0, <1>9, ReturnKeepsIInv DEF RejectDuplicate
<1>10. CASE RejectDirty
  BY <1>0, <1>10, ReturnKeepsIInv DEF RejectDirty
<1>11. CASE RejectOffset
  BY <1>0, <1>11, ReturnKeepsIInv DEF RejectOffset
<1>12. CASE CommitRevision
  BY <1>12, CommitKeepsIInv
<1>13. CASE UNCHANGED vars
  <2>1. TypeOK'
    BY <1>13 DEF IInv, TypeOK, vars, fileVars, chainVars, callVars, historyVars
  <2>2. BuilderFollowsDocument'
    BY <1>13 DEF IInv, BuilderFollowsDocument, FollowedSectionsLinked,
                 FollowedSectionsMerged, FollowedSectionsOfDocument,
                 vars, fileVars, chainVars, callVars, historyVars
  <2>3. QED
    BY <2>1, <2>2 DEF IInv
<1>14. QED
  BY <1>1, <1>2, <1>3, <1>4, <1>5, <1>6, <1>7, <1>8, <1>9, <1>10, <1>11, <1>12, <1>13
     DEF Next, Call, Progress

(* The state always has its shape, and the builder always follows the chain *)
(* of the document.                                                         *)
THEOREM Invariance == Spec => []IInv
<1>1. Init => IInv
  BY InitIInv
<1>2. IInv /\ [Next]_vars => IInv'
  BY NextKeepsIInv
<1>3. QED
  BY <1>1, <1>2, PTL DEF Spec

THEOREM TypeCorrect == Spec => []TypeOK
<1>1. IInv => TypeOK
  BY DEF IInv
<1>2. QED
  BY <1>1, Invariance, PTL

THEOREM BuilderCorrect == Spec => []BuilderFollowsDocument
<1>1. IInv => BuilderFollowsDocument
  BY DEF IInv
<1>2. QED
  BY <1>1, Invariance, PTL

-----------------------------------------------------------------------------
(* Properties of the calls.                                                 *)

(* Only an accepted write touches the file.                                 *)
LEMMA OnlyCommitWrites ==
  ASSUME [Next]_vars
  PROVE  CommitRevision \/ UNCHANGED <<file, startxref, revisions, document>>
BY DEF Next, Call, Progress, RejectOpen, OpenSingleTable, OpenChain, RejectWrite,
       BeginWrite, ChainStep, FollowSection, RejectSection, FinishChain,
       FinishOpenChain, FailChain, RejectDuplicate, RejectDirty, RejectOffset,
       vars, callVars, fileVars, historyVars

(* The trailer of a revision declares a /Size above every object number of  *)
(* the chain and not below any /Size the chain declares.                    *)
THEOREM SizeCorrect == Spec => []SizeCoversChain
<1>1. Init => SizeCoversChain
  BY DEF Init, SizeCoversChain
<1>2. ASSUME IInv, IInv', SizeCoversChain, [Next]_vars
      PROVE  SizeCoversChain'
  <2>1. CASE UNCHANGED <<file, startxref, revisions, document>>
    BY <1>2, <2>1 DEF SizeCoversChain
  <2>2. CASE CommitRevision
    <3>1. PICK s \in Orderings :
            /\ ReadyToAppend(s) /\ s \in Seq(Dirty)
            /\ file' \in Seq(Chunk)
            /\ \A o \in 1 .. Len(file) : file'[o] = file[o]
            /\ Len(file') = Len(file) + Len(s) + 1 /\ startxref' = Len(file')
            /\ AppendedTable(s) \in TableChunk
            /\ file'[startxref'] = AppendedTable(s)
            /\ document' = <<startxref'>> \o document
      BY <1>2, <2>2, CommitAppends
    <3>2. /\ TypeOK /\ build = "built" /\ file \in Seq(Chunk)
          /\ document \in Seq(Nat) /\ startxref' \in Nat
          /\ effective_size \in Nat
          /\ FollowedSectionsMerged
      <4>1. build = "built"
        BY <3>1 DEF ReadyToAppend, DirtyReady
      <4>2. Len(file) \in Nat /\ Len(s) \in Nat
        BY <1>2, <3>1, LenProperties DEF IInv, TypeOK
      <4>3. startxref' \in Nat
        BY <3>1, <4>2
      <4>4. QED
        BY <1>2, <4>1, <4>3 DEF IInv, TypeOK, BuilderFollowsDocument
    <3>3. /\ section_byte_offsets = document
          /\ document \in Seq(TableOffsets(file))
      BY <1>2, <3>2, BuiltChain, FollowedTables
    <3>4. /\ WholeChainSize \in Nat /\ effective_size <= WholeChainSize
          /\ \A n \in MergedNums(merged) : n < WholeChainSize
      BY <3>2, WholeChainSizeCovers
    <3>5. file'[startxref'].size = WholeChainSize
      BY <3>1 DEF AppendedTable
    <3>6. ASSUME NEW i \in 1 .. Len(document)
          PROVE  /\ \A j \in DOMAIN file[document[i]].entries :
                       file[document[i]].entries[j].num < WholeChainSize
                 /\ file[document[i]].size # Absent =>
                       file[document[i]].size <= WholeChainSize
      <4>1. file[document[i]] \in TableChunk
        BY <3>2, <3>3, ElementOfSeq, TableAtOffset
      <4>2. ASSUME NEW j \in DOMAIN file[document[i]].entries
            PROVE  file[document[i]].entries[j].num \in MergedNums(merged)
        <5> DEFINE t == file[document[i]]
                   n == t.entries[j].num
        <5>1. t.entries \in Seq(Entry) /\ j \in 1 .. Len(t.entries)
          BY <4>1, LenProperties DEF TableChunk
        <5>2. n \in ObjNums
          <6>1. t.entries[j] \in Entry
            BY <5>1, ElementOfSeq
          <6>2. QED
            BY <6>1 DEF Entry
        <5>3. Declares(t, n)
          BY <5>1 DEF Declares, EntryIndexes
        <5>4. NewestIndexes(file, document, n) # {}
          BY <5>3 DEF NewestIndexes
        <5>5. NewestWins(file, document, n) # Absent
          BY <3>2, <3>3, <5>4, NewestWinsType
        <5>6. QED
          BY <3>2, <3>3, <5>2, <5>5 DEF MergedNums, FollowedSectionsMerged
      <4>3. file[document[i]].size # Absent =>
              file[document[i]].size <= effective_size
        BY <3>2, <3>3 DEF FollowedSectionsMerged
      <4>4. file[document[i]].size \in Nat \cup {Absent}
        BY <4>1 DEF TableChunk
      <4>5. QED
        BY <3>2, <3>4, <4>2, <4>3, <4>4
    <3>7. ASSUME NEW j \in DOMAIN AppendedTable(s).entries
          PROVE  AppendedTable(s).entries[j].num < WholeChainSize
      <4>1. j \in DOMAIN s /\ AppendedTable(s).entries[j].num = s[j].num
        BY <3>1, LenProperties DEF AppendedTable
      <4>2. s[j].num \in ObjNums
        <5>1. s[j] \in Dirty
          BY <3>1, <4>1, LenProperties, ElementOfSeq
        <5>2. QED
          BY <5>1 DEF Dirty
      <4>3. DirtyRejection(s[j]) = "none"
        BY <3>1, <4>1 DEF ReadyToAppend
      <4>4. Resolution(file, merged[s[j].num], s[j].num, s[j].gen) = "Resolved"
        BY <4>3 DEF DirtyRejection, Resolution
      <4>5. merged[s[j].num] # Absent
        BY <4>4 DEF Resolution
      <4>6. QED
        BY <3>4, <4>1, <4>2, <4>5 DEF MergedNums
    <3>8. ASSUME NEW i \in DOMAIN document'
          PROVE  /\ \A j \in DOMAIN file'[document'[i]].entries :
                       file'[document'[i]].entries[j].num < WholeChainSize
                 /\ file'[document'[i]].size # Absent =>
                       file'[document'[i]].size <= WholeChainSize
      <4>1. /\ document' \in Seq(Nat) /\ Len(document') = Len(document) + 1
            /\ document'[1] = startxref' /\ Len(document) \in Nat
            /\ \A k \in 1 .. Len(document) : document'[k + 1] = document[k]
        BY <3>1, <3>2, PrependProperties, LenProperties
      <4>4. i \in 1 .. 1 + Len(document)
        BY <4>1, LenProperties
      <4>5. CASE i = 1
        <5>1. file'[document'[i]] = AppendedTable(s)
          BY <3>1, <4>1, <4>5
        <5>2. QED
          BY <3>4, <3>5, <3>7, <4>1, <4>5, <5>1
      <4>6. CASE i # 1
        <5>1. i - 1 \in 1 .. Len(document) /\ document'[i] = document[i - 1]
          <6>1. i - 1 \in 1 .. Len(document) /\ (i - 1) + 1 = i
            BY <4>1, <4>4, <4>6
          <6>2. QED
            BY <4>1, <6>1
        <5>2. document[i - 1] \in 1 .. Len(file)
          BY <3>2, <3>3, <5>1, ElementOfSeq, TableAtOffset, LenProperties
        <5>3. file'[document'[i]] = file[document[i - 1]]
          BY <3>1, <5>1, <5>2
        <5>4. QED
          BY <3>6, <5>1, <5>3
      <4>7. QED
        BY <4>5, <4>6
    <3>9. QED
      BY <3>5, <3>8 DEF SizeCoversChain
  <2>3. QED
    BY <1>2, <2>1, <2>2, OnlyCommitWrites
<1>3. QED
  BY <1>1, <1>2, Invariance, PTL DEF Spec

(* Opening a document reports the reference entry of every object number.   *)
THEOREM OpenReportsCorrect == Spec => []OpenReportsReferenceEntries
<1> DEFINE Ok == [call |-> "read", result |-> "ok"]
<1>1. Init => OpenReportsReferenceEntries
  BY DEF Init, OpenReportsReferenceEntries
<1>2. ASSUME IInv, OpenReportsReferenceEntries, [Next]_vars
      PROVE  OpenReportsReferenceEntries'
  <2>1. ASSUME UNCHANGED <<file, startxref, document>>,
               view' = ReferenceView \/ outcome' # Ok \/ UNCHANGED <<view, outcome>>
        PROVE  OpenReportsReferenceEntries'
    BY <1>2, <2>1 DEF OpenReportsReferenceEntries, ReferenceView
  <2>2. CASE RejectOpen
    <3>1. outcome' # Ok /\ UNCHANGED <<file, startxref, document>>
      BY <2>2 DEF RejectOpen, Return, OpenRejection, fileVars, historyVars
    <3>2. QED
      BY <2>1, <3>1
  <2>3. CASE OpenSingleTable
    <3>1. /\ startxref \in TableOffsets(file) /\ file[startxref].prev = Absent
          /\ file[startxref].root # Unreadable
          /\ file \in Seq(Chunk) /\ document \in Seq(Nat) /\ startxref \in Nat
      BY <1>2, <2>3, AcceptedHead, TableAtOffset
         DEF OpenSingleTable, OpenRejection, IInv, TypeOK
    <3>2. document # <<>>
      <4> DEFINE K == <<startxref>>
      <4>1. K \in Seq(TableOffsets(file)) /\ Len(K) = 1 /\ K[1] = startxref
        BY <3>1
      <4>2. IsChain(file, startxref, K)
        BY <3>1, <4>1 DEF IsChain
      <4>3. K \in Chains(file, startxref, MaxSections + 1)
        <5>1. MaxSections + 1 \in Nat /\ Len(K) <= MaxSections + 1
          BY <4>1
        <5>2. QED
          BY <4>1, <4>2, <5>1, ChainsComplete
      <4>4. QED
        BY <1>2, <4>3 DEF IInv, BuilderFollowsDocument
    <3>3. IsChain(file, startxref, document) /\ Len(document) \in Nat
      BY <1>2, <3>1, <3>2, LenProperties DEF IInv, BuilderFollowsDocument
    <3>4. Len(document) = 1
      <4>1. ~ (1 < Len(document))
        <5> SUFFICES ASSUME 1 < Len(document) PROVE FALSE
          OBVIOUS
        <5>1. 1 \in 1 .. Len(document) /\ 2 \in 1 .. Len(document)
          BY <3>3
        <5>2. file[startxref].prev = document[2]
          BY <3>3, <5>1 DEF IsChain
        <5>3. document[2] \in Nat
          BY <3>1, <5>1, ElementOfSeq
        <5>4. QED
          BY <3>1, <5>2, <5>3
      <4>2. Len(document) >= 1 /\ Len(document) \in Nat
        BY <3>3 DEF IsChain
      <4>3. \A n \in Nat : n >= 1 /\ ~ (1 < n) => n = 1
        OBVIOUS
      <4>4. QED
        BY <4>1, <4>2, <4>3
    <3>5. view' = ReferenceView
      BY <2>3, <3>4 DEF OpenSingleTable, ReferenceView
    <3>6. QED
      BY <2>1, <2>3, <3>5 DEF OpenSingleTable, fileVars, historyVars
  <2>4. CASE FinishOpenChain
    <3>1. op = "read" /\ build = "built" /\ view' = merged
      BY <2>4 DEF FinishOpenChain
    <3>2. /\ section_byte_offsets = document
          /\ document \in Seq(Nat) /\ Len(document) \in Nat
          /\ IsChain(file, startxref, document)
      BY <1>2, <3>1, BuiltChain, LenProperties DEF IInv, TypeOK
    <3>3. /\ file[startxref].prev # Absent
          /\ FollowedSectionsMerged
          /\ merged \in [ObjNums -> Entry \cup {Absent}]
      BY <1>2, <3>1 DEF IInv, TypeOK, BuilderFollowsDocument
    <3>4. Len(document) # 1
      BY <3>2, <3>3 DEF IsChain
    <3>5. view' = ReferenceView
      BY <3>1, <3>2, <3>3, <3>4 DEF FollowedSectionsMerged, ReferenceView
    <3>6. QED
      BY <2>1, <2>4, <3>5 DEF FinishOpenChain, fileVars, historyVars
  <2>5. CASE FailChain
    <3>1. outcome' # Ok
      BY <2>5 DEF FailChain, Return, ChainRejections
    <3>2. QED
      BY <2>1, <2>5, <3>1 DEF FailChain, fileVars, historyVars
  <2>6. CASE RejectWrite \/ RejectDuplicate \/ RejectDirty \/ RejectOffset
    <3>1. outcome' # Ok /\ UNCHANGED <<file, startxref, document>>
      BY <2>6 DEF RejectWrite, RejectDuplicate, RejectDirty, RejectOffset, Return,
                  fileVars, historyVars
    <3>2. QED
      BY <2>1, <3>1
  <2>7. CASE CommitRevision
    <3>1. outcome' # Ok
      BY <2>7 DEF CommitRevision, Return
    <3>2. QED
      BY <3>1 DEF OpenReportsReferenceEntries
  <2>8. CASE \/ OpenChain
             \/ \E dirty \in Requests : BeginWrite(dirty)
             \/ ChainStep /\ UNCHANGED callVars
             \/ UNCHANGED vars
    <3>1. UNCHANGED <<file, startxref, document, view, outcome>>
      BY <2>8 DEF OpenChain, BeginWrite, ChainStep, FollowSection, RejectSection,
                  FinishChain, vars, callVars, fileVars, historyVars
    <3>2. QED
      BY <2>1, <3>1
  <2>9. QED
    BY <1>2, <2>2, <2>3, <2>4, <2>5, <2>6, <2>7, <2>8 DEF Next, Call, Progress
<1>3. QED
  BY <1>1, <1>2, Invariance, PTL DEF Spec

-----------------------------------------------------------------------------
(* The refinement of RevisionStore.                                         *)

(* An ordering of the request names each object once and leaves none out:   *)
(* as many distinct numbers as requests leave no room for a duplicate.      *)
LEMMA OrderingCovers ==
  ASSUME TypeOK, NEW s \in Orderings
  PROVE  /\ \A i, j \in DOMAIN s : s[i].num = s[j].num => i = j
         /\ \A i, j \in DOMAIN request : request[i].num = request[j].num => i = j
         /\ \A j \in DOMAIN request : \E i \in DOMAIN s : s[i] = request[j]
<1> DEFINE n == Len(request)
           Nums == {request[i].num : i \in 1 .. n}
           f == [i \in 1 .. n |-> request[i].num]
           g == [i \in 1 .. n |-> s[i].num]
<1> HIDE DEF n, Nums, f, g
<1>1. /\ request \in Seq(Dirty) /\ n \in Nat /\ DOMAIN request = 1 .. n
      /\ s \in Seq(Dirty) /\ DOMAIN s = 1 .. n
      /\ \A i \in 1 .. n : \E j \in 1 .. n : s[i] = request[j]
  <2>1. request \in Seq(Dirty) /\ n \in Nat /\ DOMAIN request = 1 .. n
    BY LenProperties DEF TypeOK, n
  <2>2. s \in Seq(Dirty) /\ DOMAIN s = 1 .. n
    BY OrderingType, LenProperties DEF n
  <2>3. \A i \in DOMAIN s : \E j \in DOMAIN request : s[i] = request[j]
    BY OrderingType
  <2>4. QED
    BY <2>1, <2>2, <2>3
<1>2. \A i \in 1 .. n : s[i].num \in Int
  <2>1. \A i \in 1 .. n : s[i] \in Dirty
    BY <1>1, ElementOfSeq
  <2>2. QED
    BY <2>1 DEF Dirty, ObjNums
<1>3. \A i, j \in 1 .. n : s[i].num = s[j].num => i = j
  <2>1. \A i, j \in 1 .. n : i < j => s[i].num < s[j].num
    BY <1>1 DEF Orderings, Ascending
  <2>2. TAKE i, j \in 1 .. n
  <2>3. s[i].num \in Int /\ s[j].num \in Int /\ i \in Int /\ j \in Int
    BY <1>1, <1>2
  <2>4. i < j \/ j < i \/ i = j
    BY <2>3
  <2>5. QED
    BY <2>1, <2>3, <2>4
<1>4. IsFiniteSet(1 .. n) /\ Cardinality(1 .. n) = n
  BY <1>1, FS_Interval
<1>5. f \in Surjection(1 .. n, Nums)
  BY DEF Surjection, f, Nums
<1>6. g \in Injection(1 .. n, Nums)
  <2>1. g \in [1 .. n -> Nums]
    BY <1>1 DEF g, Nums
  <2>2. QED
    BY <1>3, <2>1 DEF Injection, IsInjective, g
<1>7. /\ IsFiniteSet(Nums) /\ Cardinality(Nums) <= n
      /\ Cardinality(Nums) = n => f \in Injection(1 .. n, Nums)
  BY <1>4, <1>5, FS_Surjection
<1>8. /\ n <= Cardinality(Nums)
      /\ Cardinality(Nums) = n => g \in Surjection(1 .. n, Nums)
  BY <1>4, <1>6, <1>7, FS_Injection
<1>9. Cardinality(Nums) = n
  BY <1>1, <1>7, <1>8, FS_CardinalityType
<1>10. \A i, j \in 1 .. n : request[i].num = request[j].num => i = j
  BY <1>7, <1>9 DEF Injection, IsInjective, f
<1>11. \A j \in 1 .. n : \E i \in 1 .. n : s[i].num = request[j].num
  BY <1>8, <1>9 DEF Surjection, g, Nums
<1>12. ASSUME NEW j \in 1 .. n PROVE \E i \in 1 .. n : s[i] = request[j]
  <2>1. PICK i \in 1 .. n : s[i].num = request[j].num
    BY <1>11
  <2>2. PICK k \in 1 .. n : s[i] = request[k]
    BY <1>1
  <2>3. k = j
    BY <1>10, <2>1, <2>2
  <2>4. QED
    BY <2>2, <2>3
<1>13. QED
  BY <1>1, <1>3, <1>10, <1>12

(* The entry that the table of a revision gives to a number.                *)
LEMMA AppendedEntry ==
  ASSUME NEW s \in Seq(Dirty), AppendedTable(s) \in TableChunk,
         \A i, j \in DOMAIN s : s[i].num = s[j].num => i = j, NEW n
  PROVE  /\ Declares(AppendedTable(s), n) <=> \E i \in DOMAIN s : s[i].num = n
         /\ \A i \in DOMAIN s : s[i].num = n =>
              FirstEntry(AppendedTable(s), n) =
                [num |-> n, gen |-> s[i].gen, state |-> "inuse", off |-> AppendedOffset(i)]
<1> DEFINE t == AppendedTable(s)
<1>1. /\ Len(s) \in Nat /\ DOMAIN s = 1 .. Len(s)
      /\ Len(t.entries) = Len(s)
      /\ \A i \in 1 .. Len(s) :
           t.entries[i] = [num |-> s[i].num, gen |-> s[i].gen, state |-> "inuse",
                           off |-> AppendedOffset(i)]
  BY LenProperties DEF AppendedTable
<1> HIDE DEF t
<1>2. EntryIndexes(t, n) = {i \in 1 .. Len(s) : s[i].num = n}
  <2>1. ASSUME NEW i \in 1 .. Len(s) PROVE t.entries[i].num = s[i].num
    <3>1. t.entries[i] = [num |-> s[i].num, gen |-> s[i].gen, state |-> "inuse",
                          off |-> AppendedOffset(i)]
      BY <1>1
    <3>2. QED
      BY ONLY <3>1
  <2>2. EntryIndexes(t, n) = {i \in 1 .. Len(s) : t.entries[i].num = n}
    BY <1>1 DEF EntryIndexes
  <2>3. QED
    BY <2>1, <2>2
<1>3. ASSUME NEW i \in DOMAIN s, s[i].num = n
      PROVE  FirstEntry(t, n) = t.entries[i]
  <2>1. EntryIndexes(t, n) = {i}
    BY <1>1, <1>2, <1>3
  <2>2. (CHOOSE k \in {i} : \A j \in {i} : k <= j) = i
    BY <1>1, <1>3
  <2>3. QED
    BY <2>1, <2>2 DEF FirstEntry
<1>4. QED
  BY <1>1, <1>2, <1>3 DEF Declares, t

(* What a commit leaves in the file, number by number.                      *)
LEMMA CommitEntries ==
  ASSUME IInv, CommitRevision, NEW s \in Orderings, s \in Seq(Dirty),
         AppendedTable(s) \in TableChunk, file' \in Seq(Chunk),
         \A o \in 1 .. Len(file) : file'[o] = file[o],
         file'[startxref'] = AppendedTable(s), build = "built",
         document' = <<startxref'>> \o document, startxref' \in Nat, NEW n
  PROVE  NewestWins(file', document', n) =
           IF Declares(AppendedTable(s), n) THEN FirstEntry(AppendedTable(s), n)
           ELSE NewestWins(file, document, n)
<1>1. /\ document \in Seq(Nat) /\ Len(document) \in Nat /\ file \in Seq(Chunk)
      /\ IsChain(file, startxref, document)
  BY BuiltChain, LenProperties DEF IInv, TypeOK
<1>2. /\ Len(document') = Len(document) + 1 /\ document'[1] = startxref'
      /\ \A i \in 1 .. Len(document) : document'[i + 1] = document[i]
  BY <1>1, PrependProperties
<1>3. \A i \in 1 .. Len(document) : file'[document[i]] = file[document[i]]
  BY <1>1, LenProperties DEF IsChain, TableOffsets
<1>4. Prepends(file, document, file', document')
  BY <1>1, <1>2, <1>3 DEF Prepends
<1>5. \A f, g, m, K, L : Prepends(f, K, g, L) =>
         /\ Declares(g[L[1]], m) => NewestWins(g, L, m) = FirstEntry(g[L[1]], m)
         /\ ~ Declares(g[L[1]], m) => NewestWins(g, L, m) = NewestWins(f, K, m)
  BY NewestWinsPrepend
<1>6. ASSUME NEW g, NEW L, g = file', L = document'
      PROVE  /\ Declares(g[L[1]], n) => NewestWins(g, L, n) = FirstEntry(g[L[1]], n)
             /\ ~ Declares(g[L[1]], n) => NewestWins(g, L, n) = NewestWins(file, document, n)
  <2>1. Prepends(file, document, g, L)
    BY <1>4, <1>6
  <2>2. QED
    BY ONLY <2>1, <1>5
<1>7. file'[document'[1]] = AppendedTable(s)
  BY <1>2
<1>8. ASSUME NEW g, NEW L, g = file', L = document'
      PROVE  NewestWins(g, L, n) = NewestWins(file', document', n)
  BY <1>8 DEF NewestWins
<1>9. QED
  BY <1>6, <1>7, <1>8

(* What a commit puts beyond the old file is the table and the requested    *)
(* objects, so no object of another number.                                 *)
LEMMA NewObjectsRequested ==
  ASSUME NEW s \in Seq(Dirty), file \in Seq(Chunk), file' \in Seq(Chunk),
         Len(file') = Len(file) + Len(s) + 1, startxref' = Len(file'),
         \A i \in 1 .. Len(s) : file'[Len(file) + i] = AppendedObjects(s)[i],
         file'[startxref'] = AppendedTable(s),
         NEW n, \A i \in DOMAIN s : s[i].num # n,
         NEW o \in DOMAIN file', o \notin DOMAIN file
  PROVE  file'[o].kind # "object" \/ file'[o].num # n
<1>1. /\ Len(file) \in Nat /\ Len(s) \in Nat /\ DOMAIN s = 1 .. Len(s)
      /\ DOMAIN file = 1 .. Len(file) /\ DOMAIN file' = 1 .. Len(file')
  BY LenProperties
<1>2. CASE o = startxref'
  BY <1>2 DEF AppendedTable
<1>3. CASE o # startxref'
  <2>1. /\ o \in 1 .. Len(file') /\ o \notin 1 .. Len(file) /\ o # Len(file')
        /\ Len(file') = Len(file) + Len(s) + 1
    BY <1>1, <1>3
  <2>2. o - Len(file) \in 1 .. Len(s) /\ o = Len(file) + (o - Len(file))
    BY ONLY <1>1, <2>1
  <2>3. PICK i \in 1 .. Len(s) : o = Len(file) + i
    BY <2>2
  <2>4. AppendedObjects(s)[i].num = s[i].num
    BY <1>1 DEF AppendedObjects
  <2>5. file'[o].num = s[i].num
    BY <2>3, <2>4
  <2>6. QED
    BY <1>1, <2>5
<1>4. QED
  BY <1>2, <1>3

(* An accepted write replaces the bodies of exactly the requested objects,  *)
(* all of which exist, and keeps the identity.                              *)
LEMMA CommitRevises ==
  ASSUME IInv, CommitRevision
  PROVE  /\ Store!Applies(StoredBodies, request)
         /\ StoredBodies' = Store!Revised(StoredBodies, request)
         /\ StoredIdentity' = StoredIdentity
<1>1. PICK s \in Orderings :
        /\ ReadyToAppend(s)
        /\ s \in Seq(Dirty)
        /\ AppendedTable(s) \in TableChunk
        /\ file' \in Seq(Chunk)
        /\ Len(file') = Len(file) + Len(s) + 1
        /\ startxref' = Len(file')
        /\ \A o \in 1 .. Len(file) : file'[o] = file[o]
        /\ \A i \in 1 .. Len(s) : file'[Len(file) + i] = AppendedObjects(s)[i]
        /\ file'[startxref'] = AppendedTable(s)
        /\ document' = <<startxref'>> \o document
  BY CommitAppends
<1>2. /\ TypeOK /\ file \in Seq(Chunk) /\ Len(file) \in Nat /\ Len(s) \in Nat
      /\ document \in Seq(Nat) /\ build = "built" /\ request \in Seq(Dirty)
      /\ DOMAIN file = 1 .. Len(file) /\ DOMAIN file' = 1 .. Len(file')
      /\ DOMAIN s = 1 .. Len(s)
  BY <1>1, LenProperties DEF IInv, TypeOK, ReadyToAppend, DirtyReady
<1>3. /\ document # <<>> /\ section_byte_offsets = document
      /\ document \in Seq(TableOffsets(file))
      /\ root_reference = file[startxref].root
  BY <1>2, BuiltChain, FollowedTables
<1>4. /\ \A i, j \in DOMAIN s : s[i].num = s[j].num => i = j
      /\ \A i, j \in DOMAIN request : request[i].num = request[j].num => i = j
      /\ \A j \in DOMAIN request : \E i \in DOMAIN s : s[i] = request[j]
      /\ \A i \in DOMAIN s : \E j \in DOMAIN request : s[i] = request[j]
  BY <1>2, OrderingCovers, OrderingType
<1>5. startxref' \in Nat
  BY <1>1, <1>2
<1> DEFINE t == AppendedTable(s)
<1>12. ASSUME NEW n
       PROVE  NewestWins(file', document', n) =
                IF Declares(t, n) THEN FirstEntry(t, n) ELSE NewestWins(file, document, n)
  BY <1>1, <1>2, <1>5, CommitEntries
<1>13. ASSUME NEW n
       PROVE  /\ Declares(t, n) <=> \E i \in DOMAIN s : s[i].num = n
              /\ \A i \in DOMAIN s : s[i].num = n =>
                   FirstEntry(t, n) =
                     [num |-> n, gen |-> s[i].gen, state |-> "inuse", off |-> AppendedOffset(i)]
  BY <1>1, <1>4, AppendedEntry, ZenonT(40)
<1> HIDE DEF t
<1>6. Store!Applies(StoredBodies, request)
  <2>1. ASSUME NEW j \in DOMAIN request PROVE StoredBodies[request[j].num] # Absent
    <3> DEFINE d == request[j]
               e == NewestWins(file, document, d.num)
    <3>1. d \in Dirty /\ d.num \in ObjNums
      <4>1. d \in Dirty
        BY <1>2, LenProperties, ElementOfSeq
      <4>2. QED
        BY <4>1 DEF Dirty
    <3>2. DirtyRejection(d) = "none"
      BY <1>1, <1>4 DEF ReadyToAppend
    <3>3. Resolution(file, merged[d.num], d.num, d.gen) = "Resolved"
      BY <3>2 DEF DirtyRejection, Resolution
    <3>4. merged[d.num] = e
      BY <1>2, <1>3, <3>1 DEF IInv, BuilderFollowsDocument, FollowedSectionsMerged
    <3>5. /\ e \notin {Absent, Ambiguous} /\ e.gen = d.gen
          /\ e.off \in DOMAIN file /\ file[e.off].kind = "object"
      BY <3>3, <3>4 DEF Resolution
    <3>6. BodyAt(file, e, d.num) = file[e.off].body
      BY <3>3, <3>4, <3>5 DEF BodyAt
    <3>7. file[e.off] \in Chunk
      BY <1>2, <3>5, ElementOfSeq
    <3>8. file[e.off].body \in Bodies
      BY <3>5, <3>7 DEF Chunk, ObjectChunk, TableChunk, OtherChunk
    <3>9. StoredBodies[d.num] = BodyAt(file, e, d.num)
      BY <3>1 DEF StoredBodies
    <3>10. QED
      BY <3>6, <3>8, <3>9
  <2>2. QED
    BY <2>1, <1>4 DEF Store!Applies
<1>7. ASSUME NEW n \in ObjNums, NEW j \in DOMAIN request, request[j].num = n
      PROVE  BodyAt(file', NewestWins(file', document', n), n) = request[j].body
  <2>1. PICK i \in DOMAIN s : s[i] = request[j]
    BY <1>4
  <2> DEFINE e == [num |-> n, gen |-> s[i].gen, state |-> "inuse", off |-> AppendedOffset(i)]
  <2>2. NewestWins(file', document', n) = e
    BY <1>7, <1>12, <1>13, <2>1
  <2>3. e \in Entry
    <3>1. s[i] \in Dirty /\ AppendedOffset(i) \in Nat
      BY <1>1, <1>2, ElementOfSeq DEF AppendedOffset
    <3>2. QED
      BY <3>1 DEF Entry, Dirty
  <2>4. /\ e.off \in DOMAIN file'
        /\ file'[e.off] = [kind |-> "object", num |-> n, gen |-> s[i].gen, body |-> s[i].body]
    <3>1. AppendedOffset(i) = Len(file) + i /\ Len(file) + i \in DOMAIN file'
      BY <1>1, <1>2 DEF AppendedOffset
    <3>2. file'[Len(file) + i] = [kind |-> "object", num |-> n, gen |-> s[i].gen, body |-> s[i].body]
      BY <1>1, <1>2, <1>7, <2>1 DEF AppendedObjects
    <3>3. QED
      BY <3>1, <3>2
  <2>5. e \notin {Absent, Ambiguous} /\ e.state # "free" /\ e.gen = s[i].gen
    BY <2>3, EntriesAreNotSentinels
  <2> HIDE DEF e
  <2>6. BodyAt(file', e, n) = s[i].body
    BY <2>4, <2>5 DEF BodyAt, Resolution
  <2>7. QED
    BY <2>1, <2>2, <2>6
<1>8. ASSUME NEW n \in ObjNums, ~ \E j \in DOMAIN request : request[j].num = n
      PROVE  BodyAt(file', NewestWins(file', document', n), n)
               = BodyAt(file, NewestWins(file, document, n), n)
  <2> DEFINE e == NewestWins(file, document, n)
  <2>1. \A i \in DOMAIN s : s[i].num # n
    BY <1>4, <1>8
  <2>2. NewestWins(file', document', n) = e
    BY <1>12, <1>13, <2>1
  <2>3. e \in Entry \cup {Absent}
    BY <1>2, <1>3, NewestWinsType
  <2> HIDE DEF e
  <2>4. ASSUME e \in Entry, e.off \notin DOMAIN file, e.off \in DOMAIN file'
        PROVE  file'[e.off].kind # "object" \/ file'[e.off].num # n
    BY <1>1, <1>2, <2>1, <2>4, NewObjectsRequested
  <2>5. ASSUME e.off \in DOMAIN file PROVE e.off \in DOMAIN file' /\ file'[e.off] = file[e.off]
    BY <1>1, <1>2, <2>5
  <2>6. BodyAt(file', e, n) = BodyAt(file, e, n)
    BY <2>3, <2>4, <2>5 DEF BodyAt, Resolution
  <2>7. QED
    BY <2>2, <2>6 DEF e
<1>9. StoredBodies' = Store!Revised(StoredBodies, request)
  <2>1. ASSUME NEW n \in ObjNums
        PROVE  BodyAt(file', NewestWins(file', document', n), n) =
                 IF \E i \in DOMAIN request : request[i].num = n
                 THEN request[CHOOSE i \in DOMAIN request : request[i].num = n].body
                 ELSE StoredBodies[n]
    <3>1. CASE \E i \in DOMAIN request : request[i].num = n
      <4>1. PICK j \in DOMAIN request : j = CHOOSE i \in DOMAIN request : request[i].num = n
        BY <3>1
      <4>2. request[j].num = n
        BY <3>1, <4>1
      <4>3. QED
        BY <1>7, <3>1, <4>1, <4>2
    <3>2. CASE ~ \E i \in DOMAIN request : request[i].num = n
      BY <1>8, <3>2 DEF StoredBodies
    <3>3. QED
      BY <3>1, <3>2
  <2>2. QED
    BY <2>1 DEF StoredBodies, Store!Revised
<1>10. StoredIdentity' = StoredIdentity
  <2>1. document' # <<>>
    BY <1>1, <1>2, <1>5, PrependProperties
  <2>2. /\ file'[startxref'].root = file[startxref].root
        /\ file'[startxref'].id = file[startxref].id
        /\ file'[startxref'].info = file[startxref].info
    BY <1>1, <1>3 DEF AppendedTable
  <2>3. QED
    BY <1>3, <2>1, <2>2 DEF StoredIdentity
<1>11. QED
  BY <1>6, <1>9, <1>10

(* A request under way is one a caller made, so it is no absent one.        *)
RequestSubmitted == op = "write" => request \in Requests

LEMMA RequestStaysSubmitted == Spec => []RequestSubmitted
<1>1. Init => RequestSubmitted
  BY DEF Init, RequestSubmitted
<1>2. RequestSubmitted /\ [Next]_vars => RequestSubmitted'
  BY DEF RequestSubmitted, Next, Call, Progress, RejectOpen, OpenSingleTable, OpenChain,
         RejectWrite, BeginWrite, ChainStep, FinishOpenChain, FailChain, RejectDuplicate,
         RejectDirty, RejectOffset, CommitRevision, Return, vars, callVars
<1>3. QED
  BY <1>1, <1>2, PTL DEF Spec

(* Each step of the writer is a step of the store or none.                  *)
LEMMA StepsOfStore ==
  ASSUME IInv, RequestSubmitted, [Next]_vars
  PROVE  [Store!StoreNext]_<<StoredBodies, StoredIdentity, PendingRequest>>
<1>1. ASSUME UNCHANGED <<file, startxref, revisions, document>>
      PROVE  UNCHANGED <<StoredBodies, StoredIdentity>>
  BY <1>1 DEF StoredBodies, StoredIdentity
<1>2. op = "write" => PendingRequest = request /\ request # Absent
  BY DEF PendingRequest, RequestSubmitted
<1>3. op # "write" => PendingRequest = Absent
  BY DEF PendingRequest
<1>4. op' # "write" => PendingRequest' = Absent
  BY DEF PendingRequest
<1>5. CASE CommitRevision
  <2>1. /\ Store!Applies(StoredBodies, request)
        /\ StoredBodies' = Store!Revised(StoredBodies, request)
        /\ StoredIdentity' = StoredIdentity
    BY <1>5, CommitRevises
  <2>2. op = "write" /\ op' = "idle"
    BY <1>5 DEF CommitRevision, ReadyToAppend, DirtyReady, Return
  <2>3. Store!Revise
    BY <1>2, <1>4, <2>1, <2>2 DEF Store!Revise
  <2>4. QED
    BY <2>3 DEF Store!StoreNext
<1>6. ASSUME NEW dirty \in Requests, BeginWrite(dirty)
      PROVE  Store!Submit(dirty)
  <2>1. /\ op = "idle" /\ op' = "write" /\ request' = dirty
        /\ UNCHANGED <<file, startxref, revisions, document>>
    BY <1>6 DEF BeginWrite, fileVars, historyVars
  <2>2. PendingRequest' = dirty
    BY <2>1 DEF PendingRequest
  <2>3. QED
    BY <1>1, <1>3, <2>1, <2>2 DEF Store!Submit
<1>7. ASSUME UNCHANGED <<file, startxref, revisions, document>>,
             op' = "idle" \/ UNCHANGED <<op, request>> \/ (op = "idle" /\ op' = "read")
      PROVE  Store!Refuse \/ UNCHANGED <<StoredBodies, StoredIdentity, PendingRequest>>
  <2>1. UNCHANGED <<StoredBodies, StoredIdentity>>
    BY <1>1, <1>7
  <2>2. CASE op' # "write" /\ op = "write"
    <3>1. Store!Refuse
      BY <1>2, <1>4, <2>1, <2>2 DEF Store!Refuse
    <3>2. QED
      BY <3>1
  <2>3. CASE op' # "write" /\ op # "write"
    BY <1>3, <1>4, <2>1, <2>3
  <2>4. CASE UNCHANGED <<op, request>>
    BY <2>1, <2>4 DEF PendingRequest
  <2>5. QED
    BY <1>7, <2>2, <2>3, <2>4
<1>8. CASE \/ RejectOpen \/ OpenSingleTable \/ RejectWrite \/ FinishOpenChain \/ FailChain
           \/ RejectDuplicate \/ RejectDirty \/ RejectOffset
  <2>1. op' = "idle" /\ UNCHANGED <<file, startxref, revisions, document>>
    BY <1>8 DEF RejectOpen, OpenSingleTable, RejectWrite, FinishOpenChain, FailChain,
                RejectDuplicate, RejectDirty, RejectOffset, Return, fileVars, historyVars
  <2>2. QED
    BY <1>7, <2>1 DEF Store!StoreNext
<1>9. CASE OpenChain
  BY <1>7, <1>9 DEF Store!StoreNext, OpenChain, fileVars, historyVars
<1>10. CASE (ChainStep /\ UNCHANGED callVars) \/ UNCHANGED vars
  <2>1. UNCHANGED <<op, request, file, startxref, revisions, document>>
    BY <1>10 DEF ChainStep, FollowSection, RejectSection, FinishChain, vars, callVars,
                 fileVars, historyVars
  <2>2. QED
    BY <1>7, <2>1 DEF Store!StoreNext
<1>11. QED
  BY <1>5, <1>6, <1>8, <1>9, <1>10 DEF Next, Call, Progress, Store!StoreNext

(* The writer keeps the promise of RevisionStore: an accepted write         *)
(* replaces at once the bodies of exactly the requested objects, all of     *)
(* which existed; every other call leaves the document as it was; and the   *)
(* identity of the document never changes.                                  *)
THEOREM WriterImplementsStore == Spec => ImplementsRevisionStore
<1>1. Init => Store!StoreInit
  <2>1. SUFFICES ASSUME Init PROVE Store!StoreInit
    OBVIOUS
  <2>2. IInv /\ op = "idle"
    BY <2>1, InitIInv DEF Init
  <2>3. file \in Seq(Chunk) /\ document \in Seq(Nat)
    BY <2>2 DEF IInv, TypeOK
  <2>4. ASSUME NEW n \in ObjNums
        PROVE  BodyAt(file, NewestWins(file, document, n), n) \in Bodies \cup {Absent}
    <3> DEFINE e == NewestWins(file, document, n)
    <3>1. CASE \/ e \in {Absent, Ambiguous}
               \/ Resolution(file, e, n, e.gen) # "Resolved"
      BY <3>1 DEF BodyAt
    <3>2. CASE e \notin {Absent, Ambiguous} /\ Resolution(file, e, n, e.gen) = "Resolved"
      <4>1. e.off \in DOMAIN file /\ file[e.off].kind = "object"
        BY <3>2 DEF Resolution
      <4>2. file[e.off] \in Chunk
        BY <2>3, <4>1, LenProperties, ElementOfSeq
      <4>3. file[e.off].body \in Bodies
        BY <4>1, <4>2 DEF Chunk, ObjectChunk, TableChunk, OtherChunk
      <4>4. QED
        BY <3>2, <4>3 DEF BodyAt
    <3>3. QED
      BY <3>1, <3>2
  <2>5. StoredBodies \in [ObjNums -> Bodies \cup {Absent}]
    BY <2>4 DEF StoredBodies
  <2>6. PendingRequest = Absent
    BY <2>2 DEF PendingRequest
  <2>7. QED
    BY <2>5, <2>6 DEF Store!StoreInit
<1>2. IInv /\ RequestSubmitted /\ [Next]_vars =>
        [Store!StoreNext]_<<StoredBodies, StoredIdentity, PendingRequest>>
  BY StepsOfStore
<1>3. QED
  BY <1>1, <1>2, Invariance, RequestStaysSubmitted, PTL
     DEF Spec, ImplementsRevisionStore, Store!StoreSpec

(* The reader's lookup before a revision, of one table or of the chain, and *)
(* after it, always of the chain.                                           *)
LEMMA ViewsOfCommit ==
  ASSUME IInv, CommitRevision, NEW n \in ObjNums
  PROVE  /\ ReferenceView[n] \in {Ambiguous, NewestWins(file, document, n)}
         /\ ReferenceView'[n] = NewestWins(file', document', n)
<1>1. PICK s \in Orderings :
        /\ ReadyToAppend(s) /\ s \in Seq(Dirty)
        /\ Len(file') = Len(file) + Len(s) + 1 /\ startxref' = Len(file')
        /\ document' = <<startxref'>> \o document
  BY CommitAppends
<1>2. TypeOK /\ build = "built"
  BY <1>1 DEF IInv, ReadyToAppend, DirtyReady
<1>3. /\ file \in Seq(Chunk) /\ document \in Seq(Nat)
      /\ Len(file) \in Nat /\ Len(document) \in Nat /\ Len(s) \in Nat
  BY <1>1, <1>2, LenProperties DEF TypeOK
<1>4. Len(document') = Len(document) + 1
  BY <1>1, <1>3, PrependProperties
<1>5. Len(document) >= 1 /\ document[1] = startxref
  BY <1>2, BuiltChain DEF IsChain
<1>6. ReferenceView'[n] = NewestWins(file', document', n)
  <2>1. Len(document') # 1
    BY <1>3, <1>4, <1>5
  <2>2. QED
    BY <2>1 DEF ReferenceView
<1>7. CASE Len(document) # 1
  BY <1>6, <1>7 DEF ReferenceView
<1>8. CASE Len(document) = 1
  <2>1. NewestIndexes(file, document, n) =
          IF Declares(file[startxref], n) THEN {1} ELSE {}
    BY <1>5, <1>8 DEF NewestIndexes
  <2>2. (CHOOSE i \in {1} : \A j \in {1} : i <= j) = 1
    OBVIOUS
  <2>3. NewestWins(file, document, n) =
          IF Declares(file[startxref], n) THEN FirstEntry(file[startxref], n) ELSE Absent
    BY <1>5, <2>1, <2>2 DEF NewestWins
  <2>4. SingleTableEntry(file[startxref], n)
          \in {Ambiguous, NewestWins(file, document, n)}
    BY <2>3 DEF SingleTableEntry, Declares
  <2>5. QED
    BY <1>6, <1>8, <2>4 DEF ReferenceView
<1>9. QED
  BY <1>7, <1>8

(* A revision moves only the objects it rewrites: an untouched number keeps *)
(* its entry, except where appending settles the duplicates of one table.   *)
THEOREM UntouchedKept == Spec => UntouchedEntriesKept
<1> DEFINE Kept ==
      revisions' # revisions =>
        LET before == ReferenceView
            after  == ReferenceView'
        IN  \A n \in ObjNums \ {request[i].num : i \in DOMAIN request} :
              before[n] \in {Ambiguous, after[n]}
<1>1. ASSUME IInv, CommitRevision,
             NEW n \in ObjNums, n \notin {request[i].num : i \in DOMAIN request}
      PROVE  ReferenceView[n] \in {Ambiguous, ReferenceView'[n]}
  <2>1. PICK s \in Orderings :
          /\ ReadyToAppend(s) /\ s \in Seq(Dirty)
          /\ AppendedTable(s) \in TableChunk
          /\ file' \in Seq(Chunk)
          /\ Len(file') = Len(file) + Len(s) + 1 /\ startxref' = Len(file')
          /\ \A o \in 1 .. Len(file) : file'[o] = file[o]
          /\ file'[startxref'] = AppendedTable(s)
          /\ document' = <<startxref'>> \o document
    BY <1>1, CommitAppends
  <2>2. TypeOK /\ build = "built" /\ startxref' \in Nat
    <3>1. TypeOK /\ build = "built"
      BY <1>1, <2>1 DEF IInv, ReadyToAppend, DirtyReady
    <3>2. Len(file) \in Nat /\ Len(s) \in Nat
      BY <2>1, <3>1, LenProperties DEF TypeOK
    <3>3. QED
      BY <2>1, <3>1, <3>2
  <2>3. ~ Declares(AppendedTable(s), n)
    <3>1. /\ \A i, j \in DOMAIN s : s[i].num = s[j].num => i = j
          /\ \A i \in DOMAIN s : \E j \in DOMAIN request : s[i] = request[j]
      BY <2>2, OrderingCovers, OrderingType
    <3>2. \A i \in DOMAIN s : s[i].num # n
      BY <1>1, <3>1
    <3>3. QED
      BY <2>1, <3>1, <3>2, AppendedEntry, ZenonT(40)
  <2>4. NewestWins(file', document', n) = NewestWins(file, document, n)
    BY <1>1, <2>1, <2>2, <2>3, CommitEntries
  <2>5. QED
    BY <1>1, <2>4, ViewsOfCommit
<1>2. IInv /\ [Next]_vars => Kept
  BY <1>1, OnlyCommitWrites
<1>3. QED
  BY <1>2, Invariance, PTL DEF Spec, UntouchedEntriesKept

(* A reference of the chain leads to an object after a commit exactly if it *)
(* led to one before: a rewritten number keeps the generation its entry and *)
(* its object header had, and another entry leads to no appended object.    *)
LEMMA CommitKeepsReferences ==
  ASSUME IInv, CommitRevision, NEW n \in ObjNums, NEW g
  PROVE  Resolution(file, NewestWins(file, document, n), n, g) = "Resolved"
           <=> Resolution(file', NewestWins(file', document', n), n, g) = "Resolved"
<1>1. PICK s \in Orderings :
        /\ ReadyToAppend(s)
        /\ s \in Seq(Dirty)
        /\ AppendedTable(s) \in TableChunk
        /\ file' \in Seq(Chunk)
        /\ Len(file') = Len(file) + Len(s) + 1
        /\ startxref' = Len(file')
        /\ \A o \in 1 .. Len(file) : file'[o] = file[o]
        /\ \A i \in 1 .. Len(s) : file'[Len(file) + i] = AppendedObjects(s)[i]
        /\ file'[startxref'] = AppendedTable(s)
        /\ document' = <<startxref'>> \o document
  BY CommitAppends
<1>2. /\ TypeOK /\ file \in Seq(Chunk) /\ Len(file) \in Nat /\ Len(s) \in Nat
      /\ document \in Seq(Nat) /\ build = "built"
      /\ DOMAIN file = 1 .. Len(file) /\ DOMAIN file' = 1 .. Len(file')
      /\ DOMAIN s = 1 .. Len(s)
  BY <1>1, LenProperties DEF IInv, TypeOK, ReadyToAppend, DirtyReady
<1>3. /\ section_byte_offsets = document
      /\ document \in Seq(TableOffsets(file)) /\ startxref' \in Nat
  BY <1>1, <1>2, BuiltChain, FollowedTables
<1> DEFINE t == AppendedTable(s)
           e == NewestWins(file, document, n)
<1>4. NewestWins(file', document', n) = IF Declares(t, n) THEN FirstEntry(t, n) ELSE e
  BY <1>1, <1>2, <1>3, CommitEntries
<1>5. /\ Declares(t, n) <=> \E i \in DOMAIN s : s[i].num = n
      /\ \A i \in DOMAIN s : s[i].num = n =>
           FirstEntry(t, n) =
             [num |-> n, gen |-> s[i].gen, state |-> "inuse", off |-> AppendedOffset(i)]
  <2>1. \A i, j \in DOMAIN s : s[i].num = s[j].num => i = j
    BY <1>2, OrderingCovers
  <2>2. QED
    BY <1>1, <2>1, AppendedEntry, ZenonT(40)
<1>6. e \in Entry \cup {Absent}
  BY <1>2, <1>3, NewestWinsType
<1> HIDE DEF t
<1>7. CASE \E i \in DOMAIN s : s[i].num = n
  <2>1. PICK i \in DOMAIN s : s[i].num = n
    BY <1>7
  <2> DEFINE f == [num |-> n, gen |-> s[i].gen, state |-> "inuse", off |-> AppendedOffset(i)]
  <2>2. NewestWins(file', document', n) = f
    BY <1>4, <1>5, <2>1
  <2>3. Resolution(file, e, n, s[i].gen) = "Resolved"
    <3>1. DirtyRejection(s[i]) = "none"
      BY <1>1, <2>1 DEF ReadyToAppend
    <3>2. Resolution(file, merged[n], n, s[i].gen) = "Resolved"
      BY <2>1, <3>1 DEF DirtyRejection, Resolution
    <3>3. merged[n] = e
      BY <1>2, <1>3 DEF IInv, BuilderFollowsDocument, FollowedSectionsMerged
    <3>4. QED
      BY <3>2, <3>3
  <2>4. f \in Entry
    <3>1. s[i] \in Dirty /\ AppendedOffset(i) \in Nat
      BY <1>1, <1>2, <2>1, ElementOfSeq DEF AppendedOffset
    <3>2. QED
      BY <3>1 DEF Entry, Dirty
  <2>5. /\ f.off \in DOMAIN file'
        /\ file'[f.off] = [kind |-> "object", num |-> n, gen |-> s[i].gen, body |-> s[i].body]
    <3>1. AppendedOffset(i) = Len(file) + i /\ Len(file) + i \in DOMAIN file'
      BY <1>1, <1>2, <2>1 DEF AppendedOffset
    <3>2. file'[Len(file) + i] = [kind |-> "object", num |-> n, gen |-> s[i].gen, body |-> s[i].body]
      BY <1>1, <1>2, <2>1 DEF AppendedObjects
    <3>3. QED
      BY <3>1, <3>2
  <2>6. f \notin {Absent, Ambiguous} /\ f.state # "free" /\ f.gen = s[i].gen
    BY <2>4, EntriesAreNotSentinels
  <2> HIDE DEF e, f
  <2>7. Resolution(file, e, n, g) = "Resolved" <=> g = s[i].gen
    BY <2>3 DEF Resolution
  <2>8. Resolution(file', f, n, g) = "Resolved" <=> g = s[i].gen
    BY <2>5, <2>6 DEF Resolution
  <2>9. QED
    BY <2>2, <2>7, <2>8 DEF e
<1>8. CASE ~ \E i \in DOMAIN s : s[i].num = n
  <2>1. NewestWins(file', document', n) = e
    BY <1>4, <1>5, <1>8
  <2> HIDE DEF e
  <2>2. ASSUME e \in Entry, e.off \notin DOMAIN file, e.off \in DOMAIN file'
        PROVE  file'[e.off].kind # "object" \/ file'[e.off].num # n
    <3>1. \A i \in DOMAIN s : s[i].num # n
      BY <1>8
    <3>2. QED
      BY <1>1, <1>2, <2>2, <3>1, NewObjectsRequested
  <2>3. ASSUME e.off \in DOMAIN file PROVE e.off \in DOMAIN file' /\ file'[e.off] = file[e.off]
    BY <1>1, <1>2, <2>3
  <2>4. Resolution(file, e, n, g) = "Resolved" <=> Resolution(file', e, n, g) = "Resolved"
    BY <1>6, <2>2, <2>3 DEF Resolution
  <2>5. QED
    BY <2>1, <2>4 DEF e
<1>9. QED
  BY <1>7, <1>8

(* A reference leads to an object before a revision exactly if it does      *)
(* after it, through the lookup the reader uses for each file, except where *)
(* appending settles the duplicates of one table.                           *)
THEOREM ReferencesCorrect == Spec => ReferencesKeepLeading
<1> DEFINE Leading ==
      revisions' # revisions =>
        LET before == ReferenceView
            after  == ReferenceView'
        IN  \A n \in ObjNums, g \in Gens :
              \/ before[n] = Ambiguous
              \/ Resolution(file, before[n], n, g) = "Resolved"
                   <=> Resolution(file', after[n], n, g) = "Resolved"
<1>1. ASSUME IInv, CommitRevision, NEW n \in ObjNums, NEW g \in Gens,
             ReferenceView[n] # Ambiguous
      PROVE  Resolution(file, ReferenceView[n], n, g) = "Resolved"
               <=> Resolution(file', ReferenceView'[n], n, g) = "Resolved"
  <2>1. /\ ReferenceView[n] = NewestWins(file, document, n)
        /\ ReferenceView'[n] = NewestWins(file', document', n)
    BY <1>1, ViewsOfCommit
  <2>2. QED
    BY <1>1, <2>1, CommitKeepsReferences
<1>2. IInv /\ [Next]_vars => Leading
  BY <1>1, OnlyCommitWrites
<1>3. QED
  BY <1>2, Invariance, PTL DEF Spec, ReferencesKeepLeading

-----------------------------------------------------------------------------
(* What was written can be opened again.  A document that carries a         *)
(* revision was built once, so its sections are as many as the builder      *)
(* follows and one more at most, no two of them the same, and its entries   *)
(* within the builder's limit: a revision rewrites numbers the chain has.   *)

DocumentNums == {n \in ObjNums : \E i \in 1 .. Len(document) : Declares(file[document[i]], n)}

Distinct(K) == \A i, j \in 1 .. Len(K) : K[i] = K[j] => i = j

(* A build stays within the limits it checks.                               *)
BuilderWithinLimits ==
  Distinct(section_byte_offsets) /\ Cardinality(MergedNums(merged)) <= MaxEntries

RevisedDocumentOpens ==
  revisions > 0 =>
    /\ document # <<>> /\ file[startxref].prev \in Nat
    /\ ~ file[startxref].encrypt /\ ~ file[startxref].xrefstm
    /\ Len(document) <= MaxSections + 1 /\ Distinct(document)
    /\ Cardinality(DocumentNums) <= MaxEntries
    /\ build \in ChainRejections =>
         build = "SectionLimitExceeded" /\ Len(document) = MaxSections + 1

RInv == BuilderWithinLimits /\ RevisedDocumentOpens /\ ReopenFailsOnlyAtLimit

(* Sets of object numbers can be counted.                                   *)
LEMMA NumsAreFinite ==
  ASSUME NEW S \in SUBSET ObjNums, NEW T \in SUBSET S
  PROVE  /\ Cardinality(S) \in Nat /\ Cardinality(T) \in Nat
         /\ Cardinality(T) <= Cardinality(S)
<1>1. IsFiniteSet(ObjNums)
  BY FS_Interval DEF ObjNums
<1>2. IsFiniteSet(S)
  BY <1>1, FS_Subset
<1>3. QED
  BY <1>2, FS_Subset, FS_CardinalityType

(* The section the builder goes to next is the next one of the document.    *)
LEMMA NextOfDocument ==
  ASSUME IInv, build = "running", next_offset # Absent, document # <<>>
  PROVE  LET k == Len(section_byte_offsets)
         IN  /\ k + 1 \in 1 .. Len(document) /\ next_offset = document[k + 1]
             /\ \A i \in 1 .. k : section_byte_offsets[i] = document[i]
<1> DEFINE K == section_byte_offsets
           k == Len(K)
<1>1. /\ K \in Seq(Nat) /\ k \in Nat /\ document \in Seq(Nat) /\ Len(document) \in Nat
      /\ FollowedSectionsLinked /\ IsChain(file, startxref, document)
  BY LenProperties DEF IInv, TypeOK, BuilderFollowsDocument
<1>2. k <= Len(document) /\ \A i \in 1 .. k : K[i] = document[i]
  BY DEF IInv, BuilderFollowsDocument, FollowedSectionsOfDocument
<1>3. CASE K = <<>>
  <2>1. k = 0 /\ next_offset = startxref
    BY <1>1, <1>3, EmptySeq DEF FollowedSectionsLinked
  <2>2. Len(document) >= 1 /\ document[1] = startxref
    BY <1>1 DEF IsChain
  <2>3. QED
    BY <1>1, <1>2, <2>1, <2>2
<1>4. CASE K # <<>>
  <2>1. k \in 1 .. Len(document) /\ next_offset = file[document[k]].prev
    BY <1>1, <1>2, <1>4, EmptySeq DEF FollowedSectionsLinked
  <2>2. k < Len(document) /\ next_offset = document[k + 1]
    BY <1>1, <2>1 DEF IsChain
  <2>3. QED
    BY <1>1, <1>2, <2>2
<1>5. QED
  BY <1>3, <1>4

(* What the builder has merged, with the next section or without it, are    *)
(* numbers of the document.                                                 *)
LEMMA MergedOfDocument ==
  ASSUME IInv, build = "running", next_offset # Absent, document # <<>>
  PROVE  MergedNums(MergeSection(merged, file[next_offset])) \subseteq DocumentNums
<1> DEFINE K == section_byte_offsets
           k == Len(K)
<1>1. /\ k + 1 \in 1 .. Len(document) /\ next_offset = document[k + 1]
      /\ \A i \in 1 .. k : K[i] = document[i]
      /\ k \in Nat /\ Len(document) \in Nat
  BY NextOfDocument, LenProperties DEF IInv, TypeOK
<1>2. /\ file \in Seq(Chunk) /\ K \in Seq(TableOffsets(file))
      /\ \A n \in ObjNums : merged[n] = NewestWins(file, K, n)
  BY FollowedTables DEF IInv, TypeOK, BuilderFollowsDocument, FollowedSectionsMerged
<1>3. SUFFICES ASSUME NEW n \in ObjNums, MergeSection(merged, file[next_offset])[n] # Absent
               PROVE  \E i \in 1 .. Len(document) : Declares(file[document[i]], n)
  BY DEF MergedNums, DocumentNums
<1>4. CASE merged[n] # Absent
  <2>1. NewestIndexes(file, K, n) # {}
    BY <1>2, <1>4, NewestWinsType
  <2>2. PICK i \in 1 .. k : Declares(file[K[i]], n)
    BY <2>1 DEF NewestIndexes
  <2>3. i \in 1 .. Len(document) /\ K[i] = document[i]
    BY <1>1
  <2>4. QED
    BY <2>2, <2>3
<1>5. CASE merged[n] = Absent
  <2>1. Declares(file[next_offset], n)
    BY <1>3, <1>5 DEF MergeSection
  <2>2. QED
    BY <1>1, <2>1
<1>6. QED
  BY <1>4, <1>5

(* A revised document is refused by the builder for its length alone.       *)
LEMMA RejectedForLength ==
  ASSUME IInv, RInv, revisions > 0, RejectSection
  PROVE  /\ SectionRejection(next_offset) = "SectionLimitExceeded"
         /\ Len(document) = MaxSections + 1
<1> DEFINE K == section_byte_offsets
           k == Len(K)
<1>1. /\ build = "running" /\ next_offset # Absent /\ SectionRejection(next_offset) # "none"
      /\ document # <<>> /\ Len(document) <= MaxSections + 1 /\ Distinct(document)
      /\ Cardinality(DocumentNums) <= MaxEntries
      /\ file \in Seq(Chunk) /\ k \in Nat /\ document \in Seq(Nat) /\ Len(document) \in Nat
  BY LenProperties DEF RejectSection, RInv, RevisedDocumentOpens, IInv, TypeOK
<1>2. /\ k + 1 \in 1 .. Len(document) /\ next_offset = document[k + 1]
      /\ \A i \in 1 .. k : K[i] = document[i]
  BY <1>1, NextOfDocument
<1>3. CASE k >= MaxSections
  <2>1. Len(document) = MaxSections + 1
    BY <1>1, <1>2, <1>3
  <2>2. QED
    BY <1>3, <2>1 DEF SectionRejection
<1>4. CASE ~(k >= MaxSections)
  <2>1. IsChain(file, startxref, document)
    BY <1>1 DEF IInv, BuilderFollowsDocument
  <2>2. /\ next_offset \in TableOffsets(file) /\ file[next_offset] \in TableChunk
        /\ file[next_offset].prev # Unreadable
    <3>1. /\ next_offset \in TableOffsets(file)
          /\ file[next_offset].prev = IF k + 1 < Len(document) THEN document[(k + 1) + 1] ELSE Absent
      BY <1>2, <2>1 DEF IsChain
    <3>2. k + 1 < Len(document) => document[(k + 1) + 1] \in Nat
      BY <1>1, <1>2, ElementOfSeq
    <3>3. QED
      BY <1>1, <3>1, <3>2, TableAtOffset
  <2>3. next_offset \notin Visited
    <3>1. SUFFICES ASSUME NEW i \in 1 .. k, K[i] = next_offset PROVE FALSE
      BY DEF Visited
    <3>2. document[i] = document[k + 1] /\ i \in 1 .. Len(document) /\ i # k + 1
      BY <1>1, <1>2, <3>1
    <3>3. QED
      BY <1>1, <1>2, <3>2 DEF Distinct
  <2>4. next_offset \in DOMAIN file /\ file[next_offset].kind = "table"
    BY <2>2 DEF TableOffsets
  <2>5. root_reference = Absent => file[next_offset].root # Unreadable
    <3>1. SUFFICES ASSUME root_reference = Absent PROVE file[next_offset].root # Unreadable
      OBVIOUS
    <3>2. CASE K = <<>>
      <4>1. next_offset = startxref
        BY <1>1, <3>2 DEF IInv, BuilderFollowsDocument, FollowedSectionsLinked
      <4>2. QED
        BY <2>1, <4>1 DEF IsChain
    <3>3. CASE K # <<>>
      <4>1. root_reference = file[startxref].root /\ startxref \in TableOffsets(file)
        <5>1. 1 \in 1 .. k
          BY <1>1, <3>3, EmptySeq DEF IInv, TypeOK
        <5>2. QED
          BY <1>1, <3>3, <5>1 DEF IInv, BuilderFollowsDocument, FollowedSectionsLinked
      <4>2. file[startxref].root \in ObjNums \cup {Unreadable}
        BY <1>1, <4>1, TableAtOffset DEF TableChunk
      <4>3. QED
        BY <3>1, <4>1, <4>2 DEF ObjNums
    <3>4. QED
      BY <3>2, <3>3
  <2>6. ~(Cardinality(MergedNums(MergeSection(merged, file[next_offset]))) > MaxEntries)
    <3>1. /\ MergedNums(MergeSection(merged, file[next_offset])) \in SUBSET DocumentNums
          /\ DocumentNums \in SUBSET ObjNums
      BY <1>1, MergedOfDocument DEF DocumentNums
    <3>2. QED
      BY <1>1, <3>1, NumsAreFinite
  <2>7. SectionRejection(next_offset) = "none"
    BY <1>4, <2>2, <2>3, <2>4, <2>5, <2>6 DEF SectionRejection, SectionKind
  <2>8. QED
    BY <1>1, <2>7
<1>5. QED
  BY <1>3, <1>4

(* Neither the reader nor the writer turns a revised document away before   *)
(* that.                                                                    *)
LEMMA RevisedOpens ==
  ASSUME IInv, RInv, revisions > 0
  PROVE  /\ OpenRejection = "none" /\ file[startxref].prev # Absent
         /\ WriteRejection = "none"
<1>1. document # <<>> /\ file[startxref].prev \in Nat /\ document \in Seq(Nat)
  BY DEF RInv, RevisedDocumentOpens, IInv, TypeOK
<1>2. IsChain(file, startxref, document)
  BY <1>1 DEF IInv, BuilderFollowsDocument
<1>3. startxref \in TableOffsets(file)
  BY <1>1, <1>2, ChainOfTables
<1>4. startxref \in DOMAIN file /\ file[startxref].kind = "table" /\ startxref # Absent
  BY <1>3, TableAtOffset DEF IInv, TypeOK, TableOffsets
<1>5. OpenRejection = "none" /\ file[startxref].prev # Absent
  BY <1>1, <1>4 DEF OpenRejection, SectionKind
<1>6. WriteRejection = "none"
  BY <1>4 DEF WriteRejection, SectionKind, RInv, RevisedDocumentOpens
<1>7. QED
  BY <1>5, <1>6

-----------------------------------------------------------------------------
(* The file, the chain of the document and its numbers stay.                *)
LEMMA DocumentKept ==
  ASSUME RInv, UNCHANGED <<file, startxref, revisions, document>>,
         build' \in ChainRejections => build' = build
  PROVE  RevisedDocumentOpens'
<1>1. DocumentNums' = DocumentNums
  BY DEF DocumentNums
<1>2. QED
  BY <1>1 DEF RInv, RevisedDocumentOpens, Distinct

(* Calls that return, and the builder fresh.                                *)
LEMMA FreshWithinLimits ==
  ASSUME section_byte_offsets = <<>>, merged = EmptyMap
  PROVE  BuilderWithinLimits
<1>1. Len(section_byte_offsets) = 0 /\ MergedNums(merged) = {}
  BY EmptySeq DEF MergedNums, EmptyMap
<1>2. QED
  BY <1>1, FS_EmptySet DEF BuilderWithinLimits, Distinct

LEMMA ReturnKeepsRInv ==
  ASSUME IInv, RInv, NEW call, NEW result, Return(call, result),
         UNCHANGED <<file, startxref, revisions, document>>,
         revisions > 0 =>
           \/ result = "ok"
           \/ call = "write" /\ result \in RequestRejections
           \/ result = "SectionLimitExceeded" /\ Len(document) = MaxSections + 1
  PROVE  RInv'
<1>1. BuilderWithinLimits'
  <2>1. (section_byte_offsets = <<>>)' /\ (merged = EmptyMap)'
    BY DEF Return
  <2>2. (section_byte_offsets = <<>> /\ merged = EmptyMap => BuilderWithinLimits)'
    BY FreshWithinLimits, PTL
  <2>3. QED
    BY <2>1, <2>2
<1>2. RevisedDocumentOpens'
  BY DocumentKept DEF Return, ChainRejections
<1>3. ReopenFailsOnlyAtLimit'
  BY DEF ReopenFailsOnlyAtLimit, Return
<1>4. QED
  BY <1>1, <1>2, <1>3 DEF RInv

LEMMA StartKeepsRInv ==
  ASSUME RInv, StartChain, UNCHANGED <<file, startxref, revisions, document, outcome>>
  PROVE  RInv'
<1>1. BuilderWithinLimits'
  <2>1. (section_byte_offsets = <<>>)' /\ (merged = EmptyMap)'
    BY DEF StartChain
  <2>2. (section_byte_offsets = <<>> /\ merged = EmptyMap => BuilderWithinLimits)'
    BY FreshWithinLimits, PTL
  <2>3. QED
    BY <2>1, <2>2
<1>2. RevisedDocumentOpens'
  BY DocumentKept DEF StartChain, ChainRejections
<1>3. ReopenFailsOnlyAtLimit'
  BY DEF RInv, ReopenFailsOnlyAtLimit
<1>4. QED
  BY <1>1, <1>2, <1>3 DEF RInv

LEMMA FollowKeepsRInv ==
  ASSUME IInv, RInv, FollowSection, UNCHANGED callVars
  PROVE  RInv'
<1> DEFINE K == section_byte_offsets
           more == Append(K, next_offset)
<1>1. /\ section_byte_offsets' = more /\ SectionRejection(next_offset) = "none"
      /\ merged' = MergeSection(merged, file[next_offset])
      /\ UNCHANGED <<file, startxref, revisions, document, outcome, build>>
      /\ build = "running"
  BY DEF FollowSection, Remember, callVars, historyVars, fileVars
<1>2. K \in Seq(Nat) /\ next_offset \in Nat /\ Distinct(K)
  BY DEF IInv, TypeOK, FollowSection, RInv, BuilderWithinLimits
<1>3. /\ Len(K) \in Nat /\ Len(more) = Len(K) + 1 /\ more[Len(K) + 1] = next_offset
      /\ \A i \in 1 .. Len(K) : more[i] = K[i]
  BY <1>2
<1>4. next_offset \notin {K[i] : i \in 1 .. Len(K)}
  BY <1>1, AcceptedSection DEF IInv, Visited
<1> HIDE DEF more
<1>5. Distinct(more)
  <2>1. SUFFICES ASSUME NEW i \in 1 .. Len(more), NEW j \in 1 .. Len(more), more[i] = more[j]
                 PROVE  i = j
    BY DEF Distinct
  <2>2. (i \in 1 .. Len(K) \/ i = Len(K) + 1) /\ (j \in 1 .. Len(K) \/ j = Len(K) + 1)
    BY <1>3
  <2>3. QED
    BY <2>1, <2>2, <1>2, <1>3, <1>4 DEF Distinct
<1>6. Cardinality(MergedNums(merged')) <= MaxEntries
  <2>1. Cardinality(MergedNums(merged')) \in Nat
    BY NumsAreFinite DEF MergedNums
  <2>2. ~(Cardinality(MergedNums(merged')) > MaxEntries)
    BY <1>1 DEF SectionRejection
  <2>3. QED
    BY <2>1, <2>2
<1>7. BuilderWithinLimits'
  BY <1>1, <1>5, <1>6 DEF BuilderWithinLimits, Distinct, MergedNums
<1>8. RevisedDocumentOpens'
  BY <1>1, DocumentKept
<1>9. ReopenFailsOnlyAtLimit'
  BY <1>1 DEF RInv, ReopenFailsOnlyAtLimit
<1>10. QED
  BY <1>7, <1>8, <1>9 DEF RInv

LEMMA StopKeepsRInv ==
  ASSUME IInv, RInv, RejectSection \/ FinishChain, UNCHANGED callVars
  PROVE  RInv'
<1>1. /\ UNCHANGED <<file, startxref, revisions, document, outcome>>
      /\ UNCHANGED <<section_byte_offsets, merged>>
  BY DEF RejectSection, FinishChain, callVars, historyVars, fileVars
<1>2. BuilderWithinLimits' /\ ReopenFailsOnlyAtLimit'
  BY <1>1 DEF RInv, BuilderWithinLimits, Distinct, MergedNums, ReopenFailsOnlyAtLimit
<1>3. CASE FinishChain
  BY <1>1, <1>2, <1>3, DocumentKept DEF FinishChain, ChainRejections, RInv
<1>4. CASE RejectSection
  <2>1. revisions > 0 =>
          build' = "SectionLimitExceeded" /\ Len(document) = MaxSections + 1
    BY <1>4, RejectedForLength DEF RejectSection
  <2>2. DocumentNums' = DocumentNums
    BY <1>1 DEF DocumentNums
  <2>3. RevisedDocumentOpens'
    BY <1>1, <2>1, <2>2 DEF RInv, RevisedDocumentOpens, Distinct
  <2>4. QED
    BY <1>2, <2>3 DEF RInv
<1>5. QED
  BY <1>3, <1>4

(* A revision makes the chain one section longer, of numbers it had.        *)
LEMMA CommitKeepsRInv ==
  ASSUME IInv, IInv', RInv, CommitRevision
  PROVE  RInv'
<1>1. PICK s \in Orderings :
        /\ ReadyToAppend(s) /\ s \in Seq(Dirty) /\ file' \in Seq(Chunk)
        /\ Len(file') = Len(file) + Len(s) + 1 /\ startxref' = Len(file')
        /\ \A o \in 1 .. Len(file) : file'[o] = file[o]
        /\ file'[startxref'] = AppendedTable(s)
        /\ document' = <<startxref'>> \o document
  BY CommitAppends
<1>2. /\ build = "built" /\ file \in Seq(Chunk) /\ Len(file) \in Nat /\ Len(s) \in Nat
      /\ DOMAIN file = 1 .. Len(file)
      /\ document \in Seq(Nat) /\ Len(document) \in Nat
  BY <1>1, LenProperties DEF IInv, TypeOK, ReadyToAppend, DirtyReady
<1>3. /\ section_byte_offsets = document /\ document # <<>>
      /\ IsChain(file, startxref, document)
      /\ startxref \in Nat /\ document \in Seq(TableOffsets(file))
  BY <1>2, BuiltChain, ChainOfTables, TableAtOffset
<1>4. startxref' \in Nat
  BY <1>1, <1>2
<1>5. /\ document' \in Seq(Nat) /\ Len(document') = Len(document) + 1
      /\ document'[1] = startxref'
      /\ \A i \in 1 .. Len(document) : document'[i + 1] = document[i]
  BY <1>1, <1>2, <1>4, PrependProperties
<1>6. \A i \in 1 .. Len(document) :
        document[i] \in 1 .. Len(file) /\ file'[document[i]] = file[document[i]]
  <2>1. \A i \in 1 .. Len(document) : document[i] \in TableOffsets(file)
    BY <1>3, ElementOfSeq
  <2>2. QED
    BY <1>1, <1>2, <2>1 DEF TableOffsets
<1>7. \A i \in 1 .. Len(document') : i = 1 \/ (i - 1 \in 1 .. Len(document) /\ document'[i] = document[i - 1])
  <2>1. ASSUME NEW i \in 1 .. Len(document'), i # 1
        PROVE  i - 1 \in 1 .. Len(document) /\ i = (i - 1) + 1
    BY <1>2, <1>5, <2>1
  <2>2. QED
    BY <1>5, <2>1
<1>8. Distinct(document')
  <2>1. Distinct(document)
    BY <1>3 DEF RInv, BuilderWithinLimits
  <2>2. \A i \in 1 .. Len(document) : document[i] # startxref'
    BY <1>1, <1>2, <1>6
  <2>3. SUFFICES ASSUME NEW i \in 1 .. Len(document'), NEW j \in 1 .. Len(document'),
                        document'[i] = document'[j]
                 PROVE  i = j
    BY DEF Distinct
  <2>4. i = 1 <=> j = 1
    BY <1>5, <1>7, <2>2, <2>3
  <2>5. CASE i # 1 /\ j # 1
    <3>1. i - 1 = j - 1
      BY <1>7, <2>1, <2>3, <2>5 DEF Distinct
    <3>2. i \in Int /\ j \in Int
      OBVIOUS
    <3>3. QED
      BY <3>1, <3>2
  <2>6. QED
    BY <2>4, <2>5
<1>9. Len(document) <= MaxSections
  BY <1>2, <1>3 DEF IInv, BuilderFollowsDocument, FollowedSectionsLinked
<1>10. MergedNums(merged) \in SUBSET ObjNums /\ DocumentNums' \in SUBSET MergedNums(merged)
  <2>1. \A n \in ObjNums : merged[n] = NewestWins(file, document, n)
    BY <1>2, <1>3 DEF IInv, BuilderFollowsDocument, FollowedSectionsMerged
  <2>2. SUFFICES ASSUME NEW n \in ObjNums, NEW i \in 1 .. Len(document'),
                        Declares(file'[document'[i]], n)
                 PROVE  merged[n] # Absent
    BY DEF DocumentNums, MergedNums
  <2>3. CASE i = 1
    <3>1. Declares(AppendedTable(s), n)
      BY <1>1, <1>5, <2>2, <2>3
    <3>2. PICK j \in 1 .. Len(s) : s[j].num = n
      <4>1. AppendedTable(s).entries = [k \in 1 .. Len(s) |->
                  [num |-> s[k].num, gen |-> s[k].gen, state |-> "inuse", off |-> AppendedOffset(k)]]
        BY DEF AppendedTable
      <4>2. Len(AppendedTable(s).entries) = Len(s)
        BY <1>2, <4>1
      <4>3. PICK j \in 1 .. Len(AppendedTable(s).entries) : AppendedTable(s).entries[j].num = n
        BY <3>1 DEF Declares, EntryIndexes
      <4>4. QED
        BY <4>1, <4>2, <4>3
    <3>3. DirtyRejection(s[j]) = "none"
      BY <1>1, <1>2, <3>2, LenProperties DEF ReadyToAppend
    <3>4. Resolution(file, merged[s[j].num], s[j].num, s[j].gen) = "Resolved"
      BY <3>3 DEF DirtyRejection
    <3>5. QED
      BY <3>2, <3>4 DEF Resolution
  <2>4. CASE i # 1
    <3>1. i - 1 \in 1 .. Len(document) /\ Declares(file[document[i - 1]], n)
      BY <1>6, <1>7, <2>2, <2>4
    <3>2. NewestIndexes(file, document, n) # {}
      BY <3>1 DEF NewestIndexes
    <3>3. NewestWins(file, document, n) # Absent
      BY <1>2, <1>3, <3>2, NewestWinsType
    <3>4. QED
      BY <2>1, <3>3
  <2>5. QED
    BY <2>3, <2>4
<1>11. Cardinality(DocumentNums') <= MaxEntries
  <2>1. Cardinality(MergedNums(merged)) <= MaxEntries
    BY DEF RInv, BuilderWithinLimits
  <2>2. QED
    BY <1>10, <2>1, NumsAreFinite
<1>12. /\ build' = "idle" /\ (section_byte_offsets = <<>>)' /\ (merged = EmptyMap)'
       /\ outcome' = [call |-> "write", result |-> "ok"]
  BY DEF CommitRevision, Return
<1>13. BuilderWithinLimits'
  <2>1. (section_byte_offsets = <<>> /\ merged = EmptyMap => BuilderWithinLimits)'
    BY FreshWithinLimits, PTL
  <2>2. QED
    BY <1>12, <2>1
<1>14. /\ document' # <<>> /\ file'[startxref'].prev \in Nat
       /\ ~ file'[startxref'].encrypt /\ ~ file'[startxref'].xrefstm
  <2>1. /\ AppendedTable(s).prev = startxref
        /\ ~ AppendedTable(s).encrypt /\ ~ AppendedTable(s).xrefstm
    BY DEF AppendedTable
  <2>2. QED
    BY <1>1, <1>2, <1>3, <1>5, <2>1
<1>15. RevisedDocumentOpens'
  BY <1>2, <1>5, <1>8, <1>9, <1>11, <1>12, <1>14 DEF RevisedDocumentOpens, ChainRejections
<1>16. ReopenFailsOnlyAtLimit'
  BY <1>12 DEF ReopenFailsOnlyAtLimit
<1>17. QED
  BY <1>13, <1>15, <1>16 DEF RInv

LEMMA StepKeepsRInv ==
  ASSUME IInv, IInv', RInv, [Next]_vars
  PROVE  RInv'
<1>1. CASE RejectOpen
  BY <1>1, RevisedOpens, ReturnKeepsRInv DEF RejectOpen, fileVars, historyVars
<1>2. CASE OpenSingleTable
  BY <1>2, ReturnKeepsRInv DEF OpenSingleTable, fileVars, historyVars
<1>3. CASE OpenChain
  BY <1>3, StartKeepsRInv DEF OpenChain, fileVars, historyVars
<1>4. CASE RejectWrite
  BY <1>4, RevisedOpens, ReturnKeepsRInv DEF RejectWrite, fileVars, historyVars
<1>5. CASE \E dirty \in Requests : BeginWrite(dirty)
  BY <1>5, StartKeepsRInv DEF BeginWrite, fileVars, historyVars
<1>6. CASE ChainStep /\ UNCHANGED callVars
  BY <1>6, FollowKeepsRInv, StopKeepsRInv DEF ChainStep
<1>7. CASE FinishOpenChain
  BY <1>7, ReturnKeepsRInv DEF FinishOpenChain, fileVars, historyVars
<1>8. CASE FailChain
  <2>1. revisions > 0 => build = "SectionLimitExceeded" /\ Len(document) = MaxSections + 1
    BY <1>8 DEF FailChain, RInv, RevisedDocumentOpens
  <2>2. QED
    BY <1>8, <2>1, ReturnKeepsRInv DEF FailChain, fileVars, historyVars
<1>9. CASE RejectDuplicate
  BY <1>9, ReturnKeepsRInv DEF RejectDuplicate, RequestRejections, fileVars, historyVars
<1>10. CASE RejectDirty
  <2>1. PICK s \in Orderings, i \in DOMAIN request :
          DirtyRejection(s[i]) # "none" /\ Return("write", DirtyRejection(s[i]))
    BY <1>10 DEF RejectDirty
  <2>2. DirtyRejection(s[i]) \in RequestRejections
    BY <2>1 DEF DirtyRejection, RequestRejections
  <2>3. UNCHANGED <<file, startxref, revisions, document>>
    BY <1>10 DEF RejectDirty, fileVars, historyVars
  <2>4. QED
    BY <2>1, <2>2, <2>3, ReturnKeepsRInv
<1>11. CASE RejectOffset
  BY <1>11, ReturnKeepsRInv DEF RejectOffset, RequestRejections, fileVars, historyVars
<1>12. CASE CommitRevision
  BY <1>12, CommitKeepsRInv
<1>13. CASE UNCHANGED vars
  <2>1. DocumentNums' = DocumentNums
    BY <1>13 DEF DocumentNums, vars, fileVars, callVars, historyVars
  <2>2. QED
    BY <1>13, <2>1 DEF RInv, BuilderWithinLimits, RevisedDocumentOpens, ReopenFailsOnlyAtLimit,
                  Distinct, MergedNums, vars, fileVars, chainVars, callVars, historyVars
<1>14. QED
  BY <1>1, <1>2, <1>3, <1>4, <1>5, <1>6, <1>7, <1>8, <1>9, <1>10, <1>11, <1>12, <1>13
     DEF Next, Call, Progress

(* What the writer writes, the reader opens and the writer accepts again,   *)
(* for any limits and any input: apart from a request at fault, only a      *)
(* chain one section longer than the builder follows is refused.            *)
THEOREM ReopenCorrect == Spec => []ReopenFailsOnlyAtLimit
<1>1. Init => RInv
  <2>1. SUFFICES ASSUME Init PROVE RInv
    OBVIOUS
  <2>2. BuilderWithinLimits
    BY <2>1, FreshWithinLimits DEF Init, ChainInit
  <2>3. QED
    BY <2>1, <2>2 DEF Init, RInv, RevisedDocumentOpens, ReopenFailsOnlyAtLimit
<1>2. IInv /\ IInv' /\ RInv /\ [Next]_vars => RInv'
  BY StepKeepsRInv
<1>3. RInv => ReopenFailsOnlyAtLimit
  BY DEF RInv
<1>4. QED
  BY <1>1, <1>2, <1>3, Invariance, PTL DEF Spec

=============================================================================
