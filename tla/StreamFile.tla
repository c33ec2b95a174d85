------------------------------ MODULE StreamFile ------------------------------
(***************************************************************************)
(* A PDF with cross-reference streams: a sequence of chunks, an offset     *)
(* being the index of the chunk that starts there.  Cross-reference and    *)
(* object streams carry what their dictionaries state and their decoded    *)
(* bodies; other objects carry nothing but their headers.                  *)
(***************************************************************************)
EXTENDS Integers, SequencesExt

CONSTANTS
  MaxObjNum,     \* u32::MAX
  MaxGen,        \* u16::MAX
  MaxUsize,      \* usize::MAX
  MaxFieldWidth, \* MAX_FIELD_WIDTH: the bytes of a u64
  Word,          \* model value: a word that is no integer, in an object stream
  ObjectHeader,  \* model value: an indirect-object header there
  Absent,        \* model value: no such key
  Unreadable     \* model value: stated in a form the code rejects, or not at all

ASSUME WidthsAreNat == {MaxObjNum, MaxGen, MaxUsize, MaxFieldWidth} \subseteq Nat
ASSUME AbsentIsNoOffset == Absent \notin Nat

Byte == 0..255
IndirectRef == [num : 0..MaxObjNum, gen : 0..MaxGen]
ASSUME AbsentIsNoReference == Absent \notin IndirectRef
Header == [num : 0..MaxObjNum, gen : 0..MaxGen]

(* A decoded object stream is a sequence of cells, offsets count cells.     *)
Cell == Nat \cup {Word, ObjectHeader}

Chunk ==
  [kind : {"object"}, header : Header]
    \cup [kind : {"objstm"}, header : Header, count : Nat \cup {Unreadable},
          first : Nat \cup {Unreadable}, decoded : Seq(Cell) \cup {Unreadable}]
    \cup [kind : {"xref"}, header : Header, widths : Seq(Nat) \cup {Unreadable},
          size : Nat \cup {Unreadable}, index : Seq(Nat) \cup {Absent, Unreadable},
          root : IndirectRef \cup {Unreadable}, prev : Nat \cup {Absent, Unreadable},
          body : Seq(Byte) \cup {Unreadable}]
    \cup [kind : {"table", "junk"}]

IsObject(chunk) == chunk.kind \in {"object", "objstm", "xref"}

(* classify_xref_section: any object header counts as a stream.             *)
SectionKind(file, o) ==
  IF o \notin DOMAIN file \/ file[o].kind = "junk" THEN "Unclassified"
  ELSE IF file[o].kind = "table" THEN "Table" ELSE "Stream"

-----------------------------------------------------------------------------
(***************************************************************************)
(* One cross-reference stream section.                                     *)
(***************************************************************************)
Geometry(x) ==
  /\ x.widths # Unreadable /\ Len(x.widths) = 3
  /\ x.size # Unreadable
  /\ x.index # Unreadable
  /\ x.index = Absent \/ Len(x.index) % 2 = 0

(* /Index pairs; without the key one subsection covers 0..Size-1.           *)
Subsections(x) ==
  IF x.index = Absent THEN << <<0, x.size>> >>
  ELSE [i \in 1..(Len(x.index) \div 2) |-> <<x.index[2 * i - 1], x.index[2 * i]>>]

(* The object number of each record, in the order of the records.           *)
ObjectNumbers(x) ==
  FlattenSeq([i \in DOMAIN Subsections(x) |->
    [j \in 1..Subsections(x)[i][2] |-> Subsections(x)[i][1] + j - 1]])

RecordWidth(x) == x.widths[1] + x.widths[2] + x.widths[3]

BigEndian(bytes) ==
  LET value[i \in 0..Len(bytes)] == IF i = 0 THEN 0 ELSE value[i - 1] * 256 + bytes[i]
  IN  value[Len(bytes)]

Field(x, before, width, default) ==
  IF width = 0 THEN default ELSE BigEndian(SubSeq(x.body, before + 1, before + width))

(* The k-th record: a missing type is 1, the other fields default to 0.     *)
Record(x, k) ==
  LET at == (k - 1) * RecordWidth(x)
  IN  [type   |-> Field(x, at, x.widths[1], 1),
       field2 |-> Field(x, at + x.widths[1], x.widths[2], 0),
       field3 |-> Field(x, at + x.widths[1] + x.widths[2], x.widths[3], 0)]

EntryRecord == [type : Nat, field2 : Nat, field3 : Nat]

Navigable(x) == x.root # Unreadable /\ x.prev # Unreadable

(* Fields fit a u64, and the body is exactly the records /Index announces.  *)
WellSized(x) ==
  /\ \A j \in 1..3 : x.widths[j] <= MaxFieldWidth
  /\ RecordWidth(x) # 0
  /\ Len(x.body) = Len(ObjectNumbers(x)) * RecordWidth(x)
  /\ \A k \in DOMAIN ObjectNumbers(x) : ObjectNumbers(x)[k] <= MaxUsize

BodyDecodes(x) == x.body # Unreadable

SectionDecodes(x) ==
  /\ x.kind = "xref"
  /\ Geometry(x) /\ Navigable(x) /\ BodyDecodes(x) /\ WellSized(x)

(* The first of several records for a number is kept.                       *)
DecodedEntriesFirst(x) ==
  LET numbers == ObjectNumbers(x)
  IN  [n \in Range(numbers) |->
         Record(x, CHOOSE k \in DOMAIN numbers :
                     numbers[k] = n /\ \A j \in 1..(k - 1) : numbers[j] # n)]

(* resolve_duplicate_object_numbers: the last subsection wins.              *)
DecodedEntries(x) ==
  LET numbers == ObjectNumbers(x)
  IN  [n \in Range(numbers) |->
         Record(x, CHOOSE k \in DOMAIN numbers :
                     numbers[k] = n /\ \A j \in (k + 1)..Len(numbers) : numbers[j] # n)]

=============================================================================
