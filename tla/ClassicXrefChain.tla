--------------------------- MODULE ClassicXrefChain ---------------------------
(***************************************************************************)
(* build_classic_xref_chain: the bounded loop that follows /Prev from the  *)
(* newest section to the oldest and merges the entries newest-wins.  One   *)
(* action per turn of the loop.                                            *)
(*                                                                         *)
(* A classic-xref PDF, as the incremental writer and the document reader   *)
(* see it, is a sequence of chunks.  A byte offset is the index of the     *)
(* chunk that starts there; an offset into the middle of a chunk is the    *)
(* offset of a "junk" chunk.  Object bodies, /ID and /Info are opaque.     *)
(***************************************************************************)
EXTENDS Integers, Sequences, FiniteSets

CONSTANTS
  MaxObjNum,   (* The largest object number; u32::MAX in the code.         *)
  Gens,        (* Generation numbers.                                      *)
  Bodies,      (* Object bodies, compared and never read.                  *)
  Idents,      (* Values a trailer can give /ID or /Info.                  *)
  Absent,      (* No such key, entry or offset (None in the code).         *)
  Ambiguous,   (* Two entries of one table claim the number.               *)
  Unreadable   (* A trailer value the inspectors reject.                   *)

ASSUME MaxObjNumAssumption == MaxObjNum \in Nat
ObjNums == 0 .. MaxObjNum

(* One parsed entry of a classic table, in source order.  "free" entries    *)
(* keep the free-list link in off.                                          *)
Entry == [num : ObjNums, gen : Gens, state : {"inuse", "free"}, off : Nat]

ASSUME SentinelAssumption ==
  /\ Absent \notin Nat /\ Unreadable \notin Nat
  /\ Absent # Unreadable
  /\ {Absent, Ambiguous} \cap (Bodies \cup Entry) = {}

ObjectChunk == [kind : {"object"}, num : ObjNums, gen : Gens, body : Bodies]

(* A table with its trailer: prev is /Prev, size the direct /Size, root     *)
(* /Root; encrypt and xrefstm say whether /Encrypt and /XRefStm are there.  *)
TableChunk ==
  [kind : {"table"}, entries : Seq(Entry),
   prev : Nat \cup {Absent, Unreadable}, size : Nat \cup {Absent},
   root : ObjNums \cup {Unreadable},
   id : Idents \cup {Absent}, info : Idents \cup {Absent},
   encrypt : BOOLEAN, xrefstm : BOOLEAN]

(* "badtable" starts with the xref keyword and fails table inspection;      *)
(* "junk" is neither a table nor an object header.                          *)
OtherChunk == [kind : {"badtable", "junk"}]

Chunk == ObjectChunk \cup TableChunk \cup OtherChunk

(* classify_xref_section: an N G obj header classifies as a stream section. *)
SectionKind(f, o) ==
  IF o \notin DOMAIN f \/ f[o].kind = "junk" THEN "Unclassified"
  ELSE IF f[o].kind = "object" THEN "Stream" ELSE "Table"

-----------------------------------------------------------------------------
(* Looking an object number up in one section.                              *)

EntryIndexes(table, n) ==
  {i \in 1 .. Len(table.entries) : table.entries[i].num = n}

Declares(table, n) == EntryIndexes(table, n) # {}

(* Within one section the first entry in source order wins.                 *)
FirstEntry(table, n) ==
  LET S == EntryIndexes(table, n)
  IN  table.entries[CHOOSE i \in S : \A j \in S : i <= j]

(* The single-table resolver scans the whole table and refuses to choose    *)
(* between two entries for one number.                                      *)
SingleTableEntry(table, n) ==
  LET S == EntryIndexes(table, n)
  IN  IF S = {} THEN Absent
      ELSE IF \E i, j \in S : i # j THEN Ambiguous ELSE FirstEntry(table, n)

-----------------------------------------------------------------------------
(* The reference definition of a revision chain, newest section first, and  *)
(* of the entry it gives each object number.                                *)

TableOffsets(f) == {o \in DOMAIN f : f[o].kind = "table"}

IsChain(f, start, K) ==
  /\ Len(K) >= 1
  /\ K[1] = start
  /\ \A i \in 1 .. Len(K) :
       /\ K[i] \in TableOffsets(f)
       /\ f[K[i]].prev = IF i < Len(K) THEN K[i + 1] ELSE Absent
  /\ f[start].root # Unreadable

(* The chains of at most bound sections from start: one or none.            *)
Chains(f, start, bound) ==
  {K \in UNION {[1 .. k -> TableOffsets(f)] : k \in 1 .. bound} :
     IsChain(f, start, K)}

NewestIndexes(f, K, n) == {i \in 1 .. Len(K) : Declares(f[K[i]], n)}

NewestWins(f, K, n) ==
  LET S == NewestIndexes(f, K, n)
  IN  IF S = {} THEN Absent
      ELSE FirstEntry(f[K[CHOOSE i \in S : \A j \in S : i <= j]], n)

-----------------------------------------------------------------------------
(* resolve_xref_object_offset over a located entry: the entry must be in    *)
(* use, of the requested generation, and point at that object's header.     *)

Resolution(f, entry, num, gen) ==
  IF entry \in {Absent, Ambiguous} THEN "UnresolvedXrefLocation"
  ELSE IF entry.state = "free" THEN "UnresolvedXrefLocation"
  ELSE IF entry.gen # gen THEN "GenerationMismatch"
  ELSE IF \/ entry.off \notin DOMAIN f
          \/ f[entry.off].kind # "object" THEN "ObjectHeader"
  ELSE IF \/ f[entry.off].num # num
          \/ f[entry.off].gen # gen THEN "ObjectHeaderReferenceMismatch"
  ELSE "Resolved"

(* The body the entry leads to, for the generation the entry itself names.  *)
BodyAt(f, entry, num) ==
  IF \/ entry \in {Absent, Ambiguous}
     \/ Resolution(f, entry, num, entry.gen) # "Resolved" THEN Absent
  ELSE f[entry.off].body

-----------------------------------------------------------------------------
CONSTANTS
  MaxSections,  (* MAX_CLASSIC_XREF_CHAIN_SECTIONS *)
  MaxEntries    (* MAX_CLASSIC_XREF_CHAIN_ENTRIES  *)

ASSUME ChainLimitsAssumption == MaxSections \in Nat \ {0} /\ MaxEntries \in Nat

VARIABLES
  file,                  (* The input: a sequence of chunks.               *)
  startxref,             (* Offset the final startxref record gives.       *)
  build,                 (* "idle", "running", "built" or the rejection.   *)
  next_offset,           (* Section to open next, Absent at the end.       *)
  section_byte_offsets,  (* Sections followed so far, newest first.        *)
  merged,                (* Entry kept for each number, Absent if none.    *)
  effective_size,        (* Largest readable /Size so far.                 *)
  root_reference         (* /Root of the newest section, Absent before it. *)

fileVars  == <<file, startxref>>
chainVars == <<build, next_offset, section_byte_offsets, merged,
               effective_size, root_reference>>

(* The visited set: every opened section has been pushed when a turn ends.  *)
Visited == {section_byte_offsets[i] : i \in 1 .. Len(section_byte_offsets)}

EmptyMap == [n \in ObjNums |-> Absent]

MergedNums(m) == {n \in ObjNums : m[n] # Absent}

(* Mutants of MergeSection: the single-table lookup reused, the oldest      *)
(* section winning, free entries skipped.                                   *)
MergeAmbiguous(m, table) ==
  [n \in ObjNums |-> IF m[n] # Absent THEN m[n] ELSE SingleTableEntry(table, n)]

MergeOldestWins(m, table) ==
  [n \in ObjNums |-> IF Declares(table, n) THEN FirstEntry(table, n) ELSE m[n]]

MergeSkippingFree(m, table) ==
  [n \in ObjNums |->
     IF m[n] = Absent /\ Declares(table, n) /\ FirstEntry(table, n).state = "inuse"
     THEN FirstEntry(table, n) ELSE m[n]]

(* merge_section_entries: a number already present is never replaced.       *)
MergeSection(m, table) ==
  [n \in ObjNums |->
     IF m[n] # Absent THEN m[n]
     ELSE IF Declares(table, n) THEN FirstEntry(table, n) ELSE Absent]

Remember(o) == Append(section_byte_offsets, o)

ChainRejections ==
  {"SectionLimitExceeded", "OffsetOutOfBounds", "Cycle",
   "PrevSectionUnclassified", "PrevSectionNotClassicXref", "SectionTable",
   "TrailerRoot", "TrailerPrev", "EntryLimitExceeded"}

(* The early returns of one turn, in the order the code takes them.         *)
SectionRejection(o) ==
  IF Len(section_byte_offsets) >= MaxSections THEN "SectionLimitExceeded"
  ELSE IF o \notin DOMAIN file THEN "OffsetOutOfBounds"
  ELSE IF o \in Visited THEN "Cycle"
  ELSE IF SectionKind(file, o) = "Unclassified" THEN "PrevSectionUnclassified"
  ELSE IF SectionKind(file, o) = "Stream" THEN "PrevSectionNotClassicXref"
  ELSE IF file[o].kind = "badtable" THEN "SectionTable"
  ELSE IF root_reference = Absent /\ file[o].root = Unreadable
    THEN "TrailerRoot"
  ELSE IF file[o].prev = Unreadable THEN "TrailerPrev"
  ELSE IF Cardinality(MergedNums(MergeSection(merged, file[o]))) > MaxEntries
    THEN "EntryLimitExceeded"
  ELSE "none"

ChainInit ==
  /\ build = "idle"
  /\ next_offset = Absent
  /\ section_byte_offsets = <<>>
  /\ merged = EmptyMap
  /\ effective_size = 0
  /\ root_reference = Absent

(* Entering build_classic_xref_chain: its locals start afresh.              *)
StartChain ==
  /\ build' = "running"
  /\ next_offset' = startxref
  /\ section_byte_offsets' = <<>>
  /\ merged' = EmptyMap
  /\ effective_size' = 0
  /\ root_reference' = Absent

FollowSection ==
  /\ build = "running"
  /\ next_offset # Absent
  /\ SectionRejection(next_offset) = "none"
  /\ LET table == file[next_offset]
     IN  /\ root_reference' =
              IF root_reference = Absent THEN table.root ELSE root_reference
         /\ effective_size' =
              IF table.size # Absent /\ table.size > effective_size
              THEN table.size ELSE effective_size
         /\ merged' = MergeSection(merged, table)
         /\ section_byte_offsets' = Remember(next_offset)
         /\ next_offset' = table.prev
  /\ UNCHANGED <<fileVars, build>>

(* Mutant of RejectSection: a section met before is passed over.            *)
RejectSectionPassingOver ==
  /\ build = "running"
  /\ next_offset # Absent
  /\ SectionRejection(next_offset) # "none"
  /\ IF SectionRejection(next_offset) = "Cycle"
     THEN next_offset' = file[next_offset].prev /\ UNCHANGED build
     ELSE build' = SectionRejection(next_offset) /\ UNCHANGED next_offset
  /\ UNCHANGED <<fileVars, section_byte_offsets, merged, effective_size,
                 root_reference>>

RejectSection ==
  /\ build = "running"
  /\ next_offset # Absent
  /\ SectionRejection(next_offset) # "none"
  /\ build' = SectionRejection(next_offset)
  /\ UNCHANGED <<fileVars, next_offset, section_byte_offsets, merged,
                 effective_size, root_reference>>

FinishChain ==
  /\ build = "running"
  /\ next_offset = Absent
  /\ build' = "built"
  /\ UNCHANGED <<fileVars, next_offset, section_byte_offsets, merged,
                 effective_size, root_reference>>

ChainStep == FollowSection \/ RejectSection \/ FinishChain

=============================================================================
