--------------------------- MODULE XrefStreamChain ---------------------------
(***************************************************************************)
(* Opening a document whose startxref names a cross-reference stream: one  *)
(* section is used as it is, and with /Prev build_xref_stream_chain merges *)
(* the sections, newest first, one action per turn of its loop.            *)
(***************************************************************************)
EXTENDS StreamFile, FiniteSets

CONSTANTS
  MaxSections,  \* MAX_XREF_STREAM_CHAIN_SECTIONS
  MaxEntries    \* MAX_XREF_STREAM_CHAIN_ENTRIES

ASSUME ChainLimitsAreNat == MaxSections \in Nat \ {0} /\ MaxEntries \in Nat

VARIABLES
  file,
  startxref,
  access,                \* "start", "chain", "catalog", "open" or why not
  next_offset,           \* section to decode next, Absent behind the oldest
  section_byte_offsets,  \* sections merged so far, newest first
  entries,               \* the merged record of each object number
  effective_size,
  root_reference

chainVars ==
  <<next_offset, section_byte_offsets, entries, effective_size, root_reference>>
accessVars == <<file, startxref, access, chainVars>>

ChainRejection ==
  {"SectionLimitExceeded", "OffsetOutOfBounds", "Cycle", "PrevSectionUnclassified",
   "PrevSectionNotXrefStream", "SectionDecode", "EntryLimitExceeded"}

Access ==
  {"start", "chain", "catalog", "open", "ClassicSpine",
   "XrefSectionUnclassified", "XrefStreamDecode", "RootObject"} \cup ChainRejection

EmptyMap == [n \in {} |-> Absent]

ChainTypeOK ==
  /\ access \in Access
  /\ next_offset \in Nat \cup {Absent}
  /\ section_byte_offsets \in Seq(DOMAIN file)
  /\ entries \in [DOMAIN entries -> EntryRecord] /\ DOMAIN entries \subseteq 0..MaxUsize
  /\ effective_size \in Nat
  /\ root_reference \in IndirectRef \cup {Absent}
  /\ Len(section_byte_offsets) <= MaxSections
  /\ Len(section_byte_offsets) > 1 => Cardinality(DOMAIN entries) <= MaxEntries

ChainInit ==
  /\ access = "start"
  /\ next_offset = Absent /\ section_byte_offsets = <<>> /\ entries = EmptyMap
  /\ effective_size = 0 /\ root_reference = Absent

(* The visited set: every section decoded so far was also pushed.           *)
Visited == Range(section_byte_offsets)

(* An older section replaces what a newer one says.                         *)
MergeOldestWins(newer, older) ==
  [n \in DOMAIN newer \cup DOMAIN older |->
     IF n \in DOMAIN older THEN older[n] ELSE newer[n]]

(* A free record does not keep an older one out.                            *)
MergeReviving(newer, older) ==
  [n \in DOMAIN newer \cup DOMAIN older |->
     IF n \in DOMAIN newer /\ (n \in DOMAIN older => newer[n].type # 0)
     THEN newer[n] ELSE older[n]]

MergeSection(newer, older) ==
  [n \in DOMAIN newer \cup DOMAIN older |->
     IF n \in DOMAIN newer THEN newer[n] ELSE older[n]]

Remember(o) == Append(section_byte_offsets, o)

(* The early returns of one turn, in the order the code takes them.         *)
SectionRejection(o) ==
  IF Len(section_byte_offsets) >= MaxSections THEN "SectionLimitExceeded"
  ELSE IF o \notin DOMAIN file THEN "OffsetOutOfBounds"
  ELSE IF o \in Visited THEN "Cycle"
  ELSE IF SectionKind(file, o) = "Unclassified" THEN "PrevSectionUnclassified"
  ELSE IF SectionKind(file, o) = "Table" THEN "PrevSectionNotXrefStream"
  ELSE IF ~SectionDecodes(file[o]) THEN "SectionDecode"
  ELSE IF Cardinality(DOMAIN MergeSection(entries, DecodedEntries(file[o]))) > MaxEntries
       THEN "EntryLimitExceeded"
  ELSE "none"

(* inspect_document_access up to the choice of a spine.                     *)
SpineRejection ==
  IF SectionKind(file, startxref) = "Unclassified" THEN "XrefSectionUnclassified"
  ELSE IF SectionKind(file, startxref) = "Table" THEN "ClassicSpine"
  ELSE IF ~SectionDecodes(file[startxref]) THEN "XrefStreamDecode"
  ELSE "none"

RejectSpine ==
  /\ access = "start" /\ SpineRejection # "none"
  /\ access' = SpineRejection
  /\ UNCHANGED <<file, startxref, chainVars>>

UseSection ==
  /\ access = "start" /\ SpineRejection = "none"
  /\ file[startxref].prev = Absent
  /\ entries' = DecodedEntries(file[startxref])
  /\ effective_size' = file[startxref].size
  /\ root_reference' = file[startxref].root
  /\ section_byte_offsets' = <<startxref>>
  /\ access' = "catalog"
  /\ UNCHANGED <<file, startxref, next_offset>>

StartChain ==
  /\ access = "start" /\ SpineRejection = "none"
  /\ file[startxref].prev # Absent
  /\ next_offset' = startxref
  /\ access' = "chain"
  /\ UNCHANGED <<file, startxref, section_byte_offsets, entries, effective_size,
                 root_reference>>

FollowSection ==
  /\ access = "chain" /\ next_offset # Absent
  /\ SectionRejection(next_offset) = "none"
  /\ LET section == file[next_offset]
     IN  /\ root_reference' =
              IF root_reference = Absent THEN section.root ELSE root_reference
         /\ effective_size' =
              IF section.size > effective_size THEN section.size ELSE effective_size
         /\ entries' = MergeSection(entries, DecodedEntries(section))
         /\ next_offset' = section.prev
  /\ section_byte_offsets' = Remember(next_offset)
  /\ UNCHANGED <<file, startxref, access>>

(* A section decoded before is passed over.                                 *)
RejectSectionPassingOver ==
  /\ access = "chain" /\ next_offset # Absent
  /\ SectionRejection(next_offset) # "none"
  /\ IF SectionRejection(next_offset) = "Cycle"
     THEN next_offset' = file[next_offset].prev /\ UNCHANGED access
     ELSE access' = SectionRejection(next_offset) /\ UNCHANGED next_offset
  /\ UNCHANGED <<file, startxref, section_byte_offsets, entries, effective_size,
                 root_reference>>

RejectSection ==
  /\ access = "chain" /\ next_offset # Absent
  /\ SectionRejection(next_offset) # "none"
  /\ access' = SectionRejection(next_offset)
  /\ UNCHANGED <<file, startxref, chainVars>>

FinishChain ==
  /\ access = "chain" /\ next_offset = Absent
  /\ access' = "catalog"
  /\ UNCHANGED <<file, startxref, chainVars>>

OpenStep ==
  \/ RejectSpine \/ UseSection
  \/ StartChain \/ FollowSection \/ RejectSection \/ FinishChain

=============================================================================
