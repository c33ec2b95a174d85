---------------------------- MODULE StreamDocument ----------------------------
(***************************************************************************)
(* Resolving references in an opened cross-reference stream document:      *)
(* resolve_object with its two kinds of place, an offset of the file and a *)
(* span of a decoded object stream.                                        *)
(***************************************************************************)
EXTENDS XrefStreamChain

CONSTANTS
  Documents,   \* inputs: [file, startxref]
  References   \* what callers resolve

ASSUME DocumentsAreFiles ==
  \A d \in Documents : d.file \in Seq(Chunk) /\ d.startxref \in Nat
ASSUME ReferencesAreRefs == References \subseteq IndirectRef

VARIABLES
  asked,    \* the last reference resolved, Absent before the catalog's
  answer    \* what resolving it gave: [result, place]

vars == <<accessVars, asked, answer>>

(* A place is <<offset>>, or <<offset of the object stream, start, end>>    *)
(* with the span from start up to, not including, end.                      *)
Unresolved(reason) == [result |-> reason, place |-> <<>>]

ResolutionFailure ==
  {"UnresolvedXrefLocation", "UnsupportedCompressedXrefStreamEntry",
   "UnsupportedReservedXrefStreamEntry", "GenerationMismatch", "ObjectHeader",
   "ObjectHeaderReferenceMismatch", "CompressedObjectGenerationNotZero",
   "ObjectStreamIsCompressed", "ObjectStreamObjectUnresolved",
   "ObjectStreamMemberExtraction"}

TypeOK ==
  /\ ChainTypeOK
  /\ asked \in IndirectRef \cup {Absent}
  /\ answer \in [result : ResolutionFailure \cup {"None", "Uncompressed", "Compressed"},
                 place : Seq(Nat)]

Init ==
  /\ \E d \in Documents : file = d.file /\ startxref = d.startxref
  /\ ChainInit
  /\ asked = Absent /\ answer = Unresolved("None")

-----------------------------------------------------------------------------
(***************************************************************************)
(* locate_xref_object: what the merged records say of a number.            *)
(***************************************************************************)
Location(n) ==
  IF n \notin DOMAIN entries THEN "NotFound"
  ELSE LET e == entries[n] IN
    CASE e.type = 0 -> "Free"
      [] e.type = 1 -> IF e.field3 > MaxGen THEN "GenerationOutOfRange" ELSE "Uncompressed"
      [] e.type = 2 -> "Compressed"
      [] OTHER -> "Reserved"

(* The header at the offset is not compared with the reference.             *)
ResolveOffsetUnnamed(ref) ==
  LET location == Location(ref.num)
      o == entries[ref.num].field2
  IN  IF location = "Compressed" THEN Unresolved("UnsupportedCompressedXrefStreamEntry")
      ELSE IF location = "Reserved" THEN Unresolved("UnsupportedReservedXrefStreamEntry")
      ELSE IF location # "Uncompressed" THEN Unresolved("UnresolvedXrefLocation")
      ELSE IF entries[ref.num].field3 # ref.gen THEN Unresolved("GenerationMismatch")
      ELSE IF o \notin DOMAIN file \/ ~IsObject(file[o]) THEN Unresolved("ObjectHeader")
      ELSE [result |-> "Uncompressed", place |-> <<o>>]

(* resolve_xref_object_offset: the record must be in use, of the requested  *)
(* generation, and lead to the header of that very object.                  *)
ResolveOffset(ref) ==
  LET location == Location(ref.num)
      o == entries[ref.num].field2
  IN  IF location = "Compressed" THEN Unresolved("UnsupportedCompressedXrefStreamEntry")
      ELSE IF location = "Reserved" THEN Unresolved("UnsupportedReservedXrefStreamEntry")
      ELSE IF location # "Uncompressed" THEN Unresolved("UnresolvedXrefLocation")
      ELSE IF entries[ref.num].field3 # ref.gen THEN Unresolved("GenerationMismatch")
      ELSE IF o \notin DOMAIN file \/ ~IsObject(file[o]) THEN Unresolved("ObjectHeader")
      ELSE IF file[o].header # ref THEN Unresolved("ObjectHeaderReferenceMismatch")
      ELSE [result |-> "Uncompressed", place |-> <<o>>]

-----------------------------------------------------------------------------
(***************************************************************************)
(* extract_object_stream_member: the header of the stream is /N pairs of   *)
(* an object number and an offset behind /First.                           *)
(***************************************************************************)
MemberNumber(s, i) == s.decoded[2 * i - 1]
MemberOffset(s, i) == s.decoded[2 * i]

(* Offsets need only lie within the stream.                                 *)
ValidOffsetsInRange(s) == \A i \in 1..s.count : s.first + MemberOffset(s, i) <= Len(s.decoded)

ValidOffsets(s) ==
  /\ \A i \in 1..s.count : s.first + MemberOffset(s, i) <= Len(s.decoded)
  /\ \A i \in 2..s.count : MemberOffset(s, i) > MemberOffset(s, i - 1)

Described(s) == s.kind = "objstm" /\ s.count # Unreadable /\ s.first # Unreadable

StreamDecodes(s) == s.decoded # Unreadable

HeaderReads(s) ==
  (\A c \in 1..s.first : s.decoded[c] \in Nat) /\ s.first = 2 * s.count

ReadableObjectStream(s) ==
  /\ Described(s) /\ StreamDecodes(s)
  /\ s.first <= Len(s.decoded)
  /\ HeaderReads(s) /\ ValidOffsets(s)

SpanStart(s, i) == s.first + MemberOffset(s, i)
SpanEnd(s, i) == IF i < s.count THEN SpanStart(s, i + 1) ELSE Len(s.decoded)

(* Whatever stands at the index is taken for the member.                    *)
ExtractsUnnumbered(s, n, i) ==
  /\ ReadableObjectStream(s)
  /\ i <= s.count
  /\ SpanStart(s, i) < SpanEnd(s, i) => s.decoded[SpanStart(s, i) + 1] # ObjectHeader

(* The i-th member is object n.                                             *)
Extracts(s, n, i) ==
  /\ ReadableObjectStream(s)
  /\ i <= s.count
  /\ MemberNumber(s, i) = n
  /\ SpanStart(s, i) < SpanEnd(s, i) => s.decoded[SpanStart(s, i) + 1] # ObjectHeader

(* resolve_compressed_object; the record counts members from 0.             *)
ResolveMember(ref) ==
  LET container == [num |-> entries[ref.num].field2, gen |-> 0]
      index == entries[ref.num].field3 + 1
      located == ResolveOffset(container)
      stream == file[located.place[1]]
  IN  IF ref.gen # 0 THEN Unresolved("CompressedObjectGenerationNotZero")
      ELSE IF container.num > MaxObjNum THEN Unresolved("ObjectStreamObjectUnresolved")
      ELSE IF located.result = "UnsupportedCompressedXrefStreamEntry"
           THEN Unresolved("ObjectStreamIsCompressed")
      ELSE IF located.result # "Uncompressed" THEN Unresolved("ObjectStreamObjectUnresolved")
      ELSE IF ~Extracts(stream, ref.num, index) THEN Unresolved("ObjectStreamMemberExtraction")
      ELSE [result |-> "Compressed",
            place |-> <<located.place[1], SpanStart(stream, index), SpanEnd(stream, index)>>]

(* resolve_object                                                           *)
Resolve(ref) ==
  IF Location(ref.num) = "Compressed" THEN ResolveMember(ref) ELSE ResolveOffset(ref)

Resolved(reply) == reply.result \in {"Uncompressed", "Compressed"}

-----------------------------------------------------------------------------
Open == OpenStep /\ UNCHANGED <<asked, answer>>

(* walk_spine resolves /Root before it reads on.                            *)
ResolveCatalog ==
  /\ access = "catalog"
  /\ asked' = root_reference
  /\ answer' = Resolve(root_reference)
  /\ access' = IF Resolved(answer') THEN "open" ELSE "RootObject"
  /\ UNCHANGED <<file, startxref, chainVars>>

ResolveObject ==
  /\ access = "open"
  /\ \E ref \in References : asked' = ref /\ answer' = Resolve(ref)
  /\ UNCHANGED accessVars

(* The caller has its error.                                                *)
Failed ==
  /\ access \notin {"start", "chain", "catalog", "open"}
  /\ UNCHANGED vars

Next == Open \/ ResolveCatalog \/ ResolveObject \/ Failed

(* Opening is one call that never pauses; nothing makes callers ask.        *)
Spec == Init /\ [][Next]_vars /\ WF_vars(Open) /\ WF_vars(ResolveCatalog)

-----------------------------------------------------------------------------
(***************************************************************************)
(* The reference reading of a file: a path of sections from startxref, one *)
(* /Prev after the other, and of each number that they list the last       *)
(* record of the newest section that lists it.                             *)
(***************************************************************************)
Decodes(o) == o \in DOMAIN file /\ SectionDecodes(file[o])
Numbers(o) == ObjectNumbers(file[o])

IsPath(path) ==
  /\ path[1] = startxref
  /\ \A i \in 1..Len(path) : Decodes(path[i])
  /\ \A i \in 2..Len(path) : path[i] = file[path[i - 1]].prev

EndsThere(path) == file[path[Len(path)]].prev = Absent

WholePaths ==
  {path \in UNION {[1..n -> DOMAIN file] : n \in 1..MaxSections} :
     IsPath(path) /\ EndsThere(path)}

Listed(path) == UNION {Range(Numbers(path[i])) : i \in 1..Len(path)}

CurrentRecord(path, n, record) ==
  \E i \in 1..Len(path) : \E k \in 1..Len(Numbers(path[i])) :
    /\ Numbers(path[i])[k] = n /\ record = Record(file[path[i]], k)
    /\ \A h \in (k + 1)..Len(Numbers(path[i])) : Numbers(path[i])[h] # n
    /\ \A j \in 1..(i - 1) : n \notin Range(Numbers(path[j]))

(***************************************************************************)
(* An opened document answers from exactly the sections of its /Prev       *)
(* chain, and as if they had been applied in the order they were written:  *)
(* a record freed or moved by a later revision never shows its older self. *)
(* A chain is refused only if it does not end within the section limit,    *)
(* leads to something that is no section, or has too many entries.         *)
(***************************************************************************)
LookupFollowsRevisions ==
  /\ access \in {"catalog", "open"} =>
       /\ IsPath(section_byte_offsets) /\ EndsThere(section_byte_offsets)
       /\ DOMAIN entries = Listed(section_byte_offsets)
       /\ \A n \in DOMAIN entries : CurrentRecord(section_byte_offsets, n, entries[n])
       /\ root_reference = file[startxref].root
  /\ access \in ChainRejection =>
       \A path \in WholePaths : Cardinality(Listed(path)) > MaxEntries

InUse(o, gen) == [type |-> 1, field2 |-> o, field3 |-> gen]
MemberOf(n, i) == [type |-> 2, field2 |-> n, field3 |-> i - 1]

(***************************************************************************)
(* What resolve_object hands out is the object that was asked for, in the  *)
(* version the newest revision names: the header found there, or the pair  *)
(* of the current version of the object stream, bears its number.          *)
(***************************************************************************)
ResolvedObjectIsTheOneAsked ==
  Resolved(answer) =>
    LET found == file[answer.place[1]]
        current(n, record) == CurrentRecord(section_byte_offsets, n, record)
    IN  IF answer.result = "Uncompressed"
        THEN found.header = asked /\ current(asked.num, InUse(answer.place[1], asked.gen))
        ELSE /\ asked.gen = 0 /\ found.header.gen = 0
             /\ current(found.header.num, InUse(answer.place[1], 0))
             /\ \E i \in 1..found.count :
                  /\ current(asked.num, MemberOf(found.header.num, i))
                  /\ found.decoded[2 * i - 1] = asked.num
                  /\ found.first + found.decoded[2 * i] = answer.place[2]

Overlap(p, q) ==
  /\ Len(p) = Len(q) /\ p[1] = q[1]
  /\ Len(p) = 3 => p[2] < q[3] /\ q[2] < p[3]

(***************************************************************************)
(* The spans of object-stream members can be sliced, lie behind the header *)
(* of their stream, and are disjoint; no two references resolve to the     *)
(* same bytes, whatever the object streams state.                          *)
(***************************************************************************)
MembersAreApart ==
  access = "open" =>
    \A r \in References : LET p == Resolve(r) IN
      Resolved(p) =>
        /\ p.result = "Compressed" =>
             /\ file[p.place[1]].first <= p.place[2] /\ p.place[2] <= p.place[3]
             /\ p.place[3] <= Len(file[p.place[1]].decoded)
        /\ \A s \in References \ {r} :
             Resolved(Resolve(s)) => ~Overlap(p.place, Resolve(s).place)

(* However the sections point at one another, opening comes to an end.      *)
OpenReturns == <>(access \notin {"start", "chain", "catalog"})

=============================================================================
