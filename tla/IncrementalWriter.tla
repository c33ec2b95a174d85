-------------------------- MODULE IncrementalWriter --------------------------
(***************************************************************************)
(* write_incremental_revision over a classic-xref file, and the document   *)
(* reader that opens what was written.  The caller may open the file or    *)
(* append a revision in any order; an accepted write's output is the next  *)
(* call's input.  Both calls run the chain builder.                        *)
(***************************************************************************)
EXTENDS ClassicXrefChain

CONSTANTS
  Sources,       (* Inputs: records [chunks, startxref].                   *)
  Requests,      (* Dirty-object lists a caller may pass.                  *)
  MaxOffset,     (* MAX_CLASSIC_XREF_OFFSET                                *)
  MaxRevisions   (* Bound of the model: revisions appended to one input.   *)

Dirty == [num : ObjNums, gen : Gens, body : Bodies]

ASSUME CallerAssumption ==
  /\ Requests \subseteq Seq(Dirty) /\ Absent \notin Requests
  /\ Sources \subseteq [chunks : Seq(Chunk), startxref : Nat \cup {Absent}]
  /\ MaxOffset \in Nat /\ MaxRevisions \in Nat

VARIABLES
  op,         (* The call in progress: "idle", "read" or "write".          *)
  request,    (* dirty_objects of the write in progress.                   *)
  view,       (* Entry the last successful open gave each number.          *)
  outcome,    (* Result of the last finished call.                         *)
  revisions,  (* Revisions appended so far (history).                      *)
  document    (* The sections of the file's chain, newest first, <<>> when *)
              (* it has none (history; only the properties read it).       *)

historyVars == <<revisions, document>>
callVars == <<op, request, view, outcome, historyVars>>
vars == <<fileVars, chainVars, callVars>>

Init ==
  /\ \E s \in Sources : file = s.chunks /\ startxref = s.startxref
  /\ ChainInit
  /\ op = "idle" /\ request = <<>> /\ view = EmptyMap
  /\ outcome = [call |-> "none", result |-> "none"]
  /\ revisions = 0
  /\ document \in IF Chains(file, startxref, MaxSections + 1) = {} THEN {<<>>}
                  ELSE Chains(file, startxref, MaxSections + 1)

(* A call returns: its locals go out of scope and its result is reported.   *)
Return(call, result) ==
  /\ outcome' = [call |-> call, result |-> result]
  /\ op' = "idle" /\ request' = <<>>
  /\ build' = "idle" /\ next_offset' = Absent /\ section_byte_offsets' = <<>>
  /\ merged' = EmptyMap /\ effective_size' = 0 /\ root_reference' = Absent

-----------------------------------------------------------------------------
(* inspect_document_access, classic backends.  A trailer without /Prev is   *)
(* resolved through its one table, a trailer with /Prev through the chain.  *)

OpenRejection ==
  IF startxref = Absent THEN "StartXref"
  ELSE IF SectionKind(file, startxref) = "Unclassified"
    THEN "XrefSectionUnclassified"
  ELSE IF SectionKind(file, startxref) = "Stream" THEN "XrefStreamDecode"
  ELSE IF file[startxref].kind = "badtable" THEN "XrefTable"
  ELSE IF file[startxref].prev = Unreadable THEN "TrailerPrev"
  ELSE IF file[startxref].prev = Absent /\ file[startxref].root = Unreadable
    THEN "TrailerRoot"
  ELSE "none"

RejectOpen ==
  /\ op = "idle"
  /\ OpenRejection # "none"
  /\ Return("read", OpenRejection)
  /\ UNCHANGED <<fileVars, view, historyVars>>

OpenSingleTable ==
  /\ op = "idle"
  /\ OpenRejection = "none"
  /\ file[startxref].prev = Absent
  /\ view' = [n \in ObjNums |-> SingleTableEntry(file[startxref], n)]
  /\ Return("read", "ok")
  /\ UNCHANGED <<fileVars, historyVars>>

OpenChain ==
  /\ op = "idle"
  /\ OpenRejection = "none"
  /\ file[startxref].prev # Absent
  /\ op' = "read"
  /\ StartChain
  /\ UNCHANGED <<fileVars, request, view, outcome, historyVars>>

FinishOpenChain ==
  /\ op = "read" /\ build = "built"
  /\ view' = merged
  /\ Return("read", "ok")
  /\ UNCHANGED <<fileVars, historyVars>>

-----------------------------------------------------------------------------
(* write_incremental_revision.                                              *)

WriteRejection ==
  IF startxref = Absent THEN "StartXrefUnavailable"
  ELSE IF SectionKind(file, startxref) = "Unclassified"
    THEN "XrefSectionUnclassified"
  ELSE IF SectionKind(file, startxref) = "Stream" THEN "XrefStreamInput"
  ELSE IF file[startxref].kind = "badtable" THEN "XrefTable"
  ELSE IF file[startxref].encrypt THEN "EncryptedInput"
  ELSE IF file[startxref].xrefstm THEN "HybridXrefStmInput"
  ELSE "none"

RejectWrite ==
  /\ op = "idle"
  /\ WriteRejection # "none"
  /\ Return("write", WriteRejection)
  /\ UNCHANGED <<fileVars, view, historyVars>>

BeginWrite(dirty) ==
  /\ op = "idle"
  /\ revisions < MaxRevisions
  /\ WriteRejection = "none"
  /\ op' = "write" /\ request' = dirty
  /\ StartChain
  /\ UNCHANGED <<fileVars, view, outcome, historyVars>>

(* The builder's rejection is the call's.                                   *)
FailChain ==
  /\ build \in ChainRejections
  /\ Return(op, build)
  /\ UNCHANGED <<fileVars, view, historyVars>>

DirtyReady == op = "write" /\ build = "built"

(* order_dirty_objects: two requests for one number are refused.            *)
HasDuplicate == \E i, j \in DOMAIN request :
                   i # j /\ request[i].num = request[j].num

Ascending(s) == \A i, j \in DOMAIN s : i < j => s[i].num < s[j].num

(* The caller's list sorted by reference (unique: numbers are distinct).    *)
Orderings ==
  {s \in [1 .. Len(request) -> {request[i] : i \in DOMAIN request}] :
     Ascending(s)}

(* validate_dirty_objects and classify_resolution_error, for one object.    *)
DirtyRejection(d) ==
  LET r == Resolution(file, merged[d.num], d.num, d.gen)
  IN  CASE r = "Resolved" -> "none"
        [] r = "UnresolvedXrefLocation" -> "DirtyObjectNotInUse"
        [] r = "GenerationMismatch" -> "GenerationMismatch"
        [] OTHER -> "DirtyObjectHeaderMismatch"

RejectDuplicate ==
  /\ DirtyReady
  /\ HasDuplicate
  /\ Return("write", "DuplicateDirtyObject")
  /\ UNCHANGED <<fileVars, view, historyVars>>

(* The first failure in reference order is reported.                        *)
RejectDirty ==
  /\ DirtyReady
  /\ ~ HasDuplicate
  /\ \E s \in Orderings, i \in DOMAIN request :
       /\ DirtyRejection(s[i]) # "none"
       /\ \A j \in 1 .. i - 1 : DirtyRejection(s[j]) = "none"
       /\ Return("write", DirtyRejection(s[i]))
  /\ UNCHANGED <<fileVars, view, historyVars>>

(* Mutant of AppendedOffset: the offset of the byte before.                 *)
AppendedOffsetShort(i) == Len(file) + i - 1

(* Object i of the ordered list starts at this offset of the output.        *)
AppendedOffset(i) == Len(file) + i

ReadyToAppend(s) ==
  /\ DirtyReady
  /\ s \in Orderings
  /\ \A i \in DOMAIN s : DirtyRejection(s[i]) = "none"

(* effective_size: the whole chain's highest number plus one, and never     *)
(* less than a /Size the chain declares.                                    *)
SizeCandidates == {effective_size, 1} \cup {n + 1 : n \in MergedNums(merged)}

(* Mutant of WholeChainSize: the dirty objects alone decide.                *)
DirtySize ==
  LET sizes == {1} \cup {request[i].num + 1 : i \in DOMAIN request}
  IN  CHOOSE m \in sizes : \A x \in sizes : x <= m

WholeChainSize ==
  CHOOSE m \in SizeCandidates : \A x \in SizeCandidates : x <= m

AppendedObjects(s) ==
  [i \in 1 .. Len(s) |->
     [kind |-> "object", num |-> s[i].num, gen |-> s[i].gen, body |-> s[i].body]]

(* Mutants of AppendedTable: /Prev naming the new table itself, one run of  *)
(* entries from the lowest number to the highest with the gaps freed, and   *)
(* entries that all state the generation 0.                                 *)
AppendedTableSelfPrev(s) ==
  [kind |-> "table",
   entries |-> [i \in 1 .. Len(s) |->
                  [num |-> s[i].num, gen |-> s[i].gen, state |-> "inuse",
                   off |-> AppendedOffset(i)]],
   prev |-> AppendedOffset(Len(s) + 1), size |-> WholeChainSize,
   root |-> root_reference,
   id |-> file[startxref].id, info |-> file[startxref].info,
   encrypt |-> FALSE, xrefstm |-> FALSE]

AppendedTableOneRun(s) ==
  LET first == IF s = <<>> THEN 1 ELSE s[1].num
      last  == IF s = <<>> THEN 0 ELSE s[Len(s)].num
  IN  [kind |-> "table",
       entries |->
         [k \in 1 .. last - first + 1 |->
            IF \E i \in DOMAIN s : s[i].num = first + k - 1
            THEN LET i == CHOOSE i \in DOMAIN s : s[i].num = first + k - 1
                 IN  [num |-> s[i].num, gen |-> s[i].gen, state |-> "inuse",
                      off |-> AppendedOffset(i)]
            ELSE [num |-> first + k - 1, gen |-> 0, state |-> "free", off |-> 0]],
       prev |-> startxref, size |-> WholeChainSize, root |-> root_reference,
       id |-> file[startxref].id, info |-> file[startxref].info,
       encrypt |-> FALSE, xrefstm |-> FALSE]

AppendedTableFirstGen(s) ==
  [kind |-> "table",
   entries |-> [i \in 1 .. Len(s) |->
                  [num |-> s[i].num, gen |-> 0, state |-> "inuse",
                   off |-> AppendedOffset(i)]],
   prev |-> startxref, size |-> WholeChainSize, root |-> root_reference,
   id |-> file[startxref].id, info |-> file[startxref].info,
   encrypt |-> FALSE, xrefstm |-> FALSE]

(* push_xref_table and push_trailer.  /ID and /Info are those of the active *)
(* trailer; /Encrypt and /XRefStm are never written.                        *)
AppendedTable(s) ==
  [kind |-> "table",
   entries |-> [i \in 1 .. Len(s) |->
                  [num |-> s[i].num, gen |-> s[i].gen, state |-> "inuse",
                   off |-> AppendedOffset(i)]],
   prev |-> startxref, size |-> WholeChainSize, root |-> root_reference,
   id |-> file[startxref].id, info |-> file[startxref].info,
   encrypt |-> FALSE, xrefstm |-> FALSE]

RejectOffset ==
  \E s \in Orderings :
    /\ ReadyToAppend(s)
    /\ \E i \in DOMAIN s : AppendedOffset(i) > MaxOffset
    /\ Return("write", "XrefOffsetTooLarge")
    /\ UNCHANGED <<fileVars, view, historyVars>>

CommitRevision ==
  \E s \in Orderings :
    /\ ReadyToAppend(s)
    /\ \A i \in DOMAIN s : AppendedOffset(i) <= MaxOffset
    /\ file' = file \o AppendedObjects(s) \o <<AppendedTable(s)>>
    /\ startxref' = Len(file) + Len(s) + 1
    /\ revisions' = revisions + 1
    /\ document' = <<startxref'>> \o document
    /\ Return("write", "ok")
    /\ UNCHANGED view

Call == RejectOpen \/ OpenSingleTable \/ OpenChain \/ RejectWrite
          \/ \E dirty \in Requests : BeginWrite(dirty)

Progress ==
  \/ ChainStep /\ UNCHANGED callVars
  \/ FinishOpenChain \/ FailChain
  \/ RejectDuplicate \/ RejectDirty \/ RejectOffset \/ CommitRevision

Next == Call \/ Progress

(* A call is a plain function call: once entered it runs to its return.     *)
Spec == Init /\ [][Next]_vars /\ WF_vars(Progress)

-----------------------------------------------------------------------------
(* What the file holds, by the reference definitions over its chain.        *)

(* The entry an open of this file must report for each number.              *)
ReferenceView ==
  [n \in ObjNums |->
     IF Len(document) = 1 THEN SingleTableEntry(file[startxref], n)
     ELSE NewestWins(file, document, n)]

StoredBodies ==
  [n \in ObjNums |-> BodyAt(file, NewestWins(file, document, n), n)]

StoredIdentity ==
  IF document = <<>> THEN Absent
  ELSE [root |-> file[startxref].root, id |-> file[startxref].id,
        info |-> file[startxref].info]

PendingRequest == IF op = "write" THEN request ELSE Absent

-----------------------------------------------------------------------------
(* Properties.                                                              *)

(* The state has its shape: the file stays a sequence of chunks, the        *)
(* builder's map holds parsed entries, and a request is one a caller made.  *)
TypeOK ==
  /\ file \in Seq(Chunk) /\ startxref \in Nat \cup {Absent}
  /\ build \in {"idle", "running", "built"} \cup ChainRejections
  /\ next_offset \in Nat \cup {Absent}
  /\ section_byte_offsets \in Seq(Nat)
  /\ merged \in [ObjNums -> Entry \cup {Absent}]
  /\ effective_size \in Nat
  /\ root_reference \in ObjNums \cup {Absent}
  /\ op \in {"idle", "read", "write"}
  /\ request \in Seq(Dirty)
  /\ view \in [ObjNums -> Entry \cup {Absent, Ambiguous}]
  /\ revisions \in Nat
  /\ document \in Seq(Nat)

(* The loop invariant of the chain builder, in the middle of any call: the  *)
(* sections followed so far are linked by /Prev from startxref, the map     *)
(* holds the newest entry of each number among them, the size covers their  *)
(* /Size values, and they are the first sections of the file's chain - so a *)
(* build that ends has followed exactly that chain, and a file without a    *)
(* chain never gets that far.                                               *)
FollowedSectionsLinked ==
  LET followed == section_byte_offsets IN
    /\ Len(followed) <= MaxSections
    /\ \A i \in 1 .. Len(followed) : followed[i] \in TableOffsets(file)
    /\ \A i \in 1 .. Len(followed) - 1 : file[followed[i]].prev = followed[i + 1]
    /\ IF followed = <<>>
       THEN next_offset = startxref /\ startxref # Absent /\ root_reference = Absent
       ELSE /\ followed[1] = startxref
            /\ next_offset = file[followed[Len(followed)]].prev
            /\ root_reference = file[startxref].root
            /\ root_reference # Unreadable

FollowedSectionsMerged ==
  /\ \A n \in ObjNums : merged[n] = NewestWins(file, section_byte_offsets, n)
  /\ \A i \in 1 .. Len(section_byte_offsets) :
       LET size == file[section_byte_offsets[i]].size
       IN  size # Absent => size <= effective_size

FollowedSectionsOfDocument ==
  document # <<>> =>
    /\ Len(section_byte_offsets) <= Len(document)
    /\ \A i \in 1 .. Len(section_byte_offsets) :
         section_byte_offsets[i] = document[i]

BuilderFollowsDocument ==
  /\ build # "idle" =>
       /\ FollowedSectionsLinked
       /\ FollowedSectionsMerged
       /\ FollowedSectionsOfDocument
  /\ build = "built" => next_offset = Absent
  /\ op = "idle" <=> build = "idle"
  /\ op = "read" => file[startxref].prev # Absent
  /\ IF document = <<>> THEN Chains(file, startxref, MaxSections + 1) = {}
     ELSE IsChain(file, startxref, document)

(* Opening a document reports, for every object number, the entry the       *)
(* reference definition gives: the newest section that mentions it decides, *)
(* a newer free entry hides an older object, and the first entry of one     *)
(* section wins - while a one-table document reports duplicates as          *)
(* ambiguous.  About merge_section_entries and the two classic backends.    *)
OpenReportsReferenceEntries ==
  outcome = [call |-> "read", result |-> "ok"] =>
    view = ReferenceView

(* A revision moves only the objects it rewrites: every other number keeps  *)
(* the entry a reader found before, except that appending to a one-table    *)
(* file settles what its duplicates left ambiguous.  About the switch from  *)
(* the single-table to the chain backend that the first /Prev causes.       *)
UntouchedEntriesKept ==
  [][revisions' # revisions =>
       LET before == ReferenceView
           after  == ReferenceView'
       IN  \A n \in ObjNums \ {request[i].num : i \in DOMAIN request} :
             before[n] \in {Ambiguous, after[n]}]_vars

(* The trailer a revision writes declares a /Size above every object number *)
(* of the whole chain and not below any /Size the chain declares.  About    *)
(* effective_size, which spans the chain and not the dirty objects.         *)
SizeCoversChain ==
  revisions > 0 =>
    \A i \in DOMAIN document :
      LET t == file[document[i]]
      IN  /\ \A j \in DOMAIN t.entries : t.entries[j].num < file[startxref].size
          /\ t.size # Absent => t.size <= file[startxref].size

(* A reference (a number with its generation) that leads to an object       *)
(* before a revision leads to one after it, and one that led to none still  *)
(* does, through whichever lookup the reader uses for the file; but where   *)
(* duplicates of a one-table file were ambiguous, appending settles them.   *)
(* About the generations and offsets of the entries and object headers that *)
(* append_object writes, beside the entries that stay.                      *)
ReferencesKeepLeading ==
  [][revisions' # revisions =>
       LET before == ReferenceView
           after  == ReferenceView'
       IN  \A n \in ObjNums, g \in Gens :
             \/ before[n] = Ambiguous
             \/ Resolution(file, before[n], n, g) = "Resolved"
                  <=> Resolution(file', after[n], n, g) = "Resolved"]_vars

RequestRejections ==
  {"DuplicateDirtyObject", "DirtyObjectNotInUse", "GenerationMismatch",
   "DirtyObjectHeaderMismatch", "XrefOffsetTooLarge"}

(* What the writer writes, the reader opens, and the writer accepts again   *)
(* unless the request is at fault; except when the revision made the chain  *)
(* longer than the builder follows.                                         *)
ReopenFailsOnlyAtLimit ==
  revisions > 0 =>
    \/ outcome.result = "ok"
    \/ outcome.call = "write" /\ outcome.result \in RequestRejections
    \/ outcome.result = "SectionLimitExceeded"
         /\ Len(document) = MaxSections + 1

(* "appended output reopens through inspect_document_access": not so where  *)
(* the input's chain was as long as the builder follows.                    *)
AppendedOutputReopens ==
  revisions > 0 /\ outcome.call = "read" => outcome.result = "ok"

(* The promise of RevisionStore: each accepted write replaces at once the   *)
(* bodies of exactly the requested objects, all of which existed, and the   *)
(* identity of the document never changes.                                  *)
Store == INSTANCE RevisionStore WITH store <- StoredBodies,
                                     identity <- StoredIdentity,
                                     pending <- PendingRequest

ImplementsRevisionStore == Store!StoreSpec

(* Every call returns, whatever /Prev graph the input holds.                *)
CallsReturn == (op # "idle") ~> (op = "idle")

=============================================================================
