----------------------------- MODULE ColorAudit -----------------------------
(***************************************************************************)
(* The readers of a whole document: inspect_document_page_boxes, and       *)
(* audit_color_usage and check_no_rgb_in_print, which scan one inventory   *)
(* page by page, each with its own cursor into the entries.  Both open the *)
(* document first, which enumerates its leaves.                            *)
(***************************************************************************)
EXTENDS DocumentPages, PdfInventory

CONSTANT PdfDocuments   \* what may be read: [tree, resources, contents]

ASSUME PdfDocumentsAreShaped ==
  \A d \in PdfDocuments :
    /\ d.tree \in Documents
    /\ d.resources \in [Objects -> Statement]
    /\ d.contents \in [Objects -> Content \cup {Absent}]

VARIABLES
  call,         \* "boxes" or "audit"
  audited,      \* PageColorUsage: [page, summary], the summary as what it counts
  auditCursor,  \* next entry of the audit's scan
  rgb_findings, \* the pages of explicit DeviceRGB observations
  gaps,         \* CoverageGap: [kind, page]
  checked,      \* pages the preflight's scan has passed
  checkCursor,
  findings      \* PreflightFinding: [severity, reason, page]

scanVars == <<audited, auditCursor, rgb_findings, gaps, checked, checkCursor, findings>>
readVars == <<vars, pdfVars, call, scanVars>>

GapKinds ==
  {"SkippedPage", "ImageColorUndecoded", "FormExpansionSkipped", "PageResourceSkipped",
   "UnmodeledColorSpace"}
Finding ==
  [severity : {"Error", "Review"},
   reason : {"RgbDeviceColor", "UnmodeledOrUnresolvedColorSpace", "CoverageIncomplete"},
   page : Nat]

ReadTypeOK ==
  /\ TypeOK /\ PdfTypeOK
  /\ call \in {"boxes", "audit"}
  /\ audited \in Seq([page : Nat, summary : Seq([page : Nat, what : Observed])])
  /\ auditCursor \in 0..Len(entries) /\ checkCursor \in 0..Len(entries)
  /\ rgb_findings \in Seq(Nat)
  /\ gaps \in Seq([kind : GapKinds, page : Nat])
  /\ checked \in 0..Len(results)
  /\ findings \in Seq(Finding)

ReadInit ==
  /\ \E d \in PdfDocuments : tree = d.tree /\ resources = d.resources /\ contents = d.contents
  /\ call \in {"boxes", "audit"}
  /\ LeafInit /\ BoxInit /\ PdfInit
  /\ audited = <<>> /\ auditCursor = 0 /\ rgb_findings = <<>> /\ gaps = <<>>
  /\ checked = 0 /\ checkCursor = 0 /\ findings = <<>>

BuildInventory ==
  /\ leafPhase = "done"
  /\ PdfStep
  /\ UNCHANGED <<leafVars, boxVars, call, scanVars>>

-----------------------------------------------------------------------------
Repeat(times, value) == [i \in 1..times |-> value]

(* The slice always starts at the first entry.                              *)
SliceFromFirst(cursor, count) == SubSeq(entries, 1, count)

(* entries[cursor..end], as both scans bound it.                            *)
Slice(cursor, count) == SubSeq(entries, cursor + 1, Min({cursor + count, Len(entries)}))

(* is_unclassified_resource_skip: a page without resources misses nothing.  *)
UnclassifiedSkip(reason) == reason \notin {"MissingResources", "MissingXObject"}

ResourceGaps(result) ==
  LET skips == result.resource_skipped
  IN  Repeat(Cardinality({i \in 1..Len(skips) : UnclassifiedSkip(skips[i])}),
             [kind |-> "PageResourceSkipped", page |-> result.page_index])

(* classify_observation; a form entry observes nothing.                     *)
EntryGaps(slice) ==
  LET gap(entry) ==
        CASE entry.what = "Image" -> <<[kind |-> "ImageColorUndecoded", page |-> entry.page]>>
          [] entry.what = "Unmodeled" -> <<[kind |-> "UnmodeledColorSpace", page |-> entry.page]>>
          [] OTHER -> <<>>
  IN  FlattenSeq([i \in 1..Len(slice) |-> gap(slice[i])])

RgbPages(slice) ==
  LET rgb(entry) == IF entry.what = "Rgb" THEN <<entry.page>> ELSE <<>>
  IN  FlattenSeq([i \in 1..Len(slice) |-> rgb(slice[i])])

(* scan_inventory: one page of the loop.                                    *)
AuditPage ==
  /\ InventoryBuilt /\ Len(audited) < Len(results)
  /\ LET result == results[Len(audited) + 1]
         slice == Slice(auditCursor, result.entry_count)
         skipped == result.state = "Skipped"
         summary == IF skipped THEN <<>> ELSE slice
     IN  /\ gaps' = gaps \o ResourceGaps(result) \o
              (IF skipped THEN <<[kind |-> "SkippedPage", page |-> result.page_index]>>
               ELSE EntryGaps(slice)
                      \o Repeat(result.form_skipped,
                                [kind |-> "FormExpansionSkipped", page |-> result.page_index]))
         /\ rgb_findings' = rgb_findings \o RgbPages(summary)
         /\ audited' = Append(audited, [page |-> result.page_index, summary |-> summary])
         /\ auditCursor' = auditCursor + Len(summary)
  /\ UNCHANGED <<vars, pdfVars, call, checked, checkCursor, findings>>

Audited == InventoryBuilt /\ Len(audited) = Len(results)
AuditStatus == IF gaps = <<>> THEN "Complete" ELSE "Incomplete"

-----------------------------------------------------------------------------
Coverage(page) == [severity |-> "Review", reason |-> "CoverageIncomplete", page |-> page]

(* observation_finding.                                                     *)
EntryFindings(slice) ==
  LET finding(entry) ==
        CASE entry.what = "Image" -> <<Coverage(entry.page)>>
          [] entry.what = "Rgb" ->
               <<[severity |-> "Error", reason |-> "RgbDeviceColor", page |-> entry.page]>>
          [] entry.what = "Unmodeled" ->
               <<[severity |-> "Review", reason |-> "UnmodeledOrUnresolvedColorSpace",
                  page |-> entry.page]>>
          [] OTHER -> <<>>
  IN  FlattenSeq([i \in 1..Len(slice) |-> finding(slice[i])])

(* The findings of form expansions are forgotten.                           *)
PageFindingsOfEntries(result, slice) ==
  IF result.state = "Skipped" THEN <<Coverage(result.page_index)>> ELSE EntryFindings(slice)

PageFindings(result, slice) ==
  IF result.state = "Skipped" THEN <<Coverage(result.page_index)>>
  ELSE EntryFindings(slice) \o Repeat(result.form_skipped, Coverage(result.page_index))

(* collect_findings: one page of the loop, on the inventory the audit had.  *)
CheckPage ==
  /\ Audited /\ checked < Len(results)
  /\ LET result == results[checked + 1]
         slice == Slice(checkCursor, result.entry_count)
     IN  /\ findings' = findings \o PageFindings(result, slice)
         /\ checkCursor' = checkCursor + (IF result.state = "Skipped" THEN 0 ELSE Len(slice))
  /\ checked' = checked + 1
  /\ UNCHANGED <<vars, pdfVars, call, audited, auditCursor, rgb_findings, gaps>>

Checked == Audited /\ checked = Len(results)

(* aggregate_status.                                                        *)
PreflightStatus ==
  LET severities == {findings[i].severity : i \in 1..Len(findings)}
  IN  IF "Error" \in severities THEN "Fail"
      ELSE IF "Review" \in severities THEN "NeedsReview" ELSE "Pass"

-----------------------------------------------------------------------------
InspectPageBoxes == call = "boxes" /\ Next /\ UNCHANGED <<pdfVars, call, scanVars>>

OpenForAudit == call = "audit" /\ EnumerateLeaves /\ UNCHANGED <<pdfVars, call, scanVars>>

AuditStep == call = "audit" /\ (BuildInventory \/ AuditPage \/ CheckPage)

AuditReturned ==
  call = "audit" /\ (leafPhase = "failed" \/ extLeafPhase = "failed" \/ Checked)

AuditAnswered == AuditReturned /\ UNCHANGED readVars

ReadNext == InspectPageBoxes \/ OpenForAudit \/ AuditStep \/ AuditAnswered

ReadSpec == ReadInit /\ [][ReadNext]_readVars

-----------------------------------------------------------------------------
(***************************************************************************)
(* What resolution by offset can reach: the paths through no object of an  *)
(* object stream.                                                          *)
(***************************************************************************)
OffsetPaths ==
  PathsOf([node \in Objects |-> IF OffsetExpands(node) THEN Kids(node) ELSE <<>>],
          [node \in Objects |-> OffsetType(node)])

(* The /Resources in effect at the end of a path: the nearest statement.    *)
ContextOf(path) ==
  LET stated == {i \in 1..Len(path) : resources[path[i]] # Absent}
      nearest == CHOOSE i \in stated : \A j \in stated : j <= i
  IN  [resources |-> IF stated = {} \/ resources[path[nearest]] = Unusable THEN Absent
                     ELSE resources[path[nearest]],
       skips |-> Repeat(Cardinality({i \in stated : resources[path[i]] = Unusable}),
                        "UnusableResources")]

(***************************************************************************)
(* The ordinal that pairs a page's content with its resources means the    *)
(* same page to both walks, in every document, also where a bound cut      *)
(* them; and where none did, the report is that of the nearest /Resources  *)
(* above the page.                                                         *)
(***************************************************************************)
PagesGetTheirOwnResources ==
  resPhase = "done" =>
    /\ [i \in 1..Len(resPages) |-> resPages[i].leaf] = extLeaves
    /\ extTruncated = Absent =>
         resPages = [i \in 1..Len(OffsetPaths) |->
                       ReportOf(Last(OffsetPaths[i]), ContextOf(OffsetPaths[i]))]

(***************************************************************************)
(* The audit counts every entry of the inventory once, and on the page     *)
(* that painted it, with skipped pages and pages without entries between.  *)
(***************************************************************************)
EntriesAuditedOnTheirPage ==
  Audited =>
    /\ auditCursor = Len(entries)
    /\ \A i \in 1..Len(audited) :
         LET own == {j \in 1..Len(entries) : entries[j].page = audited[i].page}
             rank(j) == Cardinality({k \in own : k <= j})
         IN  /\ Len(audited[i].summary) = Cardinality(own)
             /\ \A j \in own : audited[i].summary[rank(j)] = entries[j]

(***************************************************************************)
(* The two scans agree on one inventory: the check passes exactly if the   *)
(* audit found no DeviceRGB and no gap but in the resources, which the     *)
(* check does not look at.                                                 *)
(***************************************************************************)
VerdictsAgree ==
  Checked =>
    (PreflightStatus = "Pass" <=>
       /\ rgb_findings = <<>>
       /\ \A i \in 1..Len(gaps) : gaps[i].kind = "PageResourceSkipped")

-----------------------------------------------------------------------------
(***************************************************************************)
(* What ColorAuditStatus::Complete says: every page the document reports   *)
(* was inspected, with everything its /Contents lists.                     *)
(***************************************************************************)
CompleteMeansInspected ==
  Audited /\ AuditStatus = "Complete" =>
    /\ extLeaves = leaves
    /\ \A i \in 1..Len(leaves) :
         \A j \in 1..Len(contents[leaves[i]].elements) :
           contents[leaves[i]].elements[j] = "located"

=============================================================================
