---------------------------- MODULE PdfInventory ----------------------------
(***************************************************************************)
(* build_pdf_inventory over an opened document: the content pass           *)
(* enumerates the leaves a second time, by file offset, the resource walk  *)
(* a third time, and every leaf of the first is paired with the report of  *)
(* equal ordinal of the second.                                            *)
(***************************************************************************)
EXTENDS PageResourceWalk, FiniteSets

VARIABLES
  contents,   \* what each page's /Contents is, Absent if it cannot be inspected
  extLeafPhase, extFrames, extLeaves, extSkips, extVisited, extNodeCount, extTruncated,
              \* the leaf walk of the content pass
  entries,    \* the document's inventory: [page, what]
  results     \* PdfInventoryPage: [page_index, state, entry_count, form_skipped,
              \*                    resource_skipped]

extVars ==
  <<extLeafPhase, extFrames, extLeaves, extSkips, extVisited, extNodeCount, extTruncated>>
pdfVars == <<resources, contents, extVars, resVars, entries, results>>

(* What an entry paints with: a process colour, DeviceRGB, a space the      *)
(* checks do not know, an image or a form.                                  *)
Paints == {"Process", "Rgb", "Unmodeled"}
Observed == Paints \cup {"Image", "Form"}

(***************************************************************************)
(* An element of /Contents is a reference to a stream that is "located"    *)
(* and decodes or is "lost", or is "direct", no reference at all.  The     *)
(* located streams together paint and invoke items.                        *)
(***************************************************************************)
Content == [elements : Seq({"located", "lost", "direct"}), items : Seq(Paints \cup Names)]

Extents ==
  INSTANCE PageTreeLeaves WITH
    tree <- OffsetTree, leafPhase <- extLeafPhase, frames <- extFrames,
    leaves <- extLeaves, leafSkips <- extSkips, visited <- extVisited,
    visited_node_count <- extNodeCount, truncated <- extTruncated

PdfTypeOK ==
  /\ contents \in [Objects -> Content \cup {Absent}]
  /\ Extents!LeafTypeOK /\ ResourceTypeOK
  /\ entries \in Seq([page : Nat, what : Observed])
  /\ results \in Seq([page_index : Nat, state : {"Inventoried", "Skipped"}, entry_count : Nat,
                      form_skipped : Nat, resource_skipped : Seq(ResourceSkipReasons)])

PdfInit ==
  /\ Extents!LeafInit /\ ResourceInit
  /\ entries = <<>> /\ results = <<>>

(* inspect_document_page_content_extents_with_lookup.                       *)
LocateContent ==
  /\ UNCHANGED tree
  /\ Extents!LeafStep
  /\ UNCHANGED <<resources, contents, resVars, entries, results>>

InspectResources ==
  /\ extLeafPhase = "done"
  /\ ResourceStep
  /\ UNCHANGED <<contents, extVars, entries, results>>

(* Elements that are no references stay behind in PageContentsInspection.   *)
Streams(leaf) == SelectSeq(contents[leaf].elements, LAMBDA e : e # "direct")

Inventoried(leaf) ==
  /\ contents[leaf] # Absent
  /\ Streams(leaf) # <<>>
  /\ \A i \in 1..Len(Streams(leaf)) : Streams(leaf)[i] = "located"

(* build_page_inventory_with_forms, the entries of expanded forms aside: an *)
(* invocation that the page's resources do not classify makes no entry.     *)
EntriesOf(leaf, index, report) ==
  LET entry(item) ==
        CASE item \in Paints -> <<[page |-> index, what |-> item]>>
          [] item \in report.images -> <<[page |-> index, what |-> "Image"]>>
          [] \E form \in report.forms : form[1] = item -> <<[page |-> index, what |-> "Form"]>>
          [] OTHER -> <<>>
      items == contents[leaf].items
  IN  FlattenSeq([i \in 1..Len(items) |-> entry(items[i])])

FormSkips(leaf, report) ==
  Cardinality({i \in 1..Len(contents[leaf].items) :
                 <<contents[leaf].items[i], FALSE>> \in report.forms})

NoReport == [images |-> {}, forms |-> {}, skipped |-> <<>>]
ReportAt(ordinal) == IF ordinal <= Len(resPages) THEN resPages[ordinal] ELSE NoReport

AtPage(leaf) ==
  /\ resPhase = "done" /\ Len(results) < Len(extLeaves)
  /\ leaf = extLeaves[Len(results) + 1]

InventoryPage ==
  \E leaf \in Objects :
    /\ AtPage(leaf) /\ Inventoried(leaf)
    /\ LET index == Len(results)
           report == ReportAt(index + 1)
           made == EntriesOf(leaf, index, report)
       IN  /\ entries' = entries \o made
           /\ results' = Append(results,
                [page_index |-> index, state |-> "Inventoried", entry_count |-> Len(made),
                 form_skipped |-> FormSkips(leaf, report),
                 resource_skipped |-> report.skipped])
    /\ UNCHANGED <<tree, resources, contents, extVars, resVars>>

SkipPage ==
  \E leaf \in Objects :
    /\ AtPage(leaf) /\ ~Inventoried(leaf)
    /\ results' = Append(results,
         [page_index |-> Len(results), state |-> "Skipped", entry_count |-> 0,
          form_skipped |-> 0, resource_skipped |-> ReportAt(Len(results) + 1).skipped])
    /\ UNCHANGED <<tree, resources, contents, extVars, resVars, entries>>

PdfStep == LocateContent \/ InspectResources \/ InventoryPage \/ SkipPage

InventoryBuilt == resPhase = "done" /\ Len(results) = Len(extLeaves)

(* The call returned, with an inventory or with the error of the root.      *)
InventoryReturned == InventoryBuilt \/ extLeafPhase = "failed"

=============================================================================
