---------------------------- MODULE SetPageBoxes ----------------------------
(***************************************************************************)
(* set_page_boxes_incremental: inspect the document, plan one edit per     *)
(* requested page, then append one revision with the rewritten leaves.     *)
(* The append is what IncrementalWriter promises (RevisionStore): all of   *)
(* the dirty objects replaced, or none.  A rectangle is one interval, with *)
(* its two corners in the order the caller or the file states them.        *)
(***************************************************************************)
EXTENDS DocumentPages

CONSTANTS
  NonFinite,  \* model value: a requested rectangle with a non-finite corner
  Requests,   \* the requests callers may make
  MaxCalls    \* bound: calls made on one document and its revisions

ASSUME RectsAreIntervals ==
  Rects \subseteq Nat \X Nat /\ \A rect \in Rects : <<rect[2], rect[1]>> \in Rects
ASSUME NonFiniteIsNoRect == NonFinite \notin Rects

PageBoxEdit ==
  [page_index : Nat, media : Rects \cup {Absent, NonFinite},
   crop : Rects \cup {Absent, NonFinite}]

ASSUME RequestsAreEdits == Requests \subseteq Seq(PageBoxEdit)

VARIABLES
  op,        \* "idle", or the stage of the call: "inspect", "plan"
  request,   \* the edits asked for
  edited,    \* EditedPage, in request order until the call returns
  skipped,   \* SkippedPageEdit, in request order
  dirty,     \* the rewritten leaves, in request order
  result,    \* how the last call ended
  calls,
  before,    \* history: the tree the current or last call was made on
  repeated   \* history: the request of the last call that wrote, unless two of
             \* its edits collided

callVars == <<op, request, edited, skipped, dirty, result, calls, before, repeated>>
setVars == <<vars, callVars>>

CallErrors ==
  {"DuplicatePageIndex", "NoBoxesRequested", "Inspect", "NonFiniteRectangle",
   "ZeroAreaRectangle", "CropOutsideMedia", "Write"}
ASSUME AbsentIsNoError == Absent \notin CallErrors
SkipReasons ==
  {"PageNotFound", "CompressedLeafDictionary", "MissingEffectiveMediaBox",
   "UnusableBox", "OwnershipNotProven"}
EditedPage ==
  [page_index : Nat, leaf : Objects, media : Rects \cup {Absent}, crop : Rects \cup {Absent}]

SetTypeOK ==
  /\ TypeOK /\ tree \in TreeShape /\ before \in TreeShape
  /\ op \in {"idle", "inspect", "plan"}
  /\ request \in Seq(PageBoxEdit)
  /\ edited \in Seq(EditedPage)
  /\ skipped \in Seq([page_index : Nat, reason : SkipReasons])
  /\ dirty \in Seq([leaf : Objects, body : Seq(Token)])
  /\ result \in {"none", "ok"} \cup CallErrors
  /\ calls \in 0..MaxCalls
  /\ repeated \in Seq(PageBoxEdit)

SetInit ==
  /\ Init
  /\ op = "idle" /\ request = <<>> /\ edited = <<>> /\ skipped = <<>> /\ dirty = <<>>
  /\ result = "none" /\ calls = 0 /\ before = tree /\ repeated = <<>>

-----------------------------------------------------------------------------
(* validate_request: errors that do not depend on the document.             *)
EditError(edits, i) ==
  IF \E j \in 1..(i - 1) : edits[j].page_index = edits[i].page_index
  THEN "DuplicatePageIndex"
  ELSE IF edits[i].media = Absent /\ edits[i].crop = Absent THEN "NoBoxesRequested"
  ELSE Absent

Erroneous(edits) == {i \in 1..Len(edits) : EditError(edits, i) # Absent}

(* The walks of an earlier call are gone.                                   *)
ForgetWalks ==
  /\ leafPhase' = "idle" /\ boxPhase' = "idle"
  /\ frames' = <<>> /\ leaves' = <<>> /\ leafSkips' = <<>> /\ boxFrames' = <<>>
  /\ visited' = {} /\ visited_node_count' = 0 /\ truncated' = Absent
  /\ boxVisited' = {} /\ page_index' = 0 /\ pages' = <<>> /\ boxSkips' = <<>>

Call ==
  \E edits \in Requests :
    /\ op = "idle" /\ calls < MaxCalls
    /\ calls' = calls + 1
    /\ request' = edits /\ before' = tree
    /\ edited' = <<>> /\ skipped' = <<>> /\ dirty' = <<>>
    /\ IF Erroneous(edits) = {}
       THEN op' = "inspect" /\ result' = "none"
       ELSE op' = "idle" /\ result' = EditError(edits, Min(Erroneous(edits)))
    /\ ForgetWalks
    /\ UNCHANGED <<tree, repeated>>

Inspect ==
  /\ op = "inspect"
  /\ EnumerateLeaves \/ InspectBoxes
  /\ UNCHANGED callVars

Fail(reason) ==
  /\ op' = "idle" /\ result' = reason
  /\ UNCHANGED <<request, edited, skipped, dirty, calls, before, repeated>>
  /\ UNCHANGED vars

FailInspection == op = "inspect" /\ leafPhase = "failed" /\ Fail("Inspect")

StartPlanning ==
  /\ op = "inspect" /\ boxPhase = "done"
  /\ op' = "plan"
  /\ UNCHANGED <<request, edited, skipped, dirty, result, calls, before, repeated>>
  /\ UNCHANGED vars

-----------------------------------------------------------------------------
(* plan_page_edit, for the first edit not yet planned.                      *)
Planned == Len(edited) + Len(skipped)

Planning(edit) ==
  op = "plan" /\ Planned < Len(request) /\ edit = request[Planned + 1]

PagesAt(index) == {i \in 1..Len(pages) : pages[i].page_index = index}
PageAt(index) == pages[CHOOSE i \in PagesAt(index) : TRUE]

Normalized(rect) == IF rect[1] <= rect[2] THEN rect ELSE <<rect[2], rect[1]>>

BoxError(rect) ==
  IF rect = Absent THEN Absent
  ELSE IF rect = NonFinite THEN "NonFiniteRectangle"
  ELSE IF rect[1] = rect[2] THEN "ZeroAreaRectangle"
  ELSE Absent

RectContains(outer, inner) == inner[1] >= outer[1] /\ inner[2] <= outer[2]

NormalizedOption(rect) == IF rect = Absent THEN Absent ELSE Normalized(rect)

(* The crop box is held against the page's present media box.               *)
MediaBoundPresent(edit) == PageAt(edit.page_index).media.rect

(* The requested media box bounds the crop box; else the page's own does.   *)
MediaBound(edit) ==
  IF edit.media # Absent THEN Normalized(edit.media)
  ELSE PageAt(edit.page_index).media.rect

PlanError(edit) ==
  IF BoxError(edit.media) # Absent THEN BoxError(edit.media)
  ELSE IF BoxError(edit.crop) # Absent THEN BoxError(edit.crop)
  ELSE IF edit.crop # Absent /\ ~RectContains(MediaBound(edit), Normalized(edit.crop))
  THEN "CropOutsideMedia"
  ELSE Absent

(* Uses are not counted.                                                    *)
OwnedByParent(leaf) == tree[leaf].parent # Absent

(* decide_indirect_object_edit over the leaf's /Parent, and the uses among  *)
(* the pages the inspection reported.                                       *)
Owned(leaf) ==
  /\ Cardinality({i \in 1..Len(pages) : pages[i].leaf = leaf}) = 1
  /\ tree[leaf].parent # Absent

(* The reason skip_from_inspection gives, or PageNotFound.                  *)
InspectionSkip(index) ==
  LET recorded == {i \in 1..Len(boxSkips) : boxSkips[i].page_index = index}
  IN  IF recorded = {} THEN "PageNotFound" ELSE boxSkips[Min(recorded)].reason

Skip(edit, reason) ==
  /\ skipped' = Append(skipped, [page_index |-> edit.page_index, reason |-> reason])
  /\ UNCHANGED <<op, request, edited, dirty, result, calls, before, repeated>>
  /\ UNCHANGED vars

SkipUnreported ==
  \E i \in 1..Len(request) :
    LET edit == request[i]
    IN  /\ Planning(edit) /\ PagesAt(edit.page_index) = {}
        /\ Skip(edit, InspectionSkip(edit.page_index))

FailPlan ==
  \E i \in 1..Len(request) :
    LET edit == request[i]
    IN  /\ Planning(edit) /\ PagesAt(edit.page_index) # {} /\ PlanError(edit) # Absent
        /\ Fail(PlanError(edit))

SkipUnowned ==
  \E i \in 1..Len(request) :
    LET edit == request[i]
    IN  /\ Planning(edit) /\ PagesAt(edit.page_index) # {} /\ PlanError(edit) = Absent
        /\ ~Owned(PageAt(edit.page_index).leaf)
        /\ Skip(edit, "OwnershipNotProven")

-----------------------------------------------------------------------------
(* Spaces pile up in front of a replaced entry.                             *)
BodyEditSpaced(dict, kind, box, leaf, rect) ==
  LET at == Min(KeyIndexes(dict, kind)) - 1
      entry == <<Gap, Key(kind), Value(rect)>>
      tie == IF kind = "MediaBox" THEN 1 ELSE 0
  IN  IF box.owner = leaf
      THEN [start |-> at, end |-> at + 2, tokens |-> entry, tie |-> tie]
      ELSE [start |-> 0, end |-> 0, tokens |-> entry, tie |-> tie]

(***************************************************************************)
(* build_leaf_edit: a box the leaf states itself is replaced from its key  *)
(* to the end of its value; any other is inserted right after the opening  *)
(* bracket.  Positions count the tokens before them.                       *)
(***************************************************************************)
BodyEdit(dict, kind, box, leaf, rect) ==
  LET at == Min(KeyIndexes(dict, kind)) - 1
      entry == <<Key(kind), Value(rect)>>
      tie == IF kind = "MediaBox" THEN 1 ELSE 0
  IN  IF box.owner = leaf
      THEN [start |-> at, end |-> at + 2, tokens |-> entry, tie |-> tie]
      ELSE [start |-> 0, end |-> 0, tokens |-> <<Gap>> \o entry, tie |-> tie]

(* Ascending start: a change shifts what a later one is aimed at.           *)
AppliedBeforeAscending(e, f) == e.start < f.start \/ (e.start = f.start /\ e.tie < f.tie)

(* Descending start, ties by rank.                                          *)
AppliedBefore(e, f) == e.start > f.start \/ (e.start = f.start /\ e.tie < f.tie)

Splice(body, e) ==
  SubSeq(body, 1, e.start) \o e.tokens \o SubSeq(body, e.end + 1, Len(body))

(* One box at least is requested: validate_request saw to it.               *)
EditedBody(dict, page, edit) ==
  LET media == BodyEdit(dict, "MediaBox", page.media, page.leaf, Normalized(edit.media))
      crop == BodyEdit(dict, "CropBox", page.crop, page.leaf, Normalized(edit.crop))
  IN  IF edit.crop = Absent THEN Splice(dict, media)
      ELSE IF edit.media = Absent THEN Splice(dict, crop)
      ELSE IF AppliedBefore(crop, media) THEN Splice(Splice(dict, crop), media)
      ELSE Splice(Splice(dict, media), crop)

PlanEdit ==
  \E i \in 1..Len(request) :
    LET edit == request[i]
        page == PageAt(edit.page_index)
    IN  /\ Planning(edit) /\ PagesAt(edit.page_index) # {} /\ PlanError(edit) = Absent
        /\ Owned(page.leaf)
        /\ edited' = Append(edited, [page_index |-> edit.page_index, leaf |-> page.leaf,
                                     media |-> NormalizedOption(edit.media),
                                     crop |-> NormalizedOption(edit.crop)])
        /\ dirty' = Append(dirty, [leaf |-> page.leaf,
                                   body |-> EditedBody(tree[page.leaf].dict, page, edit)])
        /\ UNCHANGED <<op, request, skipped, result, calls, before, repeated>>
        /\ UNCHANGED vars

-----------------------------------------------------------------------------
Requested(e, kind) == IF kind = "MediaBox" THEN e.media ELSE e.crop
RequestedKinds(e) == {kind \in BoxKinds : Requested(e, kind) # Absent}

(***************************************************************************)
(* The one shape two edits are known to collide on (see the run            *)
(* set_page_boxes_splice): the leaf dictionary starts with the /MediaBox   *)
(* to be replaced, and a /CropBox is to be inserted.                       *)
(***************************************************************************)
Collides(e) ==
  LET dict == before[e.leaf].dict
  IN  /\ RequestedKinds(e) = BoxKinds
      /\ dict # <<>> /\ dict[1] = Key("MediaBox") /\ KeyIndexes(dict, "CropBox") = {}

NoCollision == \A i \in 1..Len(edited) : ~Collides(edited[i])

(***************************************************************************)
(* The append: the new version of every dirty object is found in place of  *)
(* the old one.  A document with compressed objects has no classic xref,   *)
(* and is refused; any other may be (WriteError).                          *)
(***************************************************************************)
Revised(object) ==
  LET rewritten == {i \in 1..Len(dirty) : dirty[i].leaf = object}
  IN  IF rewritten = {} THEN tree[object]
      ELSE [tree[object] EXCEPT !.dict = dirty[Max(rewritten)].body]

(* Reports left in request order.                                           *)
ByRequest(list, i, j) == i < j

(* Reports are returned in document order; no two are of one page.          *)
ByPageIndex(list, i, j) == list[i].page_index < list[j].page_index

Sorted(list) ==
  LET before_it(j) == {i \in 1..Len(list) : ByPageIndex(list, i, j)}
  IN  [k \in 1..Len(list) |->
         list[CHOOSE j \in 1..Len(list) : Cardinality(before_it(j)) = k - 1]]

Write ==
  /\ op = "plan" /\ Planned = Len(request)
  /\ \A object \in Objects : ~tree[object].compressed
  /\ tree' = [object \in Objects |-> Revised(object)]
  /\ edited' = Sorted(edited)
  /\ op' = "idle" /\ result' = "ok" /\ repeated' = IF NoCollision THEN request ELSE <<>>
  /\ UNCHANGED <<request, skipped, dirty, calls, before>>
  /\ UNCHANGED <<leafVars, boxVars>>

RefuseWrite == op = "plan" /\ Planned = Len(request) /\ Fail("Write")

Progress ==
  Inspect \/ FailInspection \/ StartPlanning \/ SkipUnreported \/ FailPlan
    \/ SkipUnowned \/ PlanEdit \/ Write \/ RefuseWrite

SetNext == Call \/ Progress

SetSpec == SetInit /\ [][SetNext]_setVars

-----------------------------------------------------------------------------
EditedIndexes == {edited[i].page_index : i \in 1..Len(edited)}
SkippedIndexes == {skipped[i].page_index : i \in 1..Len(skipped)}

OthersKept(e) ==
  LET old == before[e.leaf].dict
      new == tree[e.leaf].dict
      others(dict) == Cardinality({i \in 1..Len(dict) : dict[i] = Rest})
  IN  /\ Readable(new)
      /\ others(new) = others(old)
      /\ \A kind \in BoxKinds :
           OwnBox(new, kind) = IF kind \in RequestedKinds(e) THEN Requested(e, kind)
                               ELSE OwnBox(old, kind)

(***************************************************************************)
(* Rewriting a leaf body by byte ranges leaves a dictionary that states    *)
(* the requested boxes, the old box that was not requested, and every      *)
(* other entry, wherever in the dictionary the old boxes stood.            *)
(***************************************************************************)
EditsKeepOtherEntries ==
  result = "ok" => \A i \in 1..Len(edited) : Collides(edited[i]) \/ OthersKept(edited[i])

(***************************************************************************)
(* "Every unrelated byte inside the leaf dictionary body is preserved", as *)
(* JOURNAL.md states it, with no exception.                                *)
(***************************************************************************)
EditsAlwaysKeepOtherEntries ==
  result = "ok" => \A i \in 1..Len(edited) : OthersKept(edited[i])

(* walk_spine takes whatever object the catalog names for the page-tree     *)
(* root, /Type /Page too; listed in its own /Kids, such a root is a leaf    *)
(* to edit and an ancestor to inherit from at once.                         *)
RootIsNoLeaf == tree[Root].type # "Page"

(***************************************************************************)
(* The output, inspected again, has the requested boxes at the requested   *)
(* index, with a requested crop box inside the media box: what was checked *)
(* against the old document holds of the new one.                          *)
(***************************************************************************)
ReopenReportsRequest ==
  result = "ok" /\ Truncations = {} /\ NoCollision /\ RootIsNoLeaf =>
    \A i \in 1..Len(edited) :
      LET e == edited[i]
          page == PageFor(Paths[e.page_index + 1], e.page_index)
      IN  /\ page.leaf = e.leaf
          /\ e.media # Absent => page.media = [rect |-> e.media, owner |-> e.leaf]
          /\ e.crop # Absent =>
               /\ page.crop = [rect |-> e.crop, owner |-> e.leaf]
               /\ RectContains(page.media.rect, page.crop.rect)

(***************************************************************************)
(* A page that was not edited keeps its index and its effective boxes,     *)
(* inherited ones included: ancestors are never written, and a leaf shared *)
(* with another reported page is not either.                               *)
(***************************************************************************)
OtherPagesKeepBoxes ==
  result = "ok" /\ Truncations = {} /\ NoCollision /\ RootIsNoLeaf =>
    \A i \in 1..Len(pages) :
      pages[i].page_index \notin EditedIndexes =>
        pages[i] = PageFor(Paths[pages[i].page_index + 1], pages[i].page_index)

(***************************************************************************)
(* A successful call answers every edit exactly once, edited pages in      *)
(* document order; only edited leaves differ from the input, and a call    *)
(* that fails, at whichever edit, has written nothing.                     *)
(***************************************************************************)
CallsAreAtomic ==
  op = "idle" /\ result # "none" =>
    /\ result = "ok" =>
         /\ EditedIndexes \cup SkippedIndexes = {request[i].page_index : i \in 1..Len(request)}
         /\ Len(edited) + Len(skipped) = Len(request)
         /\ \A i, j \in 1..Len(edited) :
              i < j => edited[i].page_index < edited[j].page_index
         /\ \A o \in Objects :
              tree[o] # before[o] => \E i \in 1..Len(edited) : edited[i].leaf = o
    /\ result # "ok" => tree = before

(***************************************************************************)
(* "A second identical append" writes the bodies that are already there.    *)
(* Where the root is a leaf it may not: the first append can rewrite the    *)
(* root, and a page it skipped for want of a media box then inherits one.   *)
(***************************************************************************)
SecondCallChangesNothing ==
  [][op = "plan" /\ result' = "ok" /\ request = repeated /\ RootIsNoLeaf
       => tree' = tree]_setVars

(***************************************************************************)
(* "only a leaf enumerated exactly once ... is rewritten", by the          *)
(* enumeration of leaves the same call opened the document with.           *)
(***************************************************************************)
EditedLeavesEnumeratedOnce ==
  result = "ok" =>
    \A i \in 1..Len(edited) :
      Cardinality({j \in 1..Len(leaves) : leaves[j] = edited[i].leaf}) = 1

=============================================================================
