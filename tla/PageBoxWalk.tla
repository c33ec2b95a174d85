----------------------------- MODULE PageBoxWalk -----------------------------
(***************************************************************************)
(* PageBoxWalk: the second walk over the same tree, which numbers the leaf *)
(* pages and carries inherited boxes down.  It guards cycles and depth on  *)
(* its own terms and has no node limit.                                    *)
(***************************************************************************)
EXTENDS PageTree, SequencesExt

VARIABLES
  boxPhase,     \* "idle", "walking" or "done"
  boxFrames,    \* open process_targets calls, [node, next, inherited]
  boxVisited,   \* object numbers process_pages_node has been given
  page_index,   \* index the next leaf will get
  pages,        \* PageBoxesInspection: [page_index, leaf, media, crop]
  boxSkips      \* SkippedPageBox: [page_index, kid, reason]

boxVars == <<boxPhase, boxFrames, boxVisited, page_index, pages, boxSkips>>

(***************************************************************************)
(* A ResolvedPageBox: the rectangle and whose dictionary states it; Absent *)
(* as owner is DefaultedToMediaBox.                                        *)
(***************************************************************************)
ResolvedBox == [rect : Rects, owner : Objects \cup {Absent}]
Inherited == [BoxKinds -> ResolvedBox \cup {Absent}]
TruncationReasons == {"Cycle", "MaxDepth"}
BoxSkipReasons ==
  TruncationReasons \cup {"NodeExpansionFailed", "CompressedLeafDictionary",
                          "MissingEffectiveMediaBox", "UnusableBox"}
ASSUME AbsentIsNoBox == Absent \notin Objects \cup ResolvedBox \cup BoxSkipReasons
ASSUME MalformedIsNoBox == Malformed \notin ResolvedBox
ASSUME AbsentIsNoIndex == Absent \notin Nat

BoxTypeOK ==
  /\ boxPhase \in {"idle", "walking", "done"}
  /\ boxFrames \in Seq([node : Objects, next : Nat \ {0}, inherited : Inherited])
  /\ boxVisited \subseteq Objects
  /\ page_index \in Nat
  /\ pages \in Seq([page_index : Nat, leaf : Objects, media : ResolvedBox,
                    crop : ResolvedBox])
  /\ boxSkips \in Seq([page_index : Nat \cup {Absent}, kid : Objects,
                       reason : BoxSkipReasons])

BoxInit ==
  /\ boxPhase = "idle" /\ boxFrames = <<>> /\ boxVisited = {}
  /\ page_index = 0 /\ pages = <<>> /\ boxSkips = <<>>

TopFrame == boxFrames[Len(boxFrames)]

(* boxFrames with its top call moved past the kid it is at.                 *)
BoxAdvanced ==
  IF boxFrames = <<>> THEN <<>> ELSE [boxFrames EXCEPT ![Len(boxFrames)].next = @ + 1]

Resolved(own, owner, inherited) ==
  IF own = Absent THEN inherited
  ELSE IF own = Malformed THEN Malformed
  ELSE [rect |-> own, owner |-> owner]

(* The nearest ancestor no longer wins.                                     *)
ApplyInheritedFarthest(node, inherited) ==
  [kind \in BoxKinds |->
     LET own == OwnBox(tree[node].dict, kind)
     IN  IF tree[node].compressed \/ own \in {Absent, Malformed} \/ inherited[kind] # Absent
         THEN inherited[kind] ELSE [rect |-> own, owner |-> node]]

(***************************************************************************)
(* apply_inherited_from_dictionary: an uncompressed node's readable boxes  *)
(* replace what it inherited; an unusable box leaves it alone.             *)
(***************************************************************************)
ApplyInherited(node, inherited) ==
  [kind \in BoxKinds |->
     LET own == OwnBox(tree[node].dict, kind)
     IN  IF tree[node].compressed \/ own \in {Absent, Malformed}
         THEN inherited[kind] ELSE [rect |-> own, owner |-> node]]

BoxSkip(index, kid, reason) ==
  boxSkips' = Append(boxSkips, [page_index |-> index, kid |-> kid, reason |-> reason])

(***************************************************************************)
(* process_pages_node on `node' at the depth of the calls already open.    *)
(* The node is remembered before its depth is tested.                      *)
(***************************************************************************)
ProcessPagesNode(node, inherited) ==
  /\ boxVisited' = boxVisited \cup {node}
  /\ \/ /\ node \in boxVisited
        /\ BoxSkip(Absent, node, "Cycle") /\ boxFrames' = BoxAdvanced
     \/ /\ node \notin boxVisited /\ Len(boxFrames) > MaxDepth
        /\ BoxSkip(Absent, node, "MaxDepth") /\ boxFrames' = BoxAdvanced
     \/ /\ node \notin boxVisited /\ Len(boxFrames) <= MaxDepth
        /\ ~Expands(node)
        /\ BoxSkip(Absent, node, "NodeExpansionFailed") /\ boxFrames' = BoxAdvanced
     \/ /\ node \notin boxVisited /\ Len(boxFrames) <= MaxDepth
        /\ Expands(node)
        /\ boxFrames' = Append(BoxAdvanced, [node |-> node, next |-> 1,
                                             inherited |-> ApplyInherited(node, inherited)])
        /\ UNCHANGED boxSkips
  /\ UNCHANGED <<tree, page_index, pages>>

NothingInherited == [kind \in BoxKinds |-> Absent]

(* inspect_document_page_boxes, after the spine has resolved the root.      *)
StartBoxes ==
  /\ boxPhase = "idle"
  /\ boxPhase' = "walking"
  /\ ProcessPagesNode(Root, NothingInherited)

AtBoxKid(kid) ==
  /\ boxPhase = "walking" /\ boxFrames # <<>>
  /\ TopFrame.next <= Len(Kids(TopFrame.node))
  /\ kid = Kids(TopFrame.node)[TopFrame.next]

DescendBoxes ==
  \E kid \in Objects :
    /\ AtBoxKid(kid) /\ NodeType(kid) = "Pages"
    /\ ProcessPagesNode(kid, TopFrame.inherited)
    /\ UNCHANGED boxPhase

(* Kids that failed to resolve or are no tree nodes leave no trace.         *)
PassOverKid ==
  \E kid \in Objects :
    /\ AtBoxKid(kid) /\ NodeType(kid) \in {"Other", "Unresolved"}
    /\ boxFrames' = BoxAdvanced
    /\ UNCHANGED <<tree, boxPhase, boxVisited, page_index, pages, boxSkips>>

LeafBox(leaf, kind) ==
  Resolved(OwnBox(tree[leaf].dict, kind), leaf, TopFrame.inherited[kind])

(* An absent crop box defaults to the effective media box.                  *)
CropOrMedia(crop, media) ==
  IF crop = Absent THEN [rect |-> media.rect, owner |-> Absent] ELSE crop

(* The reason process_leaf gives a page up, or Absent.                      *)
LeafRefusal(leaf) ==
  IF tree[leaf].compressed THEN "CompressedLeafDictionary"
  ELSE IF LeafBox(leaf, "MediaBox") = Absent THEN "MissingEffectiveMediaBox"
  ELSE IF Malformed \in {LeafBox(leaf, kind) : kind \in BoxKinds} THEN "UnusableBox"
  ELSE Absent

(* Only a reported leaf takes an index.                                     *)
CountReportedLeaf(leaf) ==
  page_index' = page_index + (IF LeafRefusal(leaf) = Absent THEN 1 ELSE 0)

(* Every leaf takes an index, also one that is refused.                     *)
CountLeaf(leaf) == page_index' = page_index + 1

ReportLeaf ==
  \E leaf \in Objects :
    /\ AtBoxKid(leaf) /\ NodeType(leaf) = "Page" /\ LeafRefusal(leaf) = Absent
    /\ LET media == LeafBox(leaf, "MediaBox")
       IN  pages' = Append(pages, [page_index |-> page_index, leaf |-> leaf, media |-> media,
                                   crop |-> CropOrMedia(LeafBox(leaf, "CropBox"), media)])
    /\ CountLeaf(leaf)
    /\ boxFrames' = BoxAdvanced
    /\ UNCHANGED <<tree, boxPhase, boxVisited, boxSkips>>

RefuseLeaf ==
  \E leaf \in Objects :
    /\ AtBoxKid(leaf) /\ NodeType(leaf) = "Page" /\ LeafRefusal(leaf) # Absent
    /\ BoxSkip(page_index, leaf, LeafRefusal(leaf))
    /\ CountLeaf(leaf)
    /\ boxFrames' = BoxAdvanced
    /\ UNCHANGED <<tree, boxPhase, boxVisited, pages>>

ReturnFromTargets ==
  /\ boxPhase = "walking" /\ boxFrames # <<>>
  /\ TopFrame.next > Len(Kids(TopFrame.node))
  /\ boxFrames' = Front(boxFrames)
  /\ UNCHANGED <<tree, boxPhase, boxVisited, page_index, pages, boxSkips>>

FinishBoxes ==
  /\ boxPhase = "walking" /\ boxFrames = <<>>
  /\ boxPhase' = "done"
  /\ UNCHANGED <<tree, boxFrames, boxVisited, page_index, pages, boxSkips>>

BoxStep ==
  StartBoxes \/ DescendBoxes \/ PassOverKid \/ ReportLeaf \/ RefuseLeaf
    \/ ReturnFromTargets \/ FinishBoxes

=============================================================================
