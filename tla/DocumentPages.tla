---------------------------- MODULE DocumentPages ----------------------------
(***************************************************************************)
(* inspect_document_page_boxes: opening the document enumerates its leaves *)
(* (PageTreeLeaves, inside walk_spine); only when that succeeds does the   *)
(* box walk (PageBoxWalk) go over the same tree again.                     *)
(***************************************************************************)
EXTENDS PageTreeLeaves, PageBoxWalk, FiniteSets

vars == <<tree, leafVars, boxVars>>

Init == tree \in Documents /\ LeafInit /\ BoxInit

EnumerateLeaves == LeafStep /\ UNCHANGED boxVars

InspectBoxes ==
  /\ leafPhase = "done"
  /\ BoxStep
  /\ UNCHANGED leafVars

Returned == leafPhase = "failed" \/ boxPhase = "done"

(* The caller has its answer.                                               *)
Answered == Returned /\ UNCHANGED vars

Next == EnumerateLeaves \/ InspectBoxes \/ Answered

-----------------------------------------------------------------------------
(***************************************************************************)
(* What the walks are measured against: the root-to-leaf paths of a tree   *)
(* in document order, down to the depth bound, through nodes whose /Kids   *)
(* can be read.  A tree is given by the kids its nodes branch into and by  *)
(* the types of its nodes; below is what is known of the paths one level   *)
(* further down.                                                           *)
(***************************************************************************)
Through(node, kid, type, below) ==
  IF type = "Page" THEN << <<node, kid>> >>
  ELSE IF type = "Pages" THEN [j \in 1..Len(below) |-> <<node>> \o below[j]]
  ELSE <<>>

PathsThrough(branches, types, below) ==
  [node \in Objects |->
     FlattenSeq([i \in 1..Len(branches[node]) |->
       LET kid == branches[node][i] IN Through(node, kid, types[kid], below[kid])])]

PathsOf(branches, types) ==
  LET below[d \in 0..(MaxDepth + 1)] ==
        IF d = 0 THEN [node \in Objects |-> <<>>]
        ELSE PathsThrough(branches, types, below[d - 1])
  IN  below[MaxDepth + 1][Root]

Branches == [node \in Objects |-> IF Expands(node) THEN Kids(node) ELSE <<>>]
Types == [node \in Objects |-> NodeType(node)]

Paths == PathsOf(Branches, Types)

Ancestors(path) == 1..(Len(path) - 1)

(* The ancestors a box of this kind is inherited from.                      *)
Stating(path, kind) ==
  {i \in Ancestors(path) : /\ ~tree[path[i]].compressed
                           /\ OwnBox(tree[path[i]].dict, kind) \in Rects}

(* The box a leaf's own dictionary, or else its nearest stating ancestor,   *)
(* gives it.                                                                *)
EffectiveBox(path, kind) ==
  LET leaf == Last(path)
      own == OwnBox(tree[leaf].dict, kind)
      stating == Stating(path, kind)
  IN  IF own \in Rects THEN [rect |-> own, owner |-> leaf]
      ELSE IF own = Malformed THEN Malformed
      ELSE IF stating = {} THEN Absent
      ELSE LET nearest == CHOOSE i \in stating : \A j \in stating : j <= i
           IN  [rect |-> OwnBox(tree[path[nearest]].dict, kind), owner |-> path[nearest]]

PageFor(path, index) ==
  LET media == EffectiveBox(path, "MediaBox")
      crop == EffectiveBox(path, "CropBox")
  IN  [page_index |-> index, leaf |-> Last(path), media |-> media,
       crop |-> IF crop = Absent THEN [rect |-> media.rect, owner |-> Absent] ELSE crop]

Editable(path) ==
  /\ ~tree[Last(path)].compressed
  /\ EffectiveBox(path, "MediaBox") \notin {Absent, Malformed}
  /\ EffectiveBox(path, "CropBox") # Malformed

(* The leaf the box walk gave an index to.                                  *)
NumberedLeaves ==
  {<<pages[i].page_index, pages[i].leaf>> : i \in 1..Len(pages)}
    \cup {<<boxSkips[i].page_index, boxSkips[i].kid>> :
            i \in {j \in 1..Len(boxSkips) : boxSkips[j].page_index # Absent}}

Truncations == {i \in 1..Len(boxSkips) : boxSkips[i].reason \in TruncationReasons}

-----------------------------------------------------------------------------
(* Every variable has its shape.                                            *)
TypeOK == LeafTypeOK /\ BoxTypeOK

(***************************************************************************)
(* However the /Kids graph is shaped, neither walk is ever inside the same *)
(* node twice, neither recursion goes deeper than the bound, and the leaf  *)
(* walk enters each node once and no more nodes than the limit.            *)
(***************************************************************************)
WalksStayBounded ==
  /\ \A stack \in {frames, boxFrames} :
       /\ Len(stack) <= MaxDepth + 1
       /\ \A i, j \in 1..Len(stack) : stack[i].node = stack[j].node => i = j
  /\ visited_node_count = Cardinality(visited)
  /\ visited_node_count <= MaxNodes

(* The places of the /Kids arrays of some nodes.                            *)
KidsOf(nodes) == UNION {{node} \X (1..Len(Kids(node))) : node \in nodes}

(***************************************************************************)
(* "never silently drops the remainder": when the leaf walk ends, every    *)
(* /Kids reference of every node it expanded is a leaf, a skip, or an      *)
(* expanded node, and there is a truncation mark iff a bound stopped one.  *)
(***************************************************************************)
EveryKidAccounted ==
  leafPhase = "done" =>
    LET expanded == {node \in visited : Expands(node)}
    IN  /\ Cardinality(KidsOf(expanded))
             = Len(leaves) + Len(leafSkips) + Cardinality(expanded) - 1
        /\ truncated # Absent <=>
             \E i \in 1..Len(leafSkips) : leafSkips[i].reason \in Bounds

(***************************************************************************)
(* A leaf walk no bound stopped lists the leaves of the tree, left to      *)
(* right.  A box walk no bound stopped reports, for every leaf slot that   *)
(* has usable boxes and no other, the slot's index and the boxes of the    *)
(* leaf or of its nearest ancestor that states one.                        *)
(***************************************************************************)
WalksFollowTree ==
  /\ leafPhase = "done" /\ truncated = Absent =>
       leaves = [i \in 1..Len(Paths) |-> Last(Paths[i])]
  /\ boxPhase = "done" /\ Truncations = {} =>
       /\ page_index = Len(Paths)
       /\ \A i \in 1..Len(pages) :
            LET index == pages[i].page_index
            IN  index < page_index /\ pages[i] = PageFor(Paths[index + 1], index)
       /\ {pages[i].page_index : i \in 1..Len(pages)}
            = {i \in 0..(page_index - 1) : Editable(Paths[i + 1])}

(***************************************************************************)
(* The index a caller edits a page by is the index under which the leaf    *)
(* enumeration lists it, in every document the leaf walk did not cut at a  *)
(* depth or node limit; cyclic and shared nodes included.                  *)
(***************************************************************************)
IndexesNameLeaves ==
  boxPhase = "done"
    /\ (\A i \in 1..Len(leafSkips) :
          leafSkips[i].reason \notin {"MaxDepth", "MaxVisitedNodes"})
  => /\ NumberedLeaves = {<<i - 1, leaves[i]>> : i \in 1..Len(leaves)}
     /\ Len(pages) + Cardinality({j \in 1..Len(boxSkips) : boxSkips[j].page_index # Absent})
          = Len(leaves)

-----------------------------------------------------------------------------
(***************************************************************************)
(* What page_boxes.rs says of unsupported shapes: they are reported, so a  *)
(* page's box is never taken from beyond an ancestor that states one in a  *)
(* form the walk cannot use.                                               *)
(***************************************************************************)
UnusableAncestorsReported ==
  boxPhase = "done" /\ Truncations = {} =>
    \A i \in 1..Len(pages) :
      LET path == Paths[pages[i].page_index + 1]
      IN  \A k \in Ancestors(path) :
            OwnBox(tree[path[k]].dict, "MediaBox") # Absent
              /\ (\A j \in (k + 1)..Len(path) : OwnBox(tree[path[j]].dict, "MediaBox") = Absent)
            => pages[i].media.owner = path[k]

=============================================================================
