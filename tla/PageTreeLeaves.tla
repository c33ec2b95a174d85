--------------------------- MODULE PageTreeLeaves ---------------------------
(***************************************************************************)
(* LeafWalk: the bounded, cycle-guarded enumeration of leaf pages.  The    *)
(* recursion of process_node is an explicit stack of frames, one step per  *)
(* /Kids entry.                                                            *)
(***************************************************************************)
EXTENDS PageTree, SequencesExt

VARIABLES
  leafPhase,            \* "idle", "walking", "done" or "failed"
  frames,               \* open process_node calls, [node, next]: next kid to classify
  leaves,               \* leaf pages in enumeration order
  leafSkips,            \* SkippedPageTreeLeafEntry: [kid, parent, reason]
  visited,              \* object numbers of the /Pages nodes entered
  visited_node_count,
  truncated             \* the first bound that stopped a descent, or Absent

leafVars ==
  <<leafPhase, frames, leaves, leafSkips, visited, visited_node_count, truncated>>

Bounds == {"Cycle", "MaxDepth", "MaxVisitedNodes"}
ASSUME AbsentIsNoBound == Absent \notin Bounds
LeafSkipReasons == Bounds \cup {"Other", "Unresolved", "NodeExpansionFailed"}

LeafTypeOK ==
  /\ leafPhase \in {"idle", "walking", "done", "failed"}
  /\ frames \in Seq([node : Objects, next : Nat \ {0}])
  /\ leaves \in Seq(Objects)
  /\ leafSkips \in Seq([kid : Objects, parent : Objects, reason : LeafSkipReasons])
  /\ visited \subseteq Objects
  /\ visited_node_count \in Nat
  /\ truncated \in Bounds \cup {Absent}

Frame(node) == [node |-> node, next |-> 1]

LeafInit ==
  /\ leafPhase = "idle"
  /\ frames = <<>> /\ leaves = <<>> /\ leafSkips = <<>>
  /\ visited = {} /\ visited_node_count = 0 /\ truncated = Absent

(***************************************************************************)
(* inspect_page_tree_leaves_resolved: only an unexpandable root is an      *)
(* error.                                                                  *)
(***************************************************************************)
StartLeaves ==
  /\ leafPhase = "idle"
  /\ IF Expands(Root)
     THEN /\ leafPhase' = "walking"
          /\ frames' = <<Frame(Root)>>
          /\ visited' = {Root} /\ visited_node_count' = 1
     ELSE leafPhase' = "failed" /\ UNCHANGED <<frames, visited, visited_node_count>>
  /\ UNCHANGED <<tree, leaves, leafSkips, truncated>>

Top(stack) == stack[Len(stack)]
Advanced(stack) == [stack EXCEPT ![Len(stack)].next = @ + 1]
Exhausted(stack) == Top(stack).next > Len(Kids(Top(stack).node))

(* The /Kids entry the walk is at.                                          *)
AtKid(kid) ==
  /\ leafPhase = "walking" /\ frames # <<>> /\ ~Exhausted(frames)
  /\ kid = Kids(Top(frames).node)[Top(frames).next]

LeafSkip(kid, reason) ==
  leafSkips' = Append(leafSkips, [kid |-> kid, parent |-> Top(frames).node,
                                  reason |-> reason])

EmitLeaf ==
  \E kid \in Objects :
    /\ AtKid(kid) /\ NodeType(kid) = "Page"
    /\ leaves' = Append(leaves, kid)
    /\ frames' = Advanced(frames)
    /\ UNCHANGED <<tree, leafPhase, leafSkips, visited, visited_node_count, truncated>>

SkipKid ==
  \E kid \in Objects :
    /\ AtKid(kid) /\ NodeType(kid) \in {"Other", "Unresolved"}
    /\ LeafSkip(kid, NodeType(kid))
    /\ frames' = Advanced(frames)
    /\ UNCHANGED <<tree, leafPhase, leaves, visited, visited_node_count, truncated>>

(***************************************************************************)
(* descend_into_child's bounds, in the order they are tested.  The child's *)
(* depth is the parent's plus one, and the root frame has depth 0.         *)
(***************************************************************************)
CrossedBound(kid) ==
  IF kid \in visited THEN "Cycle"
  ELSE IF Len(frames) > MaxDepth THEN "MaxDepth"
  ELSE IF visited_node_count >= MaxNodes THEN "MaxVisitedNodes"
  ELSE Absent

(* A bound that is reported once only.                                      *)
StopDescentOnce ==
  \E kid \in Objects :
    /\ AtKid(kid) /\ NodeType(kid) = "Pages" /\ CrossedBound(kid) # Absent
    /\ IF truncated = Absent
       THEN truncated' = CrossedBound(kid) /\ LeafSkip(kid, CrossedBound(kid))
       ELSE UNCHANGED <<truncated, leafSkips>>
    /\ frames' = Advanced(frames)
    /\ UNCHANGED <<tree, leafPhase, leaves, visited, visited_node_count>>

StopDescent ==
  \E kid \in Objects :
    /\ AtKid(kid) /\ NodeType(kid) = "Pages" /\ CrossedBound(kid) # Absent
    /\ truncated' = IF truncated = Absent THEN CrossedBound(kid) ELSE truncated
    /\ LeafSkip(kid, CrossedBound(kid))
    /\ frames' = Advanced(frames)
    /\ UNCHANGED <<tree, leafPhase, leaves, visited, visited_node_count>>

(* Entering without remembering the node.                                   *)
EnterUnguarded(kid) ==
  /\ visited' = visited
  /\ visited_node_count' = visited_node_count + 1

(* Entering a child counts it whether or not its /Kids can be read.         *)
Enter(kid) ==
  /\ visited' = visited \cup {kid}
  /\ visited_node_count' = visited_node_count + 1

Descend ==
  \E kid \in Objects :
    /\ AtKid(kid) /\ NodeType(kid) = "Pages" /\ CrossedBound(kid) = Absent
    /\ Enter(kid)
    /\ IF Expands(kid)
       THEN frames' = Append(Advanced(frames), Frame(kid)) /\ UNCHANGED leafSkips
       ELSE LeafSkip(kid, "NodeExpansionFailed") /\ frames' = Advanced(frames)
    /\ UNCHANGED <<tree, leafPhase, leaves, truncated>>

(* process_node returns; when the root's call returns the walk is over.     *)
ReturnFromNode ==
  /\ leafPhase = "walking" /\ Exhausted(frames)
  /\ frames' = Front(frames)
  /\ leafPhase' = IF Len(frames) = 1 THEN "done" ELSE "walking"
  /\ UNCHANGED <<tree, leaves, leafSkips, visited, visited_node_count, truncated>>

LeafStep ==
  StartLeaves \/ EmitLeaf \/ SkipKid \/ StopDescent \/ Descend \/ ReturnFromNode

=============================================================================
