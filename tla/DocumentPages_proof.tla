------------------------- MODULE DocumentPages_proof -------------------------
(***************************************************************************)
(* What holds of the walks over a page tree in every document, whatever    *)
(* its /Kids graph, and for every reader of it.                            *)
(*                                                                         *)
(* A stack of open calls stays within the depth bound because each open    *)
(* node was remembered when it was entered, and none is entered twice.     *)
(* The kids of the leaf walk are accounted for step by step: the invariant *)
(* counts the /Kids places that the open and the closed nodes have passed. *)
(* And the paths a walk has passed so far are, of each open node, those    *)
(* through the kids behind its cursor, in the order of the tree.  The two  *)
(* walks take the same steps until a limit of the one stops it.            *)
(* Where the box walk is, cycles and bounds included, follows from the tree *)
(* and from how many steps it has taken.                                   *)
(***************************************************************************)
EXTENDS ColorAudit, ProofFacts

LeafFrame == [node : Objects, next : Nat \ {0}]
BoxFrame(boxes) == [node : Objects, next : Nat, inherited : boxes]

StackBounded(stack, seen) ==
  /\ Len(stack) <= MaxDepth + 1
  /\ \A i \in 1..Len(stack) : stack[i].node \in seen
  /\ \A i, j \in 1..Len(stack) : stack[i].node = stack[j].node => i = j

LeafBounded ==
  /\ frames \in Seq(LeafFrame)
  /\ leafPhase = "walking" => frames # <<>>
  /\ visited \subseteq Objects /\ IsFiniteSet(visited)
  /\ visited_node_count = Cardinality(visited) /\ visited_node_count <= MaxNodes
  /\ StackBounded(frames, visited)

BoxBounded ==
  /\ \E boxes : boxFrames \in Seq(BoxFrame(boxes))
  /\ boxPhase = "idle" => boxFrames = <<>>
  /\ StackBounded(boxFrames, boxVisited)

(* Moving the top call on, opening one more and returning from one.         *)
LEMMA NoneIsBounded ==
  ASSUME NEW seen
  PROVE  StackBounded(<<>>, seen)
<1>1. 1..Len(<<>>) = {} /\ Len(<<>>) = 0
  OBVIOUS
<1>2. QED
  BY <1>1, BoundsAreNat DEF StackBounded

LEMMA MovedIsBounded ==
  ASSUME NEW stack, NEW next, NEW seen, NEW more, seen \subseteq more, StackBounded(stack, seen),
         Len(next) = Len(stack), \A i \in 1..Len(stack) : next[i].node = stack[i].node
  PROVE  StackBounded(next, more)
BY DEF StackBounded

LEMMA PushedIsBounded ==
  ASSUME NEW S, NEW stack \in Seq(S), NEW top \in S, NEW seen, StackBounded(stack, seen),
         top.node \notin seen, Len(stack) <= MaxDepth
  PROVE  StackBounded(Append(stack, top), seen \cup {top.node})
<1> DEFINE more == Append(stack, top)
           n == Len(stack)
<1>1. /\ n \in Nat /\ Len(more) = n + 1 /\ more[n + 1] = top
      /\ \A i \in 1..n : more[i] = stack[i]
  BY LenProperties, AppendProperties
<1> HIDE DEF more
<1>2. \A i \in 1..(n + 1) : i \in 1..n \/ i = n + 1
  BY <1>1
<1>3. \A i \in 1..n : stack[i].node \in seen
  BY DEF StackBounded
<1>4. \A i, j \in 1..n : stack[i].node = stack[j].node => i = j
  BY DEF StackBounded
<1>5. \A i \in 1..n : more[i].node \in seen /\ more[i].node # top.node
  BY <1>1, <1>3
<1>6. n + 1 <= MaxDepth + 1
  BY <1>1, BoundsAreNat
<1>7. \A i \in 1..(n + 1) : more[i].node \in seen \cup {top.node}
  BY <1>1, <1>2, <1>5
<1>8. \A i, j \in 1..(n + 1) : more[i].node = more[j].node => i = j
  BY <1>1, <1>2, <1>4, <1>5
<1>9. QED
  BY <1>1, <1>6, <1>7, <1>8 DEF StackBounded, more

LEMMA PoppedIsBounded ==
  ASSUME NEW S, NEW stack \in Seq(S), stack # <<>>, NEW seen, StackBounded(stack, seen)
  PROVE  /\ Front(stack) \in Seq(S) /\ Len(stack) \in Nat \ {0} /\ Len(Front(stack)) = Len(stack) - 1
         /\ \A i \in 1..Len(Front(stack)) : Front(stack)[i] = stack[i]
         /\ StackBounded(Front(stack), seen)
<1>1. /\ Front(stack) \in Seq(S) /\ Len(Front(stack)) = Len(stack) - 1 /\ Len(stack) \in Nat \ {0}
      /\ \A i \in 1..Len(Front(stack)) : Front(stack)[i] = stack[i]
  BY Popped DEF Front
<1>2. StackBounded(Front(stack), seen)
  BY <1>1, BoundsAreNat DEF StackBounded
<1>3. QED
  BY <1>1, <1>2

LEMMA AdvancedFrames ==
  ASSUME NEW stack \in Seq(LeafFrame), stack # <<>>
  PROVE  /\ Advanced(stack) \in Seq(LeafFrame) /\ Advanced(stack) # <<>>
         /\ Len(stack) \in Nat \ {0} /\ Len(Advanced(stack)) = Len(stack)
         /\ \A i \in 1..Len(stack) :
              /\ stack[i] \in LeafFrame /\ Advanced(stack)[i].node = stack[i].node
              /\ Advanced(stack)[i].next = IF i = Len(stack) THEN stack[i].next + 1 ELSE stack[i].next
<1> DEFINE n == Len(stack)
           moved == [stack[n] EXCEPT !.next = @ + 1]
<1>1. n \in Nat \ {0} /\ \A i \in 1..n : stack[i] \in LeafFrame
  BY EmptySeq, ElementOfSeq
<1>2. stack[n] \in LeafFrame /\ n \in 1..n
  BY <1>1
<1>3. moved \in LeafFrame /\ moved.node = stack[n].node /\ moved.next = stack[n].next + 1
  BY <1>2 DEF LeafFrame
<1>4. Advanced(stack) = [stack EXCEPT ![n] = moved]
  BY DEF Advanced
<1> HIDE DEF moved
<1>5. /\ Advanced(stack) \in Seq(LeafFrame) /\ Len(Advanced(stack)) = n
      /\ \A i \in 1..n : Advanced(stack)[i] = IF i = n THEN moved ELSE stack[i]
  BY <1>1, <1>2, <1>3, <1>4, ExceptSeq
<1>6. Advanced(stack) # <<>>
  BY <1>1, <1>5
<1>7. QED
  BY <1>1, <1>3, <1>5, <1>6

LEMMA AdvancedBoxFrames ==
  ASSUME NEW boxes, boxFrames \in Seq(BoxFrame(boxes))
  PROVE  /\ BoxAdvanced \in Seq(BoxFrame(boxes)) /\ Len(boxFrames) \in Nat
         /\ Len(BoxAdvanced) = Len(boxFrames)
         /\ \A i \in 1..Len(boxFrames) : BoxAdvanced[i].node = boxFrames[i].node
<1> DEFINE n == Len(boxFrames)
           moved == [boxFrames[n] EXCEPT !.next = @ + 1]
<1>1. CASE boxFrames = <<>>
  BY <1>1, EmptySeq DEF BoxAdvanced
<1>2. CASE boxFrames # <<>>
  <2>1. n \in Nat \ {0} /\ \A i \in 1..n : boxFrames[i] \in BoxFrame(boxes)
    BY <1>2, EmptySeq, ElementOfSeq
  <2>2. boxFrames[n] \in BoxFrame(boxes) /\ n \in 1..n
    BY <2>1
  <2>3. moved \in BoxFrame(boxes) /\ moved.node = boxFrames[n].node
    BY <2>2 DEF BoxFrame
  <2>4. BoxAdvanced = [boxFrames EXCEPT ![n] = moved]
    BY <1>2 DEF BoxAdvanced
  <2> HIDE DEF moved
  <2>5. /\ BoxAdvanced \in Seq(BoxFrame(boxes)) /\ Len(BoxAdvanced) = n
        /\ \A i \in 1..n : BoxAdvanced[i] = IF i = n THEN moved ELSE boxFrames[i]
    BY <2>1, <2>2, <2>3, <2>4, ExceptSeq
  <2>6. QED
    BY <2>1, <2>3, <2>5
<1>3. QED
  BY <1>1, <1>2

-----------------------------------------------------------------------------
LEMMA LeafStepsAreBounded ==
  ASSUME LeafBounded, LeafStep
  PROVE  LeafBounded'
<1>1. /\ frames \in Seq(LeafFrame) /\ visited \subseteq Objects /\ IsFiniteSet(visited)
      /\ visited_node_count = Cardinality(visited) /\ visited_node_count <= MaxNodes
      /\ StackBounded(frames, visited) /\ (leafPhase = "walking" => frames # <<>>)
  BY DEF LeafBounded
<1>2. ASSUME frames # <<>>, frames' = Advanced(frames), visited \subseteq visited'
      PROVE  frames' \in Seq(LeafFrame) /\ frames' # <<>> /\ StackBounded(frames, visited)'
  <2>1. /\ Advanced(frames) \in Seq(LeafFrame) /\ Advanced(frames) # <<>>
        /\ Len(Advanced(frames)) = Len(frames)
        /\ \A i \in 1..Len(frames) : Advanced(frames)[i].node = frames[i].node
    BY <1>1, <1>2, AdvancedFrames
  <2>2. StackBounded(frames', visited')
    BY <1>1, <1>2, <2>1, MovedIsBounded
  <2>3. QED
    BY <1>2, <2>1, <2>2
<1>3. ASSUME frames # <<>>, frames' = Advanced(frames), UNCHANGED <<visited, visited_node_count>>
      PROVE  LeafBounded'
  BY <1>1, <1>2, <1>3 DEF LeafBounded
<1>4. CASE StartLeaves
  <2>1. CASE Expands(Root)
    <3>1. frames' = <<Frame(Root)>> /\ visited' = {Root} /\ visited_node_count' = 1
      BY <1>4, <2>1 DEF StartLeaves
    <3>2. Frame(Root) \in LeafFrame /\ Frame(Root).node = Root
      BY RootIsObject DEF Frame, LeafFrame
    <3>3. frames' \in Seq(LeafFrame) /\ frames' # <<>> /\ Len(frames') = 1 /\ frames'[1] = Frame(Root)
      BY <3>1, <3>2
    <3>4. StackBounded(frames', visited')
      BY <3>1, <3>2, <3>3, BoundsAreNat DEF StackBounded
    <3>5. visited' \subseteq Objects /\ IsFiniteSet(visited') /\ Cardinality(visited') = 1
      BY <3>1, RootIsObject, FS_Singleton
    <3>6. QED
      BY <3>1, <3>3, <3>4, <3>5, BoundsAreNat DEF LeafBounded
  <2>2. CASE ~Expands(Root)
    BY <1>1, <1>4, <2>2 DEF StartLeaves, LeafBounded
  <2>3. QED
    BY <2>1, <2>2
<1>5. CASE EmitLeaf \/ SkipKid \/ StopDescent
  BY <1>3, <1>5 DEF EmitLeaf, SkipKid, StopDescent, AtKid
<1>6. CASE Descend
  <2>1. PICK kid \in Objects :
          /\ frames # <<>> /\ CrossedBound(kid) = Absent /\ AtKid(kid)
          /\ visited' = visited \cup {kid} /\ visited_node_count' = visited_node_count + 1
          /\ IF Expands(kid) THEN frames' = Append(Advanced(frames), Frame(kid))
                             ELSE frames' = Advanced(frames)
    BY <1>6 DEF Descend, AtKid, Enter
  <2>2. kid \notin visited /\ Len(frames) <= MaxDepth /\ visited_node_count < MaxNodes
    <3>1. Len(frames) \in Nat /\ visited_node_count \in Nat
      BY <1>1, LenProperties, FS_CardinalityType
    <3>2. kid \notin visited /\ ~(Len(frames) > MaxDepth) /\ ~(visited_node_count >= MaxNodes)
      BY <2>1, AbsentIsNoBound DEF CrossedBound, Bounds
    <3>3. QED
      BY <3>1, <3>2, BoundsAreNat
  <2>3. /\ visited' \subseteq Objects /\ IsFiniteSet(visited')
        /\ Cardinality(visited') = visited_node_count + 1 /\ visited_node_count + 1 <= MaxNodes
    <3>1. visited_node_count \in Nat
      BY <1>1, FS_CardinalityType
    <3>2. IsFiniteSet(visited \cup {kid}) /\ Cardinality(visited \cup {kid}) = Cardinality(visited) + 1
      BY <1>1, <2>2, FS_AddElement
    <3>3. QED
      BY <1>1, <2>1, <2>2, <3>1, <3>2, BoundsAreNat
  <2>4. CASE Expands(kid)
    <3> DEFINE moved == Advanced(frames)
    <3>1. /\ moved \in Seq(LeafFrame) /\ Len(moved) = Len(frames)
          /\ \A i \in 1..Len(frames) : moved[i].node = frames[i].node
      BY <1>1, <2>1, AdvancedFrames
    <3>2. StackBounded(moved, visited)
      BY <1>1, <3>1, MovedIsBounded
    <3>3. Frame(kid) \in LeafFrame /\ Frame(kid).node = kid
      BY DEF Frame, LeafFrame
    <3>4. frames' = Append(moved, Frame(kid))
      BY <2>1, <2>4
    <3> HIDE DEF moved
    <3>5. StackBounded(Append(moved, Frame(kid)), visited \cup {kid})
      BY <2>2, <3>1, <3>2, <3>3, PushedIsBounded
    <3>6. Append(moved, Frame(kid)) \in Seq(LeafFrame) /\ Append(moved, Frame(kid)) # <<>>
      BY <3>1, <3>3, AppendProperties
    <3>7. QED
      BY <2>1, <2>3, <3>4, <3>5, <3>6 DEF LeafBounded
  <2>5. CASE ~Expands(kid)
    <3>1. frames' = Advanced(frames) /\ visited \subseteq visited'
      BY <2>1, <2>5
    <3>2. QED
      BY <1>2, <2>1, <2>3, <3>1 DEF LeafBounded
  <2>6. QED
    BY <2>4, <2>5
<1>7. CASE ReturnFromNode
  <2>1. frames # <<>> /\ frames' = Front(frames) /\ UNCHANGED <<visited, visited_node_count>>
        /\ leafPhase' = IF Len(frames) = 1 THEN "done" ELSE "walking"
    BY <1>1, <1>7 DEF ReturnFromNode
  <2>2. /\ frames' \in Seq(LeafFrame) /\ Len(frames) \in Nat \ {0} /\ Len(frames') = Len(frames) - 1
        /\ StackBounded(frames', visited)
    BY <1>1, <2>1, PoppedIsBounded
  <2>3. leafPhase' = "walking" => frames' # <<>>
    BY <2>1, <2>2
  <2>4. QED
    BY <1>1, <2>1, <2>2, <2>3 DEF LeafBounded
<1>8. QED
  BY <1>4, <1>5, <1>6, <1>7 DEF LeafStep

LEMMA BoxStepsAreBounded ==
  ASSUME BoxBounded, BoxStep
  PROVE  BoxBounded'
<1>1. PICK boxes : boxFrames \in Seq(BoxFrame(boxes))
  BY DEF BoxBounded
<1>2. StackBounded(boxFrames, boxVisited) /\ (boxPhase = "idle" => boxFrames = <<>>)
  BY DEF BoxBounded
<1>3. /\ BoxAdvanced \in Seq(BoxFrame(boxes)) /\ Len(boxFrames) \in Nat
      /\ Len(BoxAdvanced) = Len(boxFrames)
      /\ \A i \in 1..Len(boxFrames) : BoxAdvanced[i].node = boxFrames[i].node
  BY <1>1, AdvancedBoxFrames
<1>4. ASSUME boxFrames' = BoxAdvanced, boxPhase' # "idle", boxVisited \subseteq boxVisited'
      PROVE  BoxBounded'
  <2>1. StackBounded(boxFrames', boxVisited')
    BY <1>2, <1>3, <1>4, MovedIsBounded
  <2>2. boxFrames' \in Seq(BoxFrame(boxes))
    BY <1>3, <1>4
  <2>3. QED
    BY <1>4, <2>1, <2>2 DEF BoxBounded
<1>5. ASSUME NEW node \in Objects, NEW inherited, ProcessPagesNode(node, inherited), boxPhase' = "walking"
      PROVE  BoxBounded'
  <2>1. boxVisited' = boxVisited \cup {node}
    BY <1>5 DEF ProcessPagesNode
  <2>2. CASE boxFrames' = BoxAdvanced
    BY <1>4, <1>5, <2>1, <2>2
  <2>3. CASE boxFrames' # BoxAdvanced
    <3> DEFINE kept == ApplyInherited(node, inherited)
               more == boxes \cup {kept}
               frame == [node |-> node, next |-> 1, inherited |-> kept]
    <3>1. node \notin boxVisited /\ Len(boxFrames) <= MaxDepth /\ boxFrames' = Append(BoxAdvanced, frame)
      BY <1>5, <2>3 DEF ProcessPagesNode
    <3> HIDE DEF kept
    <3>2. frame \in BoxFrame(more) /\ frame.node = node
      BY DEF BoxFrame
    <3>3. BoxAdvanced \in Seq(BoxFrame(more))
      <4>1. BoxFrame(boxes) \subseteq BoxFrame(more)
        BY DEF BoxFrame
      <4> HIDE DEF more
      <4>2. BoxAdvanced \in [1..Len(BoxAdvanced) -> BoxFrame(boxes)] /\ Len(BoxAdvanced) \in Nat
        BY <1>3, LenProperties
      <4>3. BoxAdvanced \in [1..Len(BoxAdvanced) -> BoxFrame(more)]
        BY <4>1, <4>2
      <4>4. QED
        BY <1>3, <4>1, <4>2, <4>3
    <3> HIDE DEF frame, more
    <3>4. StackBounded(BoxAdvanced, boxVisited)
      BY <1>2, <1>3, MovedIsBounded
    <3>5. StackBounded(Append(BoxAdvanced, frame), boxVisited \cup {node})
      BY <1>3, <3>1, <3>2, <3>3, <3>4, PushedIsBounded
    <3>6. Append(BoxAdvanced, frame) \in Seq(BoxFrame(more))
      BY <3>2, <3>3, AppendProperties
    <3>7. QED
      BY <1>5, <2>1, <3>1, <3>5, <3>6 DEF BoxBounded
  <2>4. QED
    BY <2>2, <2>3
<1>6. CASE StartBoxes
  BY <1>5, <1>6, RootIsObject DEF StartBoxes
<1>7. CASE DescendBoxes
  BY <1>5, <1>7 DEF DescendBoxes, AtBoxKid
<1>8. CASE PassOverKid \/ ReportLeaf \/ RefuseLeaf
  BY <1>4, <1>8 DEF PassOverKid, ReportLeaf, RefuseLeaf, AtBoxKid
<1>9. CASE ReturnFromTargets
  <2>1. boxFrames # <<>> /\ boxFrames' = Front(boxFrames) /\ boxVisited' = boxVisited /\ boxPhase' = "walking"
    BY <1>9 DEF ReturnFromTargets
  <2>2. boxFrames' \in Seq(BoxFrame(boxes)) /\ StackBounded(boxFrames', boxVisited)
    BY <1>1, <1>2, <2>1, PoppedIsBounded
  <2>3. QED
    BY <2>1, <2>2 DEF BoxBounded
<1>10. CASE FinishBoxes
  BY <1>1, <1>2, <1>10 DEF FinishBoxes, BoxBounded
<1>11. QED
  BY <1>6, <1>7, <1>8, <1>9, <1>10 DEF BoxStep

LEMMA WalksStartBounded ==
  ASSUME LeafInit, BoxInit
  PROVE  LeafBounded /\ BoxBounded
<1>1. frames \in Seq(LeafFrame) /\ boxFrames \in Seq(BoxFrame({}))
  BY DEF LeafInit, BoxInit
<1>2. StackBounded(frames, visited) /\ StackBounded(boxFrames, boxVisited)
  BY NoneIsBounded DEF LeafInit, BoxInit
<1>3. QED
  BY <1>1, <1>2, FS_EmptySet, BoundsAreNat DEF LeafInit, BoxInit, LeafBounded, BoxBounded

LEMMA WalksStayPut ==
  ASSUME LeafBounded, BoxBounded
  PROVE  /\ UNCHANGED leafVars => LeafBounded'
         /\ UNCHANGED boxVars => BoxBounded'
<1>1. ASSUME UNCHANGED leafVars
      PROVE  LeafBounded'
  BY <1>1 DEF leafVars, LeafBounded, StackBounded
<1>2. ASSUME UNCHANGED boxVars
      PROVE  BoxBounded'
  BY <1>2 DEF boxVars, BoxBounded, StackBounded
<1>3. QED
  BY <1>1, <1>2

LEMMA WalkStepsAreBounded ==
  ASSUME LeafBounded, BoxBounded,
         EnumerateLeaves \/ InspectBoxes \/ UNCHANGED <<leafVars, boxVars>>
  PROVE  LeafBounded' /\ BoxBounded'
<1>1. CASE EnumerateLeaves
  BY <1>1, LeafStepsAreBounded, WalksStayPut DEF EnumerateLeaves
<1>2. CASE InspectBoxes
  BY <1>2, BoxStepsAreBounded, WalksStayPut DEF InspectBoxes
<1>3. CASE UNCHANGED <<leafVars, boxVars>>
  BY <1>3, WalksStayPut
<1>4. QED
  BY <1>1, <1>2, <1>3

LEMMA BoundedWalks ==
  ASSUME LeafBounded, BoxBounded
  PROVE  WalksStayBounded
BY DEF LeafBounded, BoxBounded, StackBounded, WalksStayBounded

-----------------------------------------------------------------------------
(***************************************************************************)
(* In every document, whatever its /Kids graph, and for every reader of    *)
(* it: the two walks never open a node twice, never go deeper than the     *)
(* bound, and the leaf walk enters no more nodes than the limit.           *)
(***************************************************************************)
THEOREM WalksAlwaysBounded == ReadSpec => []WalksStayBounded
<1>1. ReadInit => LeafBounded /\ BoxBounded
  BY WalksStartBounded DEF ReadInit
<1>2. ASSUME LeafBounded, BoxBounded, [ReadNext]_readVars
      PROVE  LeafBounded' /\ BoxBounded'
  <2>1. CASE InspectPageBoxes
    BY <1>2, <2>1, WalkStepsAreBounded DEF InspectPageBoxes, Next, Answered, vars
  <2>2. CASE OpenForAudit
    BY <1>2, <2>2, WalkStepsAreBounded DEF OpenForAudit
  <2>3. CASE AuditStep
    BY <1>2, <2>3, WalkStepsAreBounded DEF AuditStep, BuildInventory, AuditPage, CheckPage, vars
  <2>4. CASE UNCHANGED readVars
    BY <1>2, <2>4, WalkStepsAreBounded DEF readVars, vars
  <2>5. QED
    BY <1>2, <2>1, <2>2, <2>3, <2>4 DEF ReadNext, AuditAnswered
<1>3. LeafBounded /\ BoxBounded => WalksStayBounded
  BY BoundedWalks
<1>4. QED
  BY <1>1, <1>2, <1>3, PTL DEF ReadSpec

-----------------------------------------------------------------------------
(***************************************************************************)
(* Places in /Kids arrays: pairs of a node and an index.                   *)
(***************************************************************************)
SkipEntry == [kid : Objects, parent : Objects, reason : LeafSkipReasons]

Expanded == {node \in visited : Expands(node)}
Places == KidsOf(Expanded)

(* The places a stack of calls has passed.                                  *)
Taken(stack, places) ==
  {place \in places :
     \A i \in 1..Len(stack) : stack[i].node = place[1] => place[2] < stack[i].next}

Accounted ==
  /\ IsFiniteSet(Taken(frames, Places))
  /\ Cardinality(Taken(frames, Places)) = Len(leaves) + Len(leafSkips) + Cardinality(Expanded) - 1

Skipped ==
  /\ leaves \in Seq(Objects) /\ leafSkips \in Seq(SkipEntry)
  /\ truncated \in Bounds \cup {Absent}
  /\ truncated # Absent <=> \E i \in 1..Len(leafSkips) : leafSkips[i].reason \in Bounds

KidsInv ==
  /\ tree \in TreeShape
  /\ leafPhase = "idle" => leaves = <<>> /\ leafSkips = <<>>
  /\ leafPhase = "done" => frames = <<>>
  /\ leafPhase \in {"walking", "done"} => Accounted
  /\ \A i \in 1..Len(frames) : frames[i].node \in Expanded
  /\ Skipped

LEMMA PlacesArePairs ==
  ASSUME NEW nodes
  PROVE  \A place : place \in KidsOf(nodes) <=>
           \E node \in nodes : \E k \in 1..Len(Kids(node)) : place = <<node, k>>
<1>1. \A node, S, place : place \in {node} \X S <=> \E k \in S : place = <<node, k>>
  OBVIOUS
<1>2. \A place : place \in KidsOf(nodes) <=>
           \E node \in nodes : place \in {node} \X (1..Len(Kids(node)))
  BY Zenon DEF KidsOf
<1>3. QED
  BY <1>1, <1>2

LEMMA TakenMoved ==
  ASSUME NEW stack \in Seq(LeafFrame), stack # <<>>, NEW seen, StackBounded(stack, seen),
         NEW places, IsFiniteSet(Taken(stack, places)),
         \A place \in places : place = <<place[1], place[2]>> /\ place[2] \in Nat,
         <<Top(stack).node, Top(stack).next>> \in places
  PROVE  /\ IsFiniteSet(Taken(Advanced(stack), places))
         /\ Cardinality(Taken(Advanced(stack), places)) = Cardinality(Taken(stack, places)) + 1
<1> DEFINE moved == Advanced(stack)
           n == Len(stack)
           here == <<Top(stack).node, Top(stack).next>>
<1>1. /\ n \in Nat \ {0} /\ Len(moved) = n
      /\ \A i \in 1..n :
           /\ stack[i] \in LeafFrame /\ moved[i].node = stack[i].node
           /\ moved[i].next = IF i = n THEN stack[i].next + 1 ELSE stack[i].next
  BY AdvancedFrames
<1>2. /\ here \in places /\ here[1] = stack[n].node /\ here[2] = stack[n].next /\ here[2] \in Nat
      /\ \A place \in places : place[1] = here[1] /\ place[2] = here[2] => place = here
  BY <1>1 DEF Top, LeafFrame
<1>3. \A i, j \in 1..n : stack[i].node = stack[j].node => i = j
  BY <1>1 DEF StackBounded
<1> HIDE DEF moved, here
<1>4. \A i \in 1..n : stack[i].next \in Nat
  BY <1>1 DEF LeafFrame
<1>5. here \notin Taken(stack, places)
  BY <1>1, <1>2, <1>4 DEF Taken
<1>6. Taken(moved, places) = Taken(stack, places) \cup {here}
  <2>1. ASSUME NEW place \in places,
               \A i \in 1..n : moved[i].node = place[1] => place[2] < moved[i].next,
               place # here
        PROVE  \A i \in 1..n : stack[i].node = place[1] => place[2] < stack[i].next
    <3>1. place[1] # here[1] \/ place[2] # here[2]
      BY <1>2, <2>1
    <3>2. place[2] \in Nat
      OBVIOUS
    <3>3. QED
      BY <1>1, <1>2, <1>4, <2>1, <3>1, <3>2
  <2>2. ASSUME NEW place \in places,
               \A i \in 1..n : stack[i].node = place[1] => place[2] < stack[i].next
        PROVE  \A i \in 1..n : moved[i].node = place[1] => place[2] < moved[i].next
    BY <1>1, <1>4, <2>2
  <2>3. \A i \in 1..n : moved[i].node = here[1] => here[2] < moved[i].next
    BY <1>1, <1>2, <1>3, <1>4
  <2>4. \A place : place \in Taken(moved, places) => place \in Taken(stack, places) \cup {here}
    BY <1>1, <2>1 DEF Taken
  <2>5. \A place : place \in Taken(stack, places) => place \in Taken(moved, places)
    BY <1>1, <2>2 DEF Taken
  <2>6. here \in Taken(moved, places)
    BY <1>1, <1>2, <2>3 DEF Taken
  <2>7. QED
    BY <2>4, <2>5, <2>6, Zenon
<1>7. QED
  BY <1>5, <1>6, FS_AddElement DEF moved

LEMMA TakenOpened ==
  ASSUME NEW stack, NEW longer, NEW places, NEW all, Len(stack) \in Nat,
         Len(longer) = Len(stack) + 1, \A i \in 1..Len(stack) : longer[i] = stack[i],
         longer[Len(stack) + 1].next = 1,
         places \subseteq all,
         \A place \in all \ places : place[1] = longer[Len(stack) + 1].node /\ place[2] \in Nat \ {0},
         \A place \in places : place[1] # longer[Len(stack) + 1].node
  PROVE  Taken(longer, all) = Taken(stack, places)
<1> DEFINE n == Len(stack)
<1>1. /\ n \in Nat /\ Len(longer) = n + 1 /\ longer[n + 1].next = 1
      /\ \A i \in 1..n : longer[i] = stack[i]
  OBVIOUS
<1>2. n + 1 \in 1..(n + 1) /\ \A i \in 1..(n + 1) : i \in 1..n \/ i = n + 1
  BY <1>1
<1>3. \A i \in 1..n : i \in 1..(n + 1)
  BY <1>1
<1>4. \A place : place \in Taken(longer, all) => place \in places
  BY <1>1, <1>2 DEF Taken
<1>5. \A place : place \in Taken(longer, all) => place \in Taken(stack, places)
  BY <1>1, <1>3, <1>4 DEF Taken
<1>6. \A place : place \in Taken(stack, places) => place \in Taken(longer, all)
  BY <1>1, <1>2 DEF Taken
<1>7. QED
  BY <1>5, <1>6, Zenon

LEMMA TakenClosed ==
  ASSUME NEW stack \in Seq(LeafFrame), stack # <<>>, NEW places,
         \A place \in places : place[1] = Top(stack).node => place[2] < Top(stack).next
  PROVE  Taken(Front(stack), places) = Taken(stack, places)
<1> DEFINE shorter == Front(stack)
           n == Len(stack)
<1>1. /\ n \in Nat \ {0} /\ Len(shorter) = n - 1
      /\ \A i \in 1..(n - 1) : shorter[i] = stack[i]
  BY Popped DEF Front
<1> HIDE DEF shorter
<1>2. \A i \in 1..n : i \in 1..(n - 1) \/ i = n
  BY <1>1
<1>3. \A i \in 1..(n - 1) : i \in 1..n
  BY <1>1
<1>4. \A place : place \in Taken(shorter, places) => place \in Taken(stack, places)
  BY <1>1, <1>2 DEF Taken, Top
<1>5. \A place : place \in Taken(stack, places) => place \in Taken(shorter, places)
  BY <1>1, <1>3 DEF Taken
<1>6. QED
  BY <1>4, <1>5, Zenon DEF shorter

-----------------------------------------------------------------------------
(* The places as the leaf walk goes on.                                     *)
LEMMA PlacesKept ==
  ASSUME tree' = tree, visited' = visited
  PROVE  Places' = Places /\ Expanded' = Expanded
<1>1. \A node : (Expands(node)' <=> Expands(node)) /\ Kids(node)' = Kids(node)
  BY DEF Expands, Kids
<1>2. Expanded' = Expanded
  BY DEF Expanded, Expands, Kids
<1>3. Places' = Places
  BY <1>2 DEF Places, KidsOf, Kids
<1>4. QED
  BY <1>2, <1>3

LEMMA PlacesOfOneMore ==
  ASSUME NEW kid, tree' = tree, visited' = visited \cup {kid}
  PROVE  /\ ~Expands(kid) => Expanded' = Expanded /\ Places' = Places
         /\ Expands(kid) =>
              /\ Expanded' = Expanded \cup {kid}
              /\ Places' = Places \cup ({kid} \X (1..Len(Kids(kid))))
<1>1. Expanded' = {node \in visited \cup {kid} : Expands(node)}
  BY DEF Expanded, Expands, Kids
<1>2. Places' = KidsOf(Expanded')
  BY DEF Places, KidsOf, Kids
<1>3. CASE ~Expands(kid)
  <2>1. Expanded' = Expanded
    BY <1>1, <1>3 DEF Expanded
  <2>2. QED
    BY <1>2, <1>3, <2>1 DEF Places
<1>4. CASE Expands(kid)
  <2>1. Expanded' = Expanded \cup {kid}
    BY <1>1, <1>4 DEF Expanded
  <2>2. \A place : place \in KidsOf(Expanded \cup {kid}) <=>
                     place \in KidsOf(Expanded) \/ place \in {kid} \X (1..Len(Kids(kid)))
    BY Zenon DEF KidsOf
  <2>3. KidsOf(Expanded \cup {kid}) = KidsOf(Expanded) \cup ({kid} \X (1..Len(Kids(kid))))
    BY <2>2, Zenon
  <2>4. QED
    BY <1>2, <1>4, <2>1, <2>3 DEF Places
<1>5. QED
  BY <1>3, <1>4

(* The leaf walk at a /Kids entry: it is in the tree, and moving past it    *)
(* passes one more place.                                                   *)
LEMMA MovingOnPassesOne ==
  ASSUME LeafBounded, KidsInv, NEW kid, AtKid(kid)
  PROVE  /\ leafPhase = "walking" /\ frames # <<>> /\ Accounted
         /\ Top(frames).node \in Objects
         /\ Advanced(frames) \in Seq(LeafFrame)
         /\ \A i \in 1..Len(Advanced(frames)) : Advanced(frames)[i].node \in Expanded
         /\ IsFiniteSet(Taken(Advanced(frames), Places))
         /\ Cardinality(Taken(Advanced(frames), Places)) = Cardinality(Taken(frames, Places)) + 1
<1> DEFINE top == Top(frames)
<1>1. /\ frames \in Seq(LeafFrame) /\ StackBounded(frames, visited)
      /\ leafPhase = "walking" /\ frames # <<>>
  BY DEF LeafBounded, AtKid
<1>2. leafPhase = "walking" /\ frames # <<>> /\ ~(top.next > Len(Kids(top.node)))
  BY DEF AtKid, Exhausted
<1>3. Accounted /\ tree \in TreeShape /\ \A i \in 1..Len(frames) : frames[i].node \in Expanded
  BY <1>2 DEF KidsInv
<1>4. /\ Len(frames) \in Nat \ {0} /\ Len(Advanced(frames)) = Len(frames)
      /\ Advanced(frames) \in Seq(LeafFrame)
      /\ \A i \in 1..Len(frames) : frames[i] \in LeafFrame /\ Advanced(frames)[i].node = frames[i].node
  BY <1>1, <1>2, AdvancedFrames
<1>5. top \in LeafFrame /\ top.node \in Expanded
  BY <1>3, <1>4 DEF Top
<1>6. top.node \in Objects /\ top.next \in Nat \ {0} /\ Expands(top.node)
  BY <1>5 DEF LeafFrame, Expanded
<1> HIDE DEF top
<1>7. Kids(top.node) \in Seq(Objects)
  BY <1>3, <1>6 DEF TreeShape, ObjectShape, Expands, Kids
<1>8. Len(Kids(top.node)) \in Nat
  BY <1>7, LenProperties
<1>9. top.next \in 1..Len(Kids(top.node))
  BY <1>2, <1>6, <1>8
<1>10. <<top.node, top.next>> \in Places
  BY <1>5, <1>9, PlacesArePairs DEF Places
<1>11. \A place \in Places : place = <<place[1], place[2]>> /\ place[2] \in Nat
  <2>1. \A place \in Places : \E node \in Expanded : \E k \in 1..Len(Kids(node)) : place = <<node, k>>
    BY PlacesArePairs DEF Places
  <2>2. \A node : \A k \in 1..Len(Kids(node)) : k \in Nat
    OBVIOUS
  <2>3. QED
    BY <2>1, <2>2
<1>12. /\ IsFiniteSet(Taken(Advanced(frames), Places))
       /\ Cardinality(Taken(Advanced(frames), Places)) = Cardinality(Taken(frames, Places)) + 1
  BY <1>1, <1>2, <1>3, <1>10, <1>11, TakenMoved DEF Accounted, top
<1>13. QED
  BY <1>2, <1>3, <1>4, <1>6, <1>12 DEF top

LEMMA SkipAdded ==
  ASSUME Skipped, NEW skip \in SkipEntry, leafSkips' = Append(leafSkips, skip), leaves' = leaves,
         truncated' \in Bounds \cup {Absent},
         truncated' # Absent <=> (truncated # Absent \/ skip.reason \in Bounds)
  PROVE  Skipped' /\ Len(leafSkips') = Len(leafSkips) + 1 /\ Len(leafSkips) \in Nat
<1> DEFINE longer == Append(leafSkips, skip)
           n == Len(leafSkips)
<1>1. /\ leafSkips \in Seq(SkipEntry) /\ leaves \in Seq(Objects)
      /\ truncated # Absent <=> \E i \in 1..n : leafSkips[i].reason \in Bounds
  BY DEF Skipped
<1>2. /\ n \in Nat /\ Len(longer) = n + 1 /\ longer[n + 1] = skip /\ longer \in Seq(SkipEntry)
      /\ \A i \in 1..n : longer[i] = leafSkips[i]
  BY <1>1, LenProperties, AppendProperties
<1>3. leafSkips' = longer
  OBVIOUS
<1> HIDE DEF longer
<1>4. /\ n + 1 \in 1..(n + 1) /\ \A i \in 1..(n + 1) : i \in 1..n \/ i = n + 1
      /\ \A i \in 1..n : i \in 1..(n + 1)
  BY <1>2
<1>5. (\E i \in 1..(n + 1) : longer[i].reason \in Bounds)
        <=> ((\E i \in 1..n : leafSkips[i].reason \in Bounds) \/ skip.reason \in Bounds)
  BY <1>2, <1>4
<1>6. QED
  BY <1>1, <1>2, <1>3, <1>5 DEF Skipped

LEMMA LeafAdded ==
  ASSUME Skipped, NEW leaf \in Objects, leaves' = Append(leaves, leaf),
         UNCHANGED <<leafSkips, truncated>>
  PROVE  Skipped' /\ Len(leaves') = Len(leaves) + 1 /\ Len(leaves) \in Nat
BY LenProperties, AppendProperties DEF Skipped

LEMMA KidsStepInvariant ==
  ASSUME LeafBounded, KidsInv, LeafStep
  PROVE  KidsInv'
<1>1. tree' = tree
  BY DEF LeafStep, StartLeaves, EmitLeaf, SkipKid, StopDescent, Descend, ReturnFromNode
<1>2. /\ frames \in Seq(LeafFrame) /\ IsFiniteSet(visited) /\ visited \subseteq Objects
      /\ (leafPhase = "walking" => frames # <<>>)
  BY DEF LeafBounded
<1>3. /\ tree \in TreeShape /\ Skipped
      /\ \A i \in 1..Len(frames) : frames[i].node \in Expanded
      /\ (leafPhase = "idle" => leaves = <<>> /\ leafSkips = <<>>)
      /\ (leafPhase \in {"walking", "done"} => Accounted)
  BY DEF KidsInv
<1>4. Len(leaves) \in Nat /\ Len(leafSkips) \in Nat
  BY <1>3, LenProperties DEF Skipped
<1>5. IsFiniteSet(Expanded) /\ Cardinality(Expanded) \in Nat
  <2>1. Expanded \in SUBSET visited
    BY DEF Expanded
  <2>2. QED
    BY <1>2, <2>1, FS_Subset, FS_CardinalityType
<1>6. ASSUME NEW kid, AtKid(kid), frames' = Advanced(frames), Places' = Places, Expanded' = Expanded,
             leafPhase' = leafPhase, Skipped',
             Len(leaves') + Len(leafSkips') = Len(leaves) + Len(leafSkips) + 1
      PROVE  KidsInv'
  <2>1. /\ leafPhase = "walking" /\ Accounted
        /\ \A i \in 1..Len(Advanced(frames)) : Advanced(frames)[i].node \in Expanded
        /\ IsFiniteSet(Taken(Advanced(frames), Places))
        /\ Cardinality(Taken(Advanced(frames), Places)) = Cardinality(Taken(frames, Places)) + 1
    BY <1>6, MovingOnPassesOne
  <2>2. Accounted'
    <3>1. Taken(frames, Places)' = Taken(Advanced(frames), Places)
      BY <1>6 DEF Taken
    <3>2. Len(leaves') \in Nat /\ Len(leafSkips') \in Nat
      BY <1>6, LenProperties DEF Skipped
    <3>3. \A a, b, c, d, e, f, g \in Nat :
            g = a + b + c - 1 /\ f = g + 1 /\ d + e = a + b + 1 => f = d + e + c - 1
      OBVIOUS
    <3>4. Cardinality(Taken(frames, Places)) \in Nat
      BY <2>1, FS_CardinalityType DEF Accounted
    <3>5. QED
      BY <1>4, <1>5, <1>6, <2>1, <3>1, <3>2, <3>3, <3>4 DEF Accounted
  <2>3. QED
    BY <1>1, <1>3, <1>6, <2>1, <2>2 DEF KidsInv
<1>7. ASSUME NEW kid \in Objects, AtKid(kid), NEW reason \in LeafSkipReasons, LeafSkip(kid, reason),
             leaves' = leaves, truncated' \in Bounds \cup {Absent},
             truncated' # Absent <=> (truncated # Absent \/ reason \in Bounds)
      PROVE  Skipped' /\ Len(leaves') + Len(leafSkips') = Len(leaves) + Len(leafSkips) + 1
  <2> DEFINE skip == [kid |-> kid, parent |-> Top(frames).node, reason |-> reason]
  <2>1. Top(frames).node \in Objects
    BY <1>7, MovingOnPassesOne
  <2>2. skip \in SkipEntry /\ skip.reason = reason /\ leafSkips' = Append(leafSkips, skip)
    BY <1>7, <2>1 DEF SkipEntry, LeafSkip
  <2> HIDE DEF skip
  <2>3. Skipped' /\ Len(leafSkips') = Len(leafSkips) + 1
    BY <1>3, <1>7, <2>2, SkipAdded
  <2>4. QED
    BY <1>4, <1>7, <2>3
<1>8. CASE StartLeaves
  <2>1. /\ leafPhase = "idle" /\ leaves = <<>> /\ leafSkips = <<>>
        /\ UNCHANGED <<leaves, leafSkips, truncated>>
    BY <1>3, <1>8 DEF StartLeaves
  <2>2. Skipped'
    BY <1>3, <2>1 DEF Skipped
  <2>3. CASE Expands(Root)
    <3>1. leafPhase' = "walking" /\ frames' = <<Frame(Root)>> /\ visited' = {Root}
      BY <1>8, <2>3 DEF StartLeaves
    <3>2. Expanded' = {Root}
      BY <1>1, <2>3, <3>1 DEF Expanded, Expands, Kids
    <3>3. Len(frames') = 1 /\ frames'[1].node = Root /\ frames'[1].next = 1
      BY <3>1 DEF Frame
    <3>4. \A place \in Places' : place[1] = Root /\ place[2] \in Nat \ {0}
      <4>1. Places' = KidsOf({Root})
        BY <1>1, <3>2 DEF Places, KidsOf, Kids
      <4>2. \A k \in 1..Len(Kids(Root)) : k \in Nat \ {0}
        OBVIOUS
      <4>3. \A place \in KidsOf({Root}) : \E k \in 1..Len(Kids(Root)) : place = <<Root, k>>
        BY PlacesArePairs
      <4>4. ASSUME NEW place \in KidsOf({Root})
            PROVE  place[1] = Root /\ place[2] \in Nat \ {0}
        <5>1. PICK k \in 1..Len(Kids(Root)) : place = <<Root, k>>
          BY <4>3
        <5>2. place[1] = Root /\ place[2] = k
          BY <5>1
        <5>3. QED
          BY <4>2, <5>2
      <4>5. QED
        BY <4>1, <4>4
    <3>5. Taken(frames', Places') = {}
      BY <3>3, <3>4 DEF Taken
    <3>6. Cardinality({Root}) = 1 /\ IsFiniteSet({}) /\ Cardinality({}) = 0
      BY FS_Singleton, FS_EmptySet
    <3>7. Len(leaves') = 0 /\ Len(leafSkips') = 0
      BY <2>1
    <3>8. Accounted'
      BY <3>2, <3>5, <3>6, <3>7 DEF Accounted
    <3>9. \A i \in 1..Len(frames') : frames'[i].node \in Expanded'
      BY <3>2, <3>3
    <3>10. QED
      BY <1>1, <1>3, <2>2, <3>1, <3>8, <3>9 DEF KidsInv
  <2>4. CASE ~Expands(Root)
    <3>1. leafPhase' = "failed" /\ frames' = frames /\ visited' = visited
      BY <1>8, <2>4 DEF StartLeaves
    <3>2. Expanded' = Expanded
      BY <1>1, <3>1, PlacesKept
    <3>3. QED
      BY <1>1, <1>3, <2>2, <3>1, <3>2 DEF KidsInv
  <2>5. QED
    BY <2>3, <2>4
<1>9. CASE EmitLeaf
  <2>1. PICK kid \in Objects :
          /\ AtKid(kid) /\ leaves' = Append(leaves, kid) /\ frames' = Advanced(frames)
          /\ UNCHANGED <<leafPhase, leafSkips, visited, truncated>>
    BY <1>9 DEF EmitLeaf
  <2>2. Skipped' /\ Len(leaves') = Len(leaves) + 1
    BY <1>3, <2>1, LeafAdded
  <2>3. Places' = Places /\ Expanded' = Expanded
    BY <1>1, <2>1, PlacesKept
  <2>4. Len(leaves') + Len(leafSkips') = Len(leaves) + Len(leafSkips) + 1
    BY <1>4, <2>1, <2>2
  <2>5. QED
    BY <1>6, <2>1, <2>2, <2>3, <2>4
<1>10. CASE SkipKid
  <2>1. PICK kid \in Objects :
          /\ AtKid(kid) /\ NodeType(kid) \in {"Other", "Unresolved"} /\ LeafSkip(kid, NodeType(kid))
          /\ frames' = Advanced(frames) /\ UNCHANGED <<leafPhase, leaves, visited, truncated>>
    BY <1>10 DEF SkipKid
  <2>2. NodeType(kid) \in LeafSkipReasons /\ NodeType(kid) \notin Bounds
    BY <2>1 DEF LeafSkipReasons, Bounds
  <2>3. Skipped' /\ Len(leaves') + Len(leafSkips') = Len(leaves) + Len(leafSkips) + 1
    BY <1>3, <1>7, <2>1, <2>2 DEF Skipped
  <2>4. Places' = Places /\ Expanded' = Expanded
    BY <1>1, <2>1, PlacesKept
  <2>5. QED
    BY <1>6, <2>1, <2>3, <2>4
<1>11. CASE StopDescent
  <2>1. PICK kid \in Objects :
          /\ AtKid(kid) /\ CrossedBound(kid) # Absent /\ LeafSkip(kid, CrossedBound(kid))
          /\ truncated' = IF truncated = Absent THEN CrossedBound(kid) ELSE truncated
          /\ frames' = Advanced(frames) /\ UNCHANGED <<leafPhase, leaves, visited>>
    BY <1>11 DEF StopDescent
  <2>2. CrossedBound(kid) \in Bounds /\ CrossedBound(kid) \in LeafSkipReasons
    BY <2>1 DEF CrossedBound, Bounds, LeafSkipReasons
  <2>3. truncated' \in Bounds /\ truncated' # Absent
    BY <1>3, <2>1, <2>2, AbsentIsNoBound DEF Skipped
  <2>4. Skipped' /\ Len(leaves') + Len(leafSkips') = Len(leaves) + Len(leafSkips) + 1
    BY <1>7, <2>1, <2>2, <2>3
  <2>5. Places' = Places /\ Expanded' = Expanded
    BY <1>1, <2>1, PlacesKept
  <2>6. QED
    BY <1>6, <2>1, <2>4, <2>5
<1>12. CASE Descend
  <2>1. PICK kid \in Objects :
          /\ AtKid(kid) /\ CrossedBound(kid) = Absent /\ visited' = visited \cup {kid}
          /\ IF Expands(kid) THEN frames' = Append(Advanced(frames), Frame(kid)) /\ UNCHANGED leafSkips
             ELSE LeafSkip(kid, "NodeExpansionFailed") /\ frames' = Advanced(frames)
          /\ UNCHANGED <<leafPhase, leaves, truncated>>
    BY <1>12 DEF Descend, Enter
  <2>2. CASE ~Expands(kid)
    <3>1. /\ "NodeExpansionFailed" \in LeafSkipReasons /\ "NodeExpansionFailed" \notin Bounds
          /\ LeafSkip(kid, "NodeExpansionFailed")
      BY <2>1, <2>2 DEF LeafSkipReasons, Bounds
    <3>2. Skipped' /\ Len(leaves') + Len(leafSkips') = Len(leaves) + Len(leafSkips) + 1
      BY <1>3, <1>7, <2>1, <3>1 DEF Skipped
    <3>3. Places' = Places /\ Expanded' = Expanded
      BY <1>1, <2>1, <2>2, PlacesOfOneMore
    <3>4. QED
      BY <1>6, <2>1, <2>2, <3>2, <3>3
  <2>3. CASE Expands(kid)
    <3> DEFINE moved == Advanced(frames)
               more == {kid} \X (1..Len(Kids(kid)))
    <3>1. /\ leafPhase = "walking" /\ Accounted /\ moved \in Seq(LeafFrame)
          /\ \A i \in 1..Len(moved) : moved[i].node \in Expanded
          /\ IsFiniteSet(Taken(moved, Places))
          /\ Cardinality(Taken(moved, Places)) = Cardinality(Taken(frames, Places)) + 1
      BY <2>1, MovingOnPassesOne
    <3>2. Expanded' = Expanded \cup {kid} /\ Places' = Places \cup more
      BY <1>1, <2>1, <2>3, PlacesOfOneMore
    <3>3. frames' = Append(moved, Frame(kid))
      BY <2>1, <2>3
    <3>4. kid \notin visited
      BY <2>1, AbsentIsNoBound DEF CrossedBound, Bounds
    <3>5. kid \notin Expanded
      BY <3>4 DEF Expanded
    <3>6. Frame(kid) \in LeafFrame /\ Frame(kid).node = kid /\ Frame(kid).next = 1
      BY DEF Frame, LeafFrame
    <3>7. \A place \in Places : place[1] # kid
      BY <3>5, PlacesArePairs DEF Places
    <3>8. \A place \in more : place[1] = kid /\ place[2] \in Nat \ {0}
      OBVIOUS
    <3> HIDE DEF moved, more
    <3>9. Taken(frames', Places') = Taken(moved, Places)
      <4> DEFINE n == Len(moved)
                 longer == Append(moved, Frame(kid))
      <4>1. /\ n \in Nat /\ Len(longer) = n + 1 /\ longer[n + 1] = Frame(kid)
            /\ \A i \in 1..n : longer[i] = moved[i]
        BY <3>1, <3>6, LenProperties, AppendProperties
      <4> HIDE DEF longer
      <4>2. longer[n + 1].node = kid /\ longer[n + 1].next = 1
        BY <3>6, <4>1
      <4>3. Places \subseteq Places' /\ \A place \in Places' \ Places : place \in more
        BY <3>2
      <4>4. Taken(longer, Places') = Taken(moved, Places)
        BY <3>7, <3>8, <4>1, <4>2, <4>3, TakenOpened
      <4>5. frames' = longer
        BY <3>3 DEF longer
      <4>6. QED
        BY <4>4, <4>5
    <3>10. Taken(frames, Places)' = Taken(moved, Places)
      BY <3>2, <3>3, <3>9 DEF Taken
    <3>11. Cardinality(Expanded') = Cardinality(Expanded) + 1
      BY <1>5, <3>2, <3>5, FS_AddElement
    <3>12. leaves' = leaves /\ leafSkips' = leafSkips /\ Skipped'
      BY <1>3, <2>1, <2>3 DEF Skipped
    <3>13. Accounted'
      <4>1. \A a, b, c, g \in Nat : g = a + b + c - 1 => g + 1 = a + b + (c + 1) - 1
        OBVIOUS
      <4>2. Cardinality(Taken(frames, Places)) \in Nat
        BY <3>1, FS_CardinalityType DEF Accounted
      <4>3. QED
        BY <1>4, <1>5, <3>1, <3>10, <3>11, <3>12, <4>1, <4>2 DEF Accounted
    <3>14. \A i \in 1..Len(frames') : frames'[i].node \in Expanded'
      <4> DEFINE longer == Append(moved, Frame(kid))
                 n == Len(moved)
      <4>1. /\ n \in Nat /\ Len(longer) = n + 1 /\ longer[n + 1] = Frame(kid)
            /\ \A i \in 1..n : longer[i] = moved[i]
        BY <3>1, <3>6, LenProperties, AppendProperties
      <4>2. frames' = longer
        BY <3>3
      <4> HIDE DEF longer
      <4>3. \A i \in 1..(n + 1) : i \in 1..n \/ i = n + 1
        BY <4>1
      <4>4. QED
        BY <3>1, <3>2, <3>6, <4>1, <4>2, <4>3
    <3>15. QED
      BY <1>1, <1>3, <2>1, <3>1, <3>12, <3>13, <3>14 DEF KidsInv
  <2>4. QED
    BY <2>2, <2>3
<1>13. CASE ReturnFromNode
  <2>1. /\ leafPhase = "walking" /\ Exhausted(frames) /\ frames' = Front(frames)
        /\ leafPhase' = (IF Len(frames) = 1 THEN "done" ELSE "walking")
        /\ UNCHANGED <<leaves, leafSkips, visited, truncated>>
    BY <1>13 DEF ReturnFromNode
  <2>2. Places' = Places /\ Expanded' = Expanded
    BY <1>1, <2>1, PlacesKept
  <2>3. Skipped'
    BY <1>3, <2>1 DEF Skipped
  <2>4. /\ Front(frames) \in Seq(LeafFrame) /\ Len(frames) \in Nat \ {0}
        /\ Len(Front(frames)) = Len(frames) - 1
        /\ \A i \in 1..Len(Front(frames)) : Front(frames)[i] = frames[i]
    BY <1>2, <2>1, Popped DEF Front
  <2>5. \A place \in Places : place[1] = Top(frames).node => place[2] < Top(frames).next
    <3>1. Top(frames).node \in Expanded /\ Top(frames) \in LeafFrame
      BY <1>2, <1>3, <2>4, ElementOfSeq DEF Top
    <3>2. Kids(Top(frames).node) \in Seq(Objects)
      BY <1>2, <1>3, <3>1 DEF TreeShape, ObjectShape, Expands, Kids, Expanded
    <3>3. Len(Kids(Top(frames).node)) \in Nat /\ Top(frames).next \in Nat
      BY <3>1, <3>2, LenProperties DEF LeafFrame
    <3>4. Top(frames).next > Len(Kids(Top(frames).node))
      BY <2>1 DEF Exhausted
    <3>5. \A place \in Places : \E node \in Expanded : \E k \in 1..Len(Kids(node)) : place = <<node, k>>
      BY PlacesArePairs DEF Places
    <3>6. QED
      BY <3>3, <3>4, <3>5
  <2>6. Taken(frames, Places)' = Taken(frames, Places)
    <3>1. Taken(Front(frames), Places) = Taken(frames, Places)
      BY <1>2, <2>1, <2>5, TakenClosed
    <3>2. QED
      BY <2>1, <2>2, <3>1 DEF Taken
  <2>7. Accounted'
    BY <1>3, <2>1, <2>2, <2>6 DEF Accounted
  <2>8. \A i \in 1..Len(frames') : frames'[i].node \in Expanded'
    BY <1>3, <2>1, <2>2, <2>4
  <2>9. leafPhase' = "done" => frames' = <<>>
    BY <2>1, <2>4, EmptySeq
  <2>10. QED
    BY <1>1, <1>3, <2>1, <2>3, <2>7, <2>8, <2>9 DEF KidsInv
<1>14. QED
  BY <1>8, <1>9, <1>10, <1>11, <1>12, <1>13 DEF LeafStep

LEMMA KidsInvariant == ReadSpec => [](LeafBounded /\ BoxBounded /\ KidsInv)
<1>1. ReadInit => LeafBounded /\ BoxBounded /\ KidsInv
  <2>1. ReadInit => LeafBounded /\ BoxBounded
    BY WalksStartBounded DEF ReadInit
  <2>2. ASSUME ReadInit
        PROVE  KidsInv
    <3>1. tree \in TreeShape
      BY <2>2, PdfDocumentsAreShaped, DocumentsAreTrees DEF ReadInit
    <3>2. Skipped
      BY <2>2, AbsentIsNoBound DEF ReadInit, LeafInit, Skipped
    <3>3. QED
      BY <2>2, <3>1, <3>2 DEF ReadInit, LeafInit, KidsInv
  <2>3. QED
    BY <2>1, <2>2
<1>2. ASSUME LeafBounded, BoxBounded, KidsInv, [ReadNext]_readVars
      PROVE  LeafBounded' /\ BoxBounded' /\ KidsInv'
  <2>1. ASSUME tree' = tree, UNCHANGED leafVars
        PROVE  KidsInv'
    <3>1. Places' = Places /\ Expanded' = Expanded
      BY <2>1, PlacesKept DEF leafVars
    <3>2. Skipped'
      BY <1>2, <2>1 DEF KidsInv, Skipped, leafVars
    <3>3. Accounted => Accounted'
      BY <2>1, <3>1 DEF Accounted, Taken, leafVars
    <3>4. QED
      BY <1>2, <2>1, <3>1, <3>2, <3>3 DEF KidsInv, leafVars
  <2>2. CASE InspectPageBoxes
    <3>1. CASE EnumerateLeaves
      BY <1>2, <3>1, WalkStepsAreBounded, KidsStepInvariant DEF EnumerateLeaves
    <3>2. CASE InspectBoxes
      <4>1. tree' = tree /\ UNCHANGED leafVars
        BY <3>2 DEF InspectBoxes, BoxStep, StartBoxes, DescendBoxes, ProcessPagesNode, PassOverKid,
             ReportLeaf, RefuseLeaf, ReturnFromTargets, FinishBoxes
      <4>2. QED
        BY <1>2, <2>1, <3>2, <4>1, WalkStepsAreBounded
    <3>3. CASE Answered
      BY <1>2, <2>1, <3>3, WalkStepsAreBounded DEF Answered, vars
    <3>4. QED
      BY <2>2, <3>1, <3>2, <3>3 DEF InspectPageBoxes, Next
  <2>3. CASE OpenForAudit
    BY <1>2, <2>3, WalkStepsAreBounded, KidsStepInvariant DEF OpenForAudit, EnumerateLeaves
  <2>4. CASE AuditStep
    <3>1. UNCHANGED <<leafVars, boxVars>>
      BY <2>4 DEF AuditStep, BuildInventory, AuditPage, CheckPage, vars
    <3>2. tree' = tree
      <4>1. PdfStep => tree' = tree
        BY DEF PdfStep, LocateContent, InspectResources, InventoryPage, SkipPage, ResourceStep,
             StartResources, InspectPage, SkipResourceKid, StopResourceDescent, DescendResources,
             ReturnFromResources
      <4>2. QED
        BY <2>4, <4>1 DEF AuditStep, BuildInventory, AuditPage, CheckPage, vars
    <3>3. QED
      BY <1>2, <2>1, <3>1, <3>2, WalkStepsAreBounded
  <2>5. CASE UNCHANGED readVars
    BY <1>2, <2>1, <2>5, WalkStepsAreBounded DEF readVars, vars
  <2>6. QED
    BY <1>2, <2>2, <2>3, <2>4, <2>5 DEF ReadNext, AuditAnswered
<1>3. QED
  BY <1>1, <1>2, PTL DEF ReadSpec

(***************************************************************************)
(* The leaf walk drops no reference: in every document, when it ends, each *)
(* place in the /Kids arrays it read has become a leaf, a skip or an       *)
(* expanded node, and a truncation is reported iff a bound stopped a       *)
(* descent.                                                                *)
(***************************************************************************)
THEOREM KidsAlwaysAccounted == ReadSpec => []EveryKidAccounted
<1>1. KidsInv => EveryKidAccounted
  <2>1. ASSUME KidsInv, leafPhase = "done"
        PROVE  EveryKidAccounted
    <3>1. Taken(frames, Places) = Places
      <4>1. 1..Len(frames) = {}
        BY <2>1 DEF KidsInv
      <4>2. QED
        BY <4>1 DEF Taken
    <3>2. QED
      BY <2>1, <3>1 DEF KidsInv, Accounted, Skipped, EveryKidAccounted, Places, Expanded
  <2>2. QED
    BY <2>1 DEF EveryKidAccounted
<1>2. QED
  BY <1>1, KidsInvariant, PTL

-----------------------------------------------------------------------------
(***************************************************************************)
(* What a dictionary says of a box.                                        *)
(***************************************************************************)
LEMMA TokenTags ==
  /\ \A kind \in BoxKinds : Key(kind) \in Token /\ Key(kind).tag = "key" /\ Key(kind).kind = kind
  /\ \A box \in Rects : Value(box) \in Token /\ Value(box).tag = "value" /\ Value(box).box = box
  /\ Gap \in Token /\ Rest \in Token /\ Gap.tag = "gap" /\ Rest.tag = "rest"
  /\ \A token \in Token : token.tag = "key" => \E kind \in BoxKinds : token = Key(kind)
  /\ \A token \in Token : token.tag = "value" => token.box \in Rects \cup {Malformed}
<1>1. \A kind \in BoxKinds : Key(kind) \in Token /\ Key(kind).tag = "key" /\ Key(kind).kind = kind
  BY DEF Token, Key
<1>2. \A box \in Rects : Value(box) \in Token /\ Value(box).tag = "value" /\ Value(box).box = box
  BY DEF Token, Value
<1>3. Gap \in Token /\ Rest \in Token /\ Gap.tag = "gap" /\ Rest.tag = "rest"
  BY DEF Token, Gap, Rest
<1>4. ASSUME NEW token \in Token
      PROVE  /\ token.tag = "key" => \E kind \in BoxKinds : token = Key(kind)
             /\ token.tag = "value" => token.box \in Rects \cup {Malformed}
  <2>1. \/ \E kind \in BoxKinds : token = Key(kind)
        \/ \E box \in Rects \cup {Malformed} : token = Value(box)
        \/ token = Gap \/ token = Rest
    BY DEF Token
  <2>2. \A box : Value(box).tag = "value" /\ Value(box).box = box
    BY DEF Value
  <2>3. QED
    BY <1>1, <1>3, <2>1, <2>2
<1>5. QED
  BY <1>1, <1>2, <1>3, <1>4, Zenon

(* A box that is stated once stands behind its key.                         *)
LEMMA OwnBoxOfOne ==
  ASSUME NEW dict, NEW kind, NEW k \in KeyIndexes(dict, kind),
         \A i \in KeyIndexes(dict, kind) : i = k
  PROVE  OwnBox(dict, kind) = dict[k + 1].box
<1>1. KeyIndexes(dict, kind) # {} /\ ~ \E i, j \in KeyIndexes(dict, kind) : i # j
  OBVIOUS
<1>2. (CHOOSE i \in KeyIndexes(dict, kind) : TRUE) = k
  OBVIOUS
<1>3. QED
  BY <1>1, <1>2 DEF OwnBox

(* The owner the inspection found for a box says where a dictionary states  *)
(* it: the leaf itself, once, or else the leaf does not.                    *)
OwnedBox(dict, leaf, kind, box) ==
  \/ box.owner = leaf /\ \E k \in Nat \ {0} : KeyIndexes(dict, kind) = {k}
  \/ box.owner # leaf /\ KeyIndexes(dict, kind) = {}

-----------------------------------------------------------------------------
(***************************************************************************)
(* What the box walk knows of the boxes it carries down, while the tree it *)
(* walks is the one the call was made on: each is stated by its owner.     *)
(***************************************************************************)
StatedBoxes(t) ==
  {boxes \in Inherited :
     \A kind \in BoxKinds :
       \/ boxes[kind] = Absent
       \/ /\ boxes[kind].owner \in Objects
          /\ OwnBox(t[boxes[kind].owner].dict, kind) = boxes[kind].rect}

PageReport == [page_index : Nat, leaf : Objects, media : ResolvedBox, crop : ResolvedBox]

StatedPages(t) ==
  {page \in PageReport :
     /\ Readable(t[page.leaf].dict)
     /\ OwnedBox(t[page.leaf].dict, page.leaf, "MediaBox", page.media)
     /\ OwnedBox(t[page.leaf].dict, page.leaf, "CropBox", page.crop)}

BoxesInv ==
  /\ tree \in TreeShape
  /\ boxFrames \in Seq(BoxFrame(StatedBoxes(tree)))
  /\ page_index \in Nat
  /\ pages \in Seq(StatedPages(tree))

LEMMA OwnBoxIs ==
  ASSUME NEW dict \in Seq(Token), Readable(dict), NEW kind \in BoxKinds
  PROVE  /\ OwnBox(dict, kind) \in Rects \cup {Absent, Malformed}
         /\ OwnBox(dict, kind) = Absent => KeyIndexes(dict, kind) = {}
         /\ OwnBox(dict, kind) \in Rects => \E k \in Nat \ {0} : KeyIndexes(dict, kind) = {k}
<1> DEFINE keys == KeyIndexes(dict, kind)
<1>1. Absent \notin Rects /\ Malformed \notin Rects /\ Absent # Malformed
  BY MarksAreNoRects
<1>2. CASE keys = {}
  BY <1>1, <1>2 DEF OwnBox
<1>3. CASE \E i, j \in keys : i # j
  BY <1>1, <1>3 DEF OwnBox
<1>4. CASE keys # {} /\ ~ \E i, j \in keys : i # j
  <2>1. PICK k \in keys : \A i \in keys : i = k
    BY <1>4
  <2>2. OwnBox(dict, kind) = dict[k + 1].box
    BY <2>1, OwnBoxOfOne
  <2>3. k \in 1..Len(dict) /\ dict[k].tag = "key"
    BY <2>1, TokenTags DEF KeyIndexes
  <2>4. k + 1 \in 1..Len(dict) /\ dict[k + 1].tag = "value"
    BY <2>3, LenProperties DEF Readable
  <2>5. dict[k + 1] \in Token
    BY <2>4, ElementOfSeq
  <2>6. dict[k + 1].box \in Rects \cup {Malformed}
    BY <2>4, <2>5, TokenTags
  <2>7. k \in Nat \ {0}
    BY <2>3, LenProperties
  <2>8. keys = {k}
    BY <2>1
  <2>9. QED
    BY <1>1, <2>2, <2>6, <2>7, <2>8
<1>5. QED
  BY <1>2, <1>3, <1>4

LEMMA DictOf ==
  ASSUME tree \in TreeShape, NEW node \in Objects
  PROVE  tree[node].dict \in Seq(Token) /\ tree[node].compressed \in BOOLEAN
BY DEF TreeShape, ObjectShape

(* A node's readable boxes replace what it inherited.                       *)
LEMMA NodeStates ==
  ASSUME tree \in TreeShape, NEW node \in Objects, Expands(node),
         NEW inherited, inherited \in StatedBoxes(tree) \/ inherited = NothingInherited
  PROVE  ApplyInherited(node, inherited) \in StatedBoxes(tree)
<1> DEFINE boxes == ApplyInherited(node, inherited)
           own(kind) == OwnBox(tree[node].dict, kind)
<1>1. tree[node].dict \in Seq(Token) /\ Readable(tree[node].dict)
  BY DictOf DEF Expands
<1>2. ASSUME NEW kind \in BoxKinds
      PROVE  /\ boxes[kind] \in ResolvedBox \cup {Absent}
             /\ \/ boxes[kind] = Absent
                \/ /\ boxes[kind].owner \in Objects
                   /\ OwnBox(tree[boxes[kind].owner].dict, kind) = boxes[kind].rect
  <2>1. boxes[kind] = IF tree[node].compressed \/ own(kind) \in {Absent, Malformed}
                      THEN inherited[kind] ELSE [rect |-> own(kind), owner |-> node]
    BY DEF ApplyInherited
  <2>2. /\ inherited[kind] \in ResolvedBox \cup {Absent}
        /\ \/ inherited[kind] = Absent
           \/ /\ inherited[kind].owner \in Objects
              /\ OwnBox(tree[inherited[kind].owner].dict, kind) = inherited[kind].rect
    BY DEF StatedBoxes, Inherited, NothingInherited
  <2>3. own(kind) \in Rects \cup {Absent, Malformed}
    BY <1>1, OwnBoxIs
  <2> HIDE DEF boxes, own
  <2>4. CASE tree[node].compressed \/ own(kind) \in {Absent, Malformed}
    BY <2>1, <2>2, <2>4
  <2>5. CASE ~tree[node].compressed /\ own(kind) \in Rects /\ own(kind) \notin {Absent, Malformed}
    <3>1. boxes[kind] = [rect |-> own(kind), owner |-> node]
      BY <2>1, <2>5
    <3>2. boxes[kind] \in ResolvedBox /\ boxes[kind].owner = node /\ boxes[kind].rect = own(kind)
      BY <2>5, <3>1 DEF ResolvedBox
    <3>3. QED
      BY <3>2 DEF own
  <2>6. QED
    BY <2>3, <2>4, <2>5
<1>3. boxes = [kind \in BoxKinds |-> boxes[kind]]
  BY DEF ApplyInherited
<1> HIDE DEF boxes
<1>4. boxes \in Inherited
  BY <1>2, <1>3, Zenon DEF Inherited
<1>5. QED
  BY <1>2, <1>4 DEF StatedBoxes, boxes

(* A page is reported with the boxes its leaf states, or else inherits.     *)
LEMMA LeafStates ==
  ASSUME BoxesInv, NEW leaf \in Objects, AtBoxKid(leaf), NodeType(leaf) = "Page", LeafRefusal(leaf) = Absent
  PROVE  LET media == LeafBox(leaf, "MediaBox")
         IN  [page_index |-> page_index, leaf |-> leaf, media |-> media,
              crop |-> CropOrMedia(LeafBox(leaf, "CropBox"), media)] \in StatedPages(tree)
<1> DEFINE media == LeafBox(leaf, "MediaBox")
           crop == CropOrMedia(LeafBox(leaf, "CropBox"), media)
           dict == tree[leaf].dict
<1>1. dict \in Seq(Token) /\ Readable(dict)
  BY DictOf DEF BoxesInv, NodeType
<1>2. ~tree[leaf].compressed /\ LeafBox(leaf, "MediaBox") # Absent
      /\ \A kind \in BoxKinds : LeafBox(leaf, kind) # Malformed
  BY AbsentIsNoBox DEF LeafRefusal, BoxSkipReasons
<1>3. TopFrame.inherited \in StatedBoxes(tree)
  <2>1. boxFrames # <<>> /\ boxFrames \in Seq(BoxFrame(StatedBoxes(tree)))
    BY DEF AtBoxKid, BoxesInv
  <2>2. TopFrame \in BoxFrame(StatedBoxes(tree))
    BY <2>1, EmptySeq, ElementOfSeq DEF TopFrame
  <2>3. QED
    BY <2>2 DEF BoxFrame
<1>4. Absent \notin Objects /\ Absent \notin ResolvedBox
  BY AbsentIsNoBox
<1>5. ASSUME NEW kind \in BoxKinds
      PROVE  /\ LeafBox(leaf, kind) \in ResolvedBox \cup {Absent}
             /\ LeafBox(leaf, kind) # Absent => OwnedBox(dict, leaf, kind, LeafBox(leaf, kind))
             /\ LeafBox(leaf, kind) = Absent => KeyIndexes(dict, kind) = {}
  <2> DEFINE own == OwnBox(dict, kind)
             box == LeafBox(leaf, kind)
             passed == TopFrame.inherited[kind]
  <2>1. box = IF own = Absent THEN passed ELSE IF own = Malformed THEN Malformed
              ELSE [rect |-> own, owner |-> leaf]
    BY DEF LeafBox, Resolved
  <2>2. /\ own \in Rects \cup {Absent, Malformed}
        /\ own = Absent => KeyIndexes(dict, kind) = {}
        /\ own \in Rects => \E k \in Nat \ {0} : KeyIndexes(dict, kind) = {k}
    BY <1>1, OwnBoxIs
  <2>3. /\ passed \in ResolvedBox \cup {Absent}
        /\ passed # Absent => passed.owner \in Objects /\ OwnBox(tree[passed.owner].dict, kind) = passed.rect
    BY <1>3 DEF StatedBoxes, Inherited
  <2>4. passed # Absent => passed.rect \in Rects
    BY <2>3 DEF ResolvedBox
  <2>5. box # Malformed
    BY <1>2
  <2>6. own = Absent /\ passed # Absent => passed.owner # leaf
    BY <2>3, <2>4, MarksAreNoRects
  <2> HIDE DEF own, box, passed
  <2>7. CASE own = Absent
    BY <2>1, <2>2, <2>3, <2>6, <2>7 DEF OwnedBox, box
  <2>8. CASE own \in Rects
    <3>1. own # Absent /\ own # Malformed
      BY <2>8, MarksAreNoRects
    <3>2. box = [rect |-> own, owner |-> leaf]
      BY <2>1, <3>1
    <3>3. box \in ResolvedBox /\ box.owner = leaf
      BY <2>8, <3>2 DEF ResolvedBox
    <3>4. QED
      BY <1>4, <2>2, <2>8, <3>3 DEF OwnedBox, box
  <2>9. QED
    BY <2>1, <2>2, <2>5, <2>7, <2>8
<1>6. "MediaBox" \in BoxKinds /\ "CropBox" \in BoxKinds
  BY DEF BoxKinds
<1>7. media \in ResolvedBox /\ OwnedBox(dict, leaf, "MediaBox", media)
  BY <1>2, <1>5, <1>6
<1>8. crop \in ResolvedBox /\ OwnedBox(dict, leaf, "CropBox", crop)
  <2>1. CASE LeafBox(leaf, "CropBox") # Absent
    BY <1>5, <1>6, <2>1 DEF CropOrMedia
  <2>2. CASE LeafBox(leaf, "CropBox") = Absent
    <3> HIDE DEF media
    <3>1. crop = [rect |-> media.rect, owner |-> Absent]
      BY <2>2 DEF CropOrMedia
    <3>2. media.rect \in Rects
      BY <1>7 DEF ResolvedBox
    <3>3. crop \in ResolvedBox /\ crop.owner # leaf
      BY <1>4, <3>1, <3>2 DEF ResolvedBox
    <3>4. QED
      BY <1>5, <1>6, <2>2, <3>3 DEF OwnedBox
  <2>3. QED
    BY <2>1, <2>2
<1> HIDE DEF media, crop
<1> DEFINE page == [page_index |-> page_index, leaf |-> leaf, media |-> media, crop |-> crop]
<1>9. page \in PageReport /\ page.leaf = leaf /\ page.media = media /\ page.crop = crop
  BY <1>7, <1>8 DEF PageReport, BoxesInv
<1> HIDE DEF page
<1>10. page \in StatedPages(tree)
  BY <1>1, <1>7, <1>8, <1>9 DEF StatedPages
<1>11. QED
  BY <1>10 DEF page, media, crop

LEMMA BoxStepsState ==
  ASSUME BoxesInv, BoxStep
  PROVE  BoxesInv' /\ tree' = tree
<1> DEFINE F == BoxFrame(StatedBoxes(tree))
           P == StatedPages(tree)
<1>1. tree' = tree
  BY DEF BoxStep, StartBoxes, DescendBoxes, ProcessPagesNode, PassOverKid, ReportLeaf, RefuseLeaf,
         ReturnFromTargets, FinishBoxes
<1> SUFFICES BoxesInv'
  BY <1>1
<1>2. BoxAdvanced \in Seq(F) /\ boxFrames \in Seq(F) /\ pages \in Seq(P) /\ page_index \in Nat
  BY AdvancedBoxFrames DEF BoxesInv
<1>3. ASSUME boxFrames' \in Seq(F), pages' \in Seq(P), page_index' \in Nat
      PROVE  BoxesInv'
  BY <1>1, <1>3 DEF BoxesInv
<1>4. ASSUME NEW node \in Objects, NEW inherited, ProcessPagesNode(node, inherited),
             inherited \in StatedBoxes(tree) \/ inherited = NothingInherited
      PROVE  BoxesInv'
  <2>1. pages' = pages /\ page_index' = page_index
    BY <1>4 DEF ProcessPagesNode
  <2>2. CASE boxFrames' = BoxAdvanced
    BY <1>2, <1>3, <2>1, <2>2
  <2>3. CASE boxFrames' # BoxAdvanced
    <3> DEFINE kept == ApplyInherited(node, inherited)
               frame == [node |-> node, next |-> 1, inherited |-> kept]
    <3>1. boxFrames' = Append(BoxAdvanced, frame) /\ Expands(node)
      BY <1>4, <2>3 DEF ProcessPagesNode
    <3>2. kept \in StatedBoxes(tree)
      BY <1>4, <3>1, NodeStates DEF BoxesInv
    <3> HIDE DEF kept
    <3>3. frame \in F
      BY <3>2 DEF BoxFrame
    <3> HIDE DEF frame, F
    <3>4. Append(BoxAdvanced, frame) \in Seq(F)
      BY <1>2, <3>3, AppendProperties
    <3>5. QED
      BY <1>2, <1>3, <2>1, <3>1, <3>4 DEF F
  <2>4. QED
    BY <2>2, <2>3
<1>5. CASE StartBoxes
  BY <1>4, <1>5, RootIsObject DEF StartBoxes
<1>6. CASE DescendBoxes
  <2>1. PICK kid \in Objects : AtBoxKid(kid) /\ ProcessPagesNode(kid, TopFrame.inherited)
    BY <1>6 DEF DescendBoxes
  <2>2. TopFrame \in F
    BY <1>2, <2>1, EmptySeq, ElementOfSeq DEF TopFrame, AtBoxKid
  <2>3. TopFrame.inherited \in StatedBoxes(tree)
    BY <2>2 DEF BoxFrame
  <2>4. QED
    BY <1>4, <2>1, <2>3
<1>7. CASE PassOverKid
  BY <1>2, <1>3, <1>7 DEF PassOverKid
<1>8. CASE RefuseLeaf
  <2>1. PICK leaf \in Objects : CountLeaf(leaf) /\ boxFrames' = BoxAdvanced /\ pages' = pages
    BY <1>8 DEF RefuseLeaf
  <2>2. QED
    BY <1>2, <1>3, <2>1 DEF CountLeaf
<1>9. CASE ReportLeaf
  <2>1. PICK leaf \in Objects :
          /\ AtBoxKid(leaf) /\ NodeType(leaf) = "Page" /\ LeafRefusal(leaf) = Absent
          /\ LET media == LeafBox(leaf, "MediaBox")
             IN  pages' = Append(pages, [page_index |-> page_index, leaf |-> leaf, media |-> media,
                                         crop |-> CropOrMedia(LeafBox(leaf, "CropBox"), media)])
          /\ CountLeaf(leaf) /\ boxFrames' = BoxAdvanced
    BY <1>9 DEF ReportLeaf
  <2> DEFINE media == LeafBox(leaf, "MediaBox")
             page == [page_index |-> page_index, leaf |-> leaf, media |-> media,
                      crop |-> CropOrMedia(LeafBox(leaf, "CropBox"), media)]
  <2>2. page \in P /\ pages' = Append(pages, page)
    BY <2>1, LeafStates
  <2> HIDE DEF page, P
  <2>3. Append(pages, page) \in Seq(P)
    BY <1>2, <2>2, AppendProperties
  <2>4. page_index' \in Nat
    BY <1>2, <2>1 DEF CountLeaf
  <2>5. QED
    BY <1>2, <1>3, <2>1, <2>2, <2>3, <2>4 DEF P
<1>10. CASE ReturnFromTargets
  <2>1. boxFrames # <<>> /\ boxFrames' = Front(boxFrames) /\ pages' = pages /\ page_index' = page_index
    BY <1>10 DEF ReturnFromTargets
  <2>2. Front(boxFrames) \in Seq(F)
    BY <1>2, <2>1, Popped DEF Front
  <2>3. QED
    BY <1>2, <1>3, <2>1, <2>2
<1>11. CASE FinishBoxes
  BY <1>2, <1>3, <1>11 DEF FinishBoxes
<1>12. QED
  BY <1>1, <1>5, <1>6, <1>7, <1>8, <1>9, <1>10, <1>11 DEF BoxStep

-----------------------------------------------------------------------------
(***************************************************************************)
(* The paths of a tree, one level after the other.                         *)
(***************************************************************************)
Solves(f, br, ty, n) ==
  f = [d \in 0..n |-> IF d = 0 THEN [node \in Objects |-> <<>>]
                      ELSE PathsThrough(br, ty, f[d - 1])]

Below(br, ty) == CHOOSE f : Solves(f, br, ty, MaxDepth + 1)

LEMMA PathsExist ==
  ASSUME NEW br, NEW ty, NEW n \in Nat
  PROVE  \E f : Solves(f, br, ty, n)
<1> DEFINE Bad == {m \in Nat : ~ \E f : Solves(f, br, ty, m)}
<1> SUFFICES ASSUME Bad # {} PROVE FALSE
  OBVIOUS
<1>1. PICK m \in Bad : \A k \in Bad : m <= k
  <2>1. Bad \in SUBSET Nat
    OBVIOUS
  <2> HIDE DEF Bad
  <2>2. QED
    BY <2>1, LeastElement
<1>2. m \in Nat /\ ~ \E f : Solves(f, br, ty, m)
  OBVIOUS
<1>3. CASE m = 0
  <2> DEFINE F == [d \in 0..0 |-> [node \in Objects |-> <<>>]]
  <2>1. \A d \in 0..0 : d = 0
    OBVIOUS
  <2>2. F = [d \in 0..0 |-> IF d = 0 THEN [node \in Objects |-> <<>>]
                            ELSE PathsThrough(br, ty, F[d - 1])]
    <3> DEFINE G == [d \in 0..0 |-> IF d = 0 THEN [node \in Objects |-> <<>>]
                                    ELSE PathsThrough(br, ty, F[d - 1])]
    <3>1. \A d \in 0..0 : F[d] = G[d]
      BY <2>1
    <3>2. F = [d \in 0..0 |-> F[d]] /\ G = [d \in 0..0 |-> G[d]]
      OBVIOUS
    <3> HIDE DEF F, G
    <3>3. F = G
      BY <3>1, <3>2, Zenon
    <3>4. QED
      BY <3>3 DEF G
  <2> HIDE DEF F
  <2>3. Solves(F, br, ty, m)
    BY <1>3, <2>2 DEF Solves
  <2>4. QED
    BY <1>2, <2>3
<1>4. CASE m # 0
  <2>1. m - 1 \in Nat /\ m - 1 < m
    BY <1>2, <1>4
  <2>2. \E f : Solves(f, br, ty, m - 1)
    <3>1. m - 1 \notin Bad
      <4> HIDE DEF Bad
      <4>1. QED
        BY <1>1, <1>2, <2>1
    <3>2. QED
      BY <2>1, <3>1
  <2>3. PICK f : Solves(f, br, ty, m - 1)
    BY <2>2
  <2>4. f = [d \in 0..(m - 1) |-> IF d = 0 THEN [node \in Objects |-> <<>>]
                                  ELSE PathsThrough(br, ty, f[d - 1])]
    BY <2>3 DEF Solves
  <2> DEFINE G == [d \in 0..m |-> IF d = m THEN PathsThrough(br, ty, f[m - 1]) ELSE f[d]]
  <2>5. \A d \in 0..m : G[d] = IF d = 0 THEN [node \in Objects |-> <<>>]
                               ELSE PathsThrough(br, ty, G[d - 1])
    <3> TAKE d \in 0..m
    <3>1. CASE d = m
      <4>1. m \in 0..m /\ m - 1 \in 0..m /\ m - 1 # m
        BY <2>1
      <4>2. G[m] = PathsThrough(br, ty, f[m - 1]) /\ G[m - 1] = f[m - 1]
        BY <4>1
      <4> HIDE DEF G
      <4>3. QED
        BY <1>4, <3>1, <4>2
    <3>2. CASE d # m
      <4>1. d \in 0..(m - 1)
        BY <3>2, <2>1
      <4>2. f[d] = IF d = 0 THEN [node \in Objects |-> <<>>] ELSE PathsThrough(br, ty, f[d - 1])
        BY <2>4, <4>1
      <4>3. d # 0 => d - 1 \in 0..m /\ d - 1 # m
        BY <4>1, <2>1
      <4>4. G[d] = f[d] /\ (d # 0 => G[d - 1] = f[d - 1])
        BY <3>2, <4>3
      <4> HIDE DEF G
      <4>5. QED
        BY <4>2, <4>4
    <3>3. QED
      BY <3>1, <3>2
  <2>6. G = [d \in 0..m |-> IF d = 0 THEN [node \in Objects |-> <<>>]
                            ELSE PathsThrough(br, ty, G[d - 1])]
    <3>1. G = [d \in 0..m |-> G[d]]
      OBVIOUS
    <3> HIDE DEF G
    <3>2. QED
      BY <3>1, <2>5, Zenon
  <2> HIDE DEF G
  <2>7. Solves(G, br, ty, m)
    BY <2>6, Zenon DEF Solves
  <2>8. QED
    BY <1>2, <2>7
<1>5. QED
  BY <1>3, <1>4

LEMMA BelowSolves ==
  ASSUME NEW br, NEW ty
  PROVE  /\ PathsOf(br, ty) = Below(br, ty)[MaxDepth + 1][Root]
         /\ \A d \in 0..(MaxDepth + 1) :
              Below(br, ty)[d] = IF d = 0 THEN [node \in Objects |-> <<>>]
                                 ELSE PathsThrough(br, ty, Below(br, ty)[d - 1])
<1> DEFINE f == Below(br, ty)
<1>1. PathsOf(br, ty) = f[MaxDepth + 1][Root]
  BY Zenon DEF PathsOf, Below, Solves
<1>2. MaxDepth + 1 \in Nat
  BY BoundsAreNat
<1>3. Solves(f, br, ty, MaxDepth + 1)
  <2>1. \E g : Solves(g, br, ty, MaxDepth + 1)
    BY <1>2, PathsExist
  <2>2. QED
    BY <2>1, Zenon DEF Below
<1> HIDE DEF f
<1>4. f = [d \in 0..(MaxDepth + 1) |-> IF d = 0 THEN [node \in Objects |-> <<>>]
                                       ELSE PathsThrough(br, ty, f[d - 1])]
  BY <1>3 DEF Solves
<1>5. \A d \in 0..(MaxDepth + 1) :
        f[d] = IF d = 0 THEN [node \in Objects |-> <<>>] ELSE PathsThrough(br, ty, f[d - 1])
  BY <1>4
<1>6. QED
  BY <1>1, <1>5 DEF f

PathSeq == Seq(Seq(Objects))

LEMMA ThroughTyped ==
  ASSUME NEW node \in Objects, NEW kid \in Objects, NEW type, NEW below \in PathSeq
  PROVE  /\ Through(node, kid, type, below) \in PathSeq
         /\ type = "Page" => Through(node, kid, type, below) = << <<node, kid>> >>
         /\ type = "Pages" => Through(node, kid, type, below)
                                = [j \in 1..Len(below) |-> <<node>> \o below[j]]
         /\ type = "Pages" => /\ Len(Through(node, kid, type, below)) = Len(below)
                              /\ Len(below) \in Nat
         /\ type \notin {"Page", "Pages"} => Through(node, kid, type, below) = <<>>
<1> DEFINE paths == [j \in 1..Len(below) |-> <<node>> \o below[j]]
<1>1. Len(below) \in Nat
  BY LenProperties DEF PathSeq
<1>2. ASSUME NEW j \in 1..Len(below)
      PROVE  <<node>> \o below[j] \in Seq(Objects)
  <2>1. below[j] \in Seq(Objects) /\ <<node>> \in Seq(Objects)
    BY ElementOfSeq DEF PathSeq
  <2>2. QED
    BY <2>1, ConcatProperties
<1>3. paths \in PathSeq /\ Len(paths) = Len(below)
  <2>1. PICK n \in Nat : n = Len(below)
    BY <1>1
  <2>2. paths \in [1..n -> Seq(Objects)]
    BY <1>2, <2>1
  <2>3. paths \in PathSeq
    BY <2>2 DEF PathSeq
  <2>4. DOMAIN paths = 1..n /\ DOMAIN paths = 1..Len(paths) /\ Len(paths) \in Nat
    BY <2>2, <2>3, LenProperties DEF PathSeq
  <2>5. Len(paths) = n
    BY <2>4
  <2>6. QED
    BY <2>1, <2>3, <2>5
<1>4. << <<node, kid>> >> \in PathSeq /\ <<>> \in PathSeq
  BY DEF PathSeq
<1> HIDE DEF PathSeq
<1>5. Through(node, kid, type, below)
        = IF type = "Page" THEN << <<node, kid>> >> ELSE IF type = "Pages" THEN paths ELSE <<>>
  BY Zenon DEF Through
<1>6. "Page" # "Pages"
  OBVIOUS
<1> HIDE DEF paths
<1>7. /\ Through(node, kid, type, below) \in PathSeq
      /\ type = "Page" => Through(node, kid, type, below) = << <<node, kid>> >>
      /\ type = "Pages" => Through(node, kid, type, below) = paths
      /\ type \notin {"Page", "Pages"} => Through(node, kid, type, below) = <<>>
  BY <1>3, <1>4, <1>5, <1>6, Zenon
<1>8. QED
  BY <1>1, <1>3, <1>7, Zenon DEF paths

(* The paths through the kids up to one of them.                            *)
Each(br, ty, d, node, k) ==
  [i \in 1..k |-> Through(node, br[node][i], ty[br[node][i]],
                          Below(br, ty)[d - 1][br[node][i]])]

Passed(br, ty, d, node, k) == FlattenSeq(Each(br, ty, d, node, k))

LEMMA BelowTyped ==
  ASSUME NEW br \in [Objects -> Seq(Objects)], NEW ty, NEW d \in 0..(MaxDepth + 1),
         NEW node \in Objects
  PROVE  Below(br, ty)[d][node] \in PathSeq
<1> DEFINE f == Below(br, ty)
           Bad == {m \in 0..(MaxDepth + 1) : \E o \in Objects : f[m][o] \notin PathSeq}
<1>1. \A m \in 0..(MaxDepth + 1) :
        f[m] = IF m = 0 THEN [o \in Objects |-> <<>>] ELSE PathsThrough(br, ty, f[m - 1])
  BY BelowSolves
<1> HIDE DEF f
<1> SUFFICES ASSUME Bad # {} PROVE FALSE
  BY DEF f
<1>2. PICK m \in Bad : \A k \in Bad : m <= k
  <2>1. Bad \in SUBSET Nat
    BY BoundsAreNat
  <2> HIDE DEF Bad
  <2>2. QED
    BY <2>1, LeastElement
<1>3. m \in 0..(MaxDepth + 1)
  OBVIOUS
<1>4. PICK o \in Objects : f[m][o] \notin PathSeq
  OBVIOUS
<1>5. CASE m = 0
  <2>1. f[m][o] = <<>>
    BY <1>1, <1>3, <1>5
  <2>2. QED
    BY <1>4, <2>1 DEF PathSeq
<1>6. CASE m # 0
  <2>1. m - 1 \in 0..(MaxDepth + 1) /\ ~(m <= m - 1)
    BY <1>3, <1>6, BoundsAreNat
  <2>2. \A x \in Objects : f[m - 1][x] \in PathSeq
    <3>1. m - 1 \notin Bad
      <4> HIDE DEF Bad
      <4>1. QED
        BY <1>2, <2>1
    <3>2. QED
      BY <2>1, <3>1
  <2>3. br[o] \in Seq(Objects) /\ Len(br[o]) \in Nat
    BY LenProperties
  <2> DEFINE through(i) == Through(o, br[o][i], ty[br[o][i]], f[m - 1][br[o][i]])
             seqs == [i \in 1..Len(br[o]) |-> through(i)]
  <2>4. f[m][o] = FlattenSeq(seqs)
    BY <1>1, <1>3, <1>6 DEF PathsThrough
  <2>5. \A i \in 1..Len(br[o]) : through(i) \in PathSeq
    <3> TAKE i \in 1..Len(br[o])
    <3>1. br[o][i] \in Objects
      BY <2>3, ElementOfSeq
    <3>2. QED
      BY <2>2, <3>1, ThroughTyped
  <2> HIDE DEF through
  <2>6. FlattenSeq(seqs) \in PathSeq
    <3>1. PICK n \in Nat : n = Len(br[o])
      BY <2>3
    <3>2. seqs \in [1..n -> PathSeq]
      BY <2>5, <3>1
    <3>3. Len(seqs) = n
      <4>1. seqs \in Seq(PathSeq)
        BY <3>2
      <4>2. DOMAIN seqs = 1..n /\ DOMAIN seqs = 1..Len(seqs) /\ Len(seqs) \in Nat
        BY <3>2, <4>1, LenProperties
      <4>3. QED
        BY <4>2
    <3> HIDE DEF seqs
    <3>4. QED
      BY <3>2, <3>3, FlattenAny DEF PathSeq
  <2>7. QED
    BY <1>4, <2>4, <2>6
<1>7. QED
  BY <1>5, <1>6

IsEach(each, br, ty, d, node, k) ==
  /\ k \in Nat /\ Len(each) = k /\ each \in [1..k -> PathSeq]
  /\ \A i \in 1..k :
       each[i] = Through(node, br[node][i], ty[br[node][i]], Below(br, ty)[d - 1][br[node][i]])

LEMMA EachTyped ==
  ASSUME NEW br \in [Objects -> Seq(Objects)], NEW ty, NEW d \in 1..(MaxDepth + 1),
         NEW node \in Objects, NEW k \in 0..Len(br[node])
  PROVE  IsEach(Each(br, ty, d, node, k), br, ty, d, node, k)
<1> DEFINE through(i) == Through(node, br[node][i], ty[br[node][i]],
                                 Below(br, ty)[d - 1][br[node][i]])
           each == [i \in 1..k |-> through(i)]
<1>1. br[node] \in Seq(Objects) /\ Len(br[node]) \in Nat /\ d - 1 \in 0..(MaxDepth + 1) /\ k \in Nat
  BY LenProperties, BoundsAreNat
<1>2. ASSUME NEW i \in 1..k
      PROVE  through(i) \in PathSeq
  <2>1. i \in 1..Len(br[node])
    BY <1>1
  <2>2. br[node][i] \in Objects
    BY <1>1, <2>1, ElementOfSeq
  <2>3. Below(br, ty)[d - 1][br[node][i]] \in PathSeq
    BY <1>1, <2>2, BelowTyped
  <2>4. QED
    BY <2>2, <2>3, ThroughTyped
<1> HIDE DEF through
<1>3. each \in [1..k -> PathSeq] /\ \A i \in 1..k : each[i] = through(i)
  BY <1>2
<1>4. Len(each) = k
  <2>1. each \in Seq(PathSeq)
    BY <1>1, <1>3
  <2>2. DOMAIN each = 1..k /\ DOMAIN each = 1..Len(each) /\ Len(each) \in Nat
    BY <1>3, <2>1, LenProperties
  <2>3. QED
    BY <1>1, <2>2
<1> HIDE DEF each
<1>5. Each(br, ty, d, node, k) = each
  BY Zenon DEF Each, each, through
<1>6. QED
  BY <1>1, <1>3, <1>4, <1>5, Zenon DEF through, IsEach

LEMMA PassedFacts ==
  ASSUME NEW br \in [Objects -> Seq(Objects)], NEW ty, NEW d \in 1..(MaxDepth + 1),
         NEW node \in Objects, NEW k \in 0..Len(br[node])
  PROVE  /\ Passed(br, ty, d, node, k) \in PathSeq
         /\ k = 0 => Passed(br, ty, d, node, k) = <<>>
         /\ k = Len(br[node]) => Passed(br, ty, d, node, k) = Below(br, ty)[d][node]
<1> DEFINE each == Each(br, ty, d, node, k)
<1>1. k \in Nat /\ Len(each) = k /\ each \in [1..k -> PathSeq]
  BY EachTyped DEF IsEach
<1>2. Passed(br, ty, d, node, k) = FlattenSeq(each)
  BY DEF Passed
<1> HIDE DEF each
<1>3. FlattenSeq(each) \in PathSeq
      /\ (FlattenSeq(each) = <<>> <=> \A i \in 1..k : each[i] = <<>>)
  BY <1>1, FlattenAny DEF PathSeq
<1>4. k = 0 => \A i \in 1..k : FALSE
  BY <1>1
<1>5. k = Len(br[node]) => Passed(br, ty, d, node, k) = Below(br, ty)[d][node]
  <2>1. SUFFICES ASSUME k = Len(br[node])
                 PROVE  Passed(br, ty, d, node, k) = Below(br, ty)[d][node]
    OBVIOUS
  <2>2. d \in 0..(MaxDepth + 1) /\ d # 0
    BY BoundsAreNat
  <2>3. Below(br, ty)[d] = PathsThrough(br, ty, Below(br, ty)[d - 1])
    <3> DEFINE f == Below(br, ty)
    <3>1. \A m \in 0..(MaxDepth + 1) :
            f[m] = IF m = 0 THEN [o \in Objects |-> <<>>] ELSE PathsThrough(br, ty, f[m - 1])
      BY BelowSolves
    <3> HIDE DEF f
    <3>2. f[d] = PathsThrough(br, ty, f[d - 1])
      BY <2>2, <3>1, Zenon
    <3>3. QED
      BY <3>2, Zenon DEF f
  <2>4. Below(br, ty)[d][node] = FlattenSeq(Each(br, ty, d, node, Len(br[node])))
    <3> DEFINE below == Below(br, ty)[d - 1]
               through == FlattenSeq([i \in 1..Len(br[node]) |->
                            Through(node, br[node][i], ty[br[node][i]], below[br[node][i]])])
    <3> HIDE DEF below
    <3>1. PathsThrough(br, ty, below)[node] = through
      BY DEF PathsThrough
    <3> HIDE DEF through
    <3>2. Below(br, ty)[d][node] = through
      BY <2>3, <3>1, Zenon DEF below
    <3>3. through = FlattenSeq(Each(br, ty, d, node, Len(br[node])))
      BY Zenon DEF through, Each, below
    <3>4. QED
      BY <3>2, <3>3, Zenon
  <2>5. QED
    BY <2>1, <2>4 DEF Passed
<1>6. QED
  BY <1>2, <1>3, <1>4, <1>5

LEMMA PassedGrows ==
  ASSUME NEW br \in [Objects -> Seq(Objects)], NEW ty, NEW d \in 1..(MaxDepth + 1),
         NEW node \in Objects, NEW k \in Nat, NEW l \in 1..Len(br[node]), l = k + 1
  PROVE  Passed(br, ty, d, node, l)
           = Passed(br, ty, d, node, k)
               \o Through(node, br[node][l], ty[br[node][l]], Below(br, ty)[d - 1][br[node][l]])
<1> DEFINE less == Each(br, ty, d, node, k)
           more == Each(br, ty, d, node, l)
<1>1. Len(br[node]) \in Nat
  BY LenProperties
<1>2. k \in 0..Len(br[node]) /\ l \in 0..Len(br[node]) /\ l \in Nat /\ l \in 1..l
  BY <1>1
<1> HIDE DEF less, more
<1>3. IsEach(less, br, ty, d, node, k)
  BY <1>2, EachTyped DEF less
<1>4. IsEach(more, br, ty, d, node, l)
  BY <1>2, EachTyped DEF more
<1>5. \A i \in 1..k : i \in 1..l
  BY <1>2
<1>6. \A i \in 1..k : more[i] = less[i]
  BY <1>3, <1>4, <1>5, Zenon DEF IsEach
<1>7. Lengthened(Seq(Objects), k, less, l, more)
  BY <1>2, <1>3, <1>4, <1>6 DEF Lengthened, PathSeq, IsEach
<1>8. FlattenSeq(more) = FlattenSeq(less) \o more[l]
  BY <1>7, FlattenGrows
<1>9. QED
  BY <1>2, <1>4, <1>8, Zenon DEF Passed, less, more, IsEach

-----------------------------------------------------------------------------
(***************************************************************************)
(* A walk as the paths it has passed: trail holds them in order; those     *)
(* through the i-th open call start behind marks[i], and lead through the  *)
(* kids this call has done with.                                           *)
(***************************************************************************)
Behind(s, i) == s[i].next - (IF i = Len(s) THEN 1 ELSE 2)

Under(s, i, path) ==
  [k \in 1..(i + Len(path)) |-> IF k <= i THEN s[k].node ELSE path[k - i]]

Holds(trail, from, to, s, i, done) ==
  /\ from \in Nat /\ to = from + Len(done) /\ to <= Len(trail)
  /\ \A j \in 1..Len(done) : trail[from + j] = Under(s, i - 1, done[j])

DoneWith(br, ty, s, i) == Passed(br, ty, MaxDepth + 2 - i, s[i].node, Behind(s, i))

Open(br, ty, s, i) ==
  /\ s[i].node \in Objects /\ s[i].next \in Nat \ {0}
  /\ Behind(s, i) \in 0..Len(br[s[i].node])
  /\ i # Len(s) => /\ s[i].next - 1 \in 1..Len(br[s[i].node])
                   /\ br[s[i].node][s[i].next - 1] = s[i + 1].node
                   /\ ty[s[i + 1].node] = "Pages"

Walked(br, ty, s, marks, trail) ==
  /\ trail \in PathSeq /\ Len(s) \in 0..(MaxDepth + 1)
  /\ Len(s) # 0 => s[1].node = Root /\ marks[1] = 0
  /\ \A i \in 1..Len(s) :
       /\ Open(br, ty, s, i)
       /\ Holds(trail, marks[i], IF i = Len(s) THEN Len(trail) ELSE marks[i + 1], s, i,
                DoneWith(br, ty, s, i))

Extends(trail, more) ==
  /\ trail \in PathSeq /\ more \in PathSeq /\ Len(trail) <= Len(more)
  /\ \A j \in 1..Len(trail) : more[j] = trail[j]

SameNodes(s, t, i) == \A k \in 1..i : t[k].node = s[k].node

LEMMA SameUnder ==
  ASSUME NEW s, NEW t, NEW i, NEW path, SameNodes(s, t, i)
  PROVE  Under(t, i, path) = Under(s, i, path)
<1> DEFINE at(k) == IF k <= i THEN s[k].node ELSE path[k - i]
           to(k) == IF k <= i THEN t[k].node ELSE path[k - i]
           S == 1..(i + Len(path))
<1>1. \A k \in S : to(k) = at(k)
  BY DEF SameNodes
<1> HIDE DEF at, to
<1>2. [k \in S |-> to(k)] = [k \in S |-> at(k)]
  BY <1>1, Zenon
<1>3. QED
  BY <1>2, Zenon DEF Under, at, to

LEMMA HoldsKept ==
  ASSUME NEW trail, NEW more, Extends(trail, more), NEW from, NEW to, NEW s, NEW t, NEW i,
         NEW done, done \in PathSeq, SameNodes(s, t, i - 1), Holds(trail, from, to, s, i, done)
  PROVE  Holds(more, from, to, t, i, done)
<1>1. /\ Len(trail) \in Nat /\ Len(more) \in Nat /\ Len(trail) <= Len(more)
      /\ Len(done) \in Nat /\ \A j \in 1..Len(trail) : more[j] = trail[j]
  BY LenProperties DEF Extends, PathSeq
<1>2. /\ from \in Nat /\ to = from + Len(done) /\ to <= Len(trail)
      /\ \A j \in 1..Len(done) : trail[from + j] = Under(s, i - 1, done[j])
  BY DEF Holds
<1>3. to <= Len(more)
  BY <1>1, <1>2
<1>4. ASSUME NEW j \in 1..Len(done)
      PROVE  more[from + j] = Under(t, i - 1, done[j])
  <2>1. from + j \in 1..Len(trail)
    BY <1>1, <1>2
  <2>2. Under(t, i - 1, done[j]) = Under(s, i - 1, done[j])
    BY SameUnder
  <2>3. QED
    BY <1>1, <1>2, <2>1, <2>2
<1>5. QED
  BY <1>2, <1>3, <1>4 DEF Holds

LEMMA HoldsMore ==
  ASSUME NEW trail, NEW from, NEW mid, NEW to, NEW s, NEW i, NEW done \in PathSeq,
         NEW more \in PathSeq, Holds(trail, from, mid, s, i, done),
         Holds(trail, mid, to, s, i, more)
  PROVE  Holds(trail, from, to, s, i, done \o more)
<1> DEFINE both == done \o more
<1>1. /\ both \in PathSeq /\ Len(both) = Len(done) + Len(more)
      /\ Len(done) \in Nat /\ Len(more) \in Nat
      /\ \A j \in 1..(Len(done) + Len(more)) :
           both[j] = IF j <= Len(done) THEN done[j] ELSE more[j - Len(done)]
  BY LenProperties, ConcatProperties DEF PathSeq
<1> HIDE DEF both
<1>2. /\ from \in Nat /\ mid = from + Len(done)
      /\ \A j \in 1..Len(done) : trail[from + j] = Under(s, i - 1, done[j])
      /\ mid \in Nat /\ to = mid + Len(more) /\ to <= Len(trail)
      /\ \A j \in 1..Len(more) : trail[mid + j] = Under(s, i - 1, more[j])
  BY DEF Holds
<1>3. to = from + Len(both)
  BY <1>1, <1>2
<1>4. ASSUME NEW j \in 1..Len(both)
      PROVE  trail[from + j] = Under(s, i - 1, both[j])
  <2>1. CASE j <= Len(done)
    <3>1. j \in 1..Len(done) /\ both[j] = done[j]
      BY <1>1, <2>1
    <3>2. QED
      BY <1>2, <3>1
  <2>2. CASE ~(j <= Len(done))
    <3>1. j - Len(done) \in 1..Len(more) /\ both[j] = more[j - Len(done)]
          /\ from + j = mid + (j - Len(done))
      BY <1>1, <1>2, <2>2
    <3>2. QED
      BY <1>2, <3>1
  <2>3. QED
    BY <2>1, <2>2
<1>5. QED
  BY <1>2, <1>3, <1>4 DEF Holds, both

LEMMA HoldsNothing ==
  ASSUME NEW trail \in PathSeq, NEW from \in 0..Len(trail), NEW s, NEW i
  PROVE  Holds(trail, from, from, s, i, <<>>)
<1>1. Len(<<>>) = 0 /\ Len(trail) \in Nat
  BY LenProperties DEF PathSeq
<1>2. QED
  BY <1>1 DEF Holds

(* The paths below the top call are paths through it.                       *)
LEMMA HoldsAbove ==
  ASSUME NEW trail, NEW from, NEW to, NEW s, NEW i \in Nat \ {0}, NEW l, l = i + 1,
         NEW below \in PathSeq, s[i].node \in Objects, Holds(trail, from, to, s, l, below),
         NEW longer, longer = [j \in 1..Len(below) |-> <<s[i].node>> \o below[j]],
         Len(longer) = Len(below)
  PROVE  Holds(trail, from, to, s, i, longer)
<1>1. /\ from \in Nat /\ to = from + Len(below) /\ to <= Len(trail)
      /\ \A j \in 1..Len(below) : trail[from + j] = Under(s, i, below[j])
  BY DEF Holds
<1>2. ASSUME NEW j \in 1..Len(below)
      PROVE  Under(s, i - 1, longer[j]) = Under(s, i, below[j])
  <2> DEFINE p == below[j]
             q == <<s[i].node>> \o p
  <2>1. p \in Seq(Objects) /\ Len(p) \in Nat
    BY ElementOfSeq, LenProperties DEF PathSeq
  <2>2. longer[j] = q
    OBVIOUS
  <2> HIDE DEF p
  <2>3. PICK one \in Seq(Objects) : one = <<s[i].node>> /\ Len(one) = 1 /\ one[1] = s[i].node
    <3>1. <<s[i].node>> \in Seq(Objects) /\ Len(<<s[i].node>>) = 1
      OBVIOUS
    <3>2. QED
      BY <3>1
  <2>4. /\ Len(one \o p) = Len(one) + Len(p)
        /\ \A k \in 1..(Len(one) + Len(p)) :
             (one \o p)[k] = IF k <= Len(one) THEN one[k] ELSE p[k - Len(one)]
    BY <2>1, <2>3, ConcatProperties
  <2>5. q = one \o p
    BY <2>3
  <2> HIDE DEF q
  <2>6. /\ Len(q) = 1 + Len(p) /\ q[1] = s[i].node
        /\ \A k \in 1..(1 + Len(p)) : k # 1 => q[k] = p[k - 1]
    BY <2>1, <2>3, <2>4, <2>5
  <2> DEFINE at(k) == IF k <= i THEN s[k].node ELSE p[k - i]
             to2(k) == IF k <= i - 1 THEN s[k].node ELSE q[k - (i - 1)]
  <2>7. i - 1 + Len(q) = i + Len(p)
    BY <2>1, <2>6
  <2>8. \A k \in 1..(i + Len(p)) : to2(k) = at(k)
    <3> TAKE k \in 1..(i + Len(p))
    <3>1. CASE k <= i - 1
      BY <3>1
    <3>2. CASE k = i
      <4>1. k - (i - 1) = 1 /\ ~(k <= i - 1)
        BY <3>2
      <4>2. QED
        BY <2>6, <3>2, <4>1
    <3>3. CASE k > i
      <4>1. k - (i - 1) \in 1..(1 + Len(p)) /\ k - (i - 1) # 1 /\ (k - (i - 1)) - 1 = k - i
            /\ ~(k <= i - 1) /\ ~(k <= i)
        BY <2>1, <3>3
      <4>2. q[k - (i - 1)] = p[k - i]
        BY <2>6, <4>1
      <4>3. QED
        BY <4>1, <4>2
    <3>4. QED
      BY <2>1, <3>1, <3>2, <3>3
  <2>9. [k \in 1..(i + Len(p)) |-> to2(k)] = [k \in 1..(i + Len(p)) |-> at(k)]
    <3> HIDE DEF to2, at
    <3>1. QED
      BY <2>8, Zenon
  <2>10. Under(s, i - 1, q) = Under(s, i, p)
    BY <2>7, <2>9, Zenon DEF Under, to2, at
  <2>11. QED
    BY <2>2, <2>10, Zenon DEF q, p
<1>3. QED
  BY <1>1, <1>2 DEF Holds

(* The calls as the walk goes on: past a kid, into it, and back.            *)
Moved(s, t) ==
  /\ Len(s) \in Nat \ {0} /\ Len(t) = Len(s) /\ SameNodes(s, t, Len(s))
  /\ \A i \in 1..Len(s) : t[i].next = IF i = Len(s) THEN s[i].next + 1 ELSE s[i].next

Opened(s, t, kid) ==
  /\ Len(s) \in Nat \ {0} /\ Len(t) = Len(s) + 1 /\ SameNodes(s, t, Len(s))
  /\ \A i \in 1..Len(s) : t[i].next = IF i = Len(s) THEN s[i].next + 1 ELSE s[i].next
  /\ t[Len(s) + 1].node = kid /\ t[Len(s) + 1].next = 1

Closed(s, t) ==
  /\ Len(s) \in Nat \ {0} /\ Len(t) = Len(s) - 1 /\ SameNodes(s, t, Len(t))
  /\ \A i \in 1..Len(t) : t[i].next = s[i].next

(* The kid the top call is at, and the paths that lead through it.          *)
KidAt(br, s) == br[s[Len(s)].node][s[Len(s)].next]

ThroughKid(br, ty, s) ==
  Through(s[Len(s)].node, KidAt(br, s), ty[KidAt(br, s)],
          Below(br, ty)[(MaxDepth + 2 - Len(s)) - 1][KidAt(br, s)])

HasKid(br, s) == s[Len(s)].next \in 1..Len(br[s[Len(s)].node])

AtOpen(br, ty, s, marks, trail, i) ==
  /\ Len(s) \in Nat /\ Len(trail) \in Nat /\ trail \in PathSeq
  /\ MaxDepth + 2 - i \in 1..(MaxDepth + 1)
  /\ s[i].node \in Objects /\ s[i].next \in Nat \ {0} /\ Len(br[s[i].node]) \in Nat
  /\ Behind(s, i) \in 0..Len(br[s[i].node])
  /\ DoneWith(br, ty, s, i) \in PathSeq
  /\ Holds(trail, marks[i], IF i = Len(s) THEN Len(trail) ELSE marks[i + 1], s, i,
           DoneWith(br, ty, s, i))
  /\ i # Len(s) => /\ s[i].next - 1 \in 1..Len(br[s[i].node])
                   /\ br[s[i].node][s[i].next - 1] = s[i + 1].node
                   /\ ty[s[i + 1].node] = "Pages"

LEMMA OpenFacts ==
  ASSUME NEW br \in [Objects -> Seq(Objects)], NEW ty, NEW s, NEW marks, NEW trail,
         Walked(br, ty, s, marks, trail), NEW i \in 1..Len(s)
  PROVE  AtOpen(br, ty, s, marks, trail, i)
<1>1. Len(s) \in 0..(MaxDepth + 1) /\ Len(s) \in Nat /\ trail \in PathSeq /\ Len(trail) \in Nat
  BY LenProperties, BoundsAreNat DEF Walked, PathSeq
<1>2. MaxDepth + 2 - i \in 1..(MaxDepth + 1)
  BY <1>1, BoundsAreNat
<1>3. /\ Open(br, ty, s, i)
      /\ Holds(trail, marks[i], IF i = Len(s) THEN Len(trail) ELSE marks[i + 1], s, i,
               DoneWith(br, ty, s, i))
  BY DEF Walked
<1>4. s[i].node \in Objects /\ s[i].next \in Nat \ {0} /\ Behind(s, i) \in 0..Len(br[s[i].node])
      /\ (i # Len(s) => /\ s[i].next - 1 \in 1..Len(br[s[i].node])
                        /\ br[s[i].node][s[i].next - 1] = s[i + 1].node
                        /\ ty[s[i + 1].node] = "Pages")
  BY <1>3 DEF Open
<1>5. Len(br[s[i].node]) \in Nat
  BY <1>4, LenProperties
<1>6. DoneWith(br, ty, s, i) \in PathSeq
  BY <1>2, <1>4, PassedFacts DEF DoneWith
<1>7. QED
  BY <1>1, <1>2, <1>3, <1>4, <1>5, <1>6, Zenon DEF AtOpen

(* A call further down is as it was.                                        *)
LEMMA LowerKept ==
  ASSUME NEW br \in [Objects -> Seq(Objects)], NEW ty, NEW s, NEW t, NEW marks, NEW ends,
         NEW trail, NEW more, Walked(br, ty, s, marks, trail), Extends(trail, more),
         NEW i \in 1..Len(s), i # Len(s), i \in 1..Len(t), i # Len(t),
         SameNodes(s, t, i + 1), t[i].next = s[i].next,
         ends[i] = marks[i], ends[i + 1] = marks[i + 1]
  PROVE  /\ Open(br, ty, t, i)
         /\ Holds(more, ends[i], IF i = Len(t) THEN Len(more) ELSE ends[i + 1], t, i,
                  DoneWith(br, ty, t, i))
<1>1. /\ s[i].node \in Objects /\ s[i].next \in Nat \ {0}
      /\ Behind(s, i) \in 0..Len(br[s[i].node])
      /\ DoneWith(br, ty, s, i) \in PathSeq
      /\ Holds(trail, marks[i], IF i = Len(s) THEN Len(trail) ELSE marks[i + 1], s, i,
               DoneWith(br, ty, s, i))
      /\ s[i].next - 1 \in 1..Len(br[s[i].node])
      /\ br[s[i].node][s[i].next - 1] = s[i + 1].node
      /\ ty[s[i + 1].node] = "Pages"
  <2>1. AtOpen(br, ty, s, marks, trail, i)
    BY OpenFacts
  <2>2. QED
    BY <2>1 DEF AtOpen
<1>2. Behind(t, i) = Behind(s, i)
  BY DEF Behind
<1>3. i \in 1..(i + 1) /\ i + 1 \in 1..(i + 1) /\ \A k \in 1..(i - 1) : k \in 1..(i + 1)
  OBVIOUS
<1>4. t[i].node = s[i].node /\ t[i + 1].node = s[i + 1].node /\ SameNodes(s, t, i - 1)
  BY <1>3 DEF SameNodes
<1>5. DoneWith(br, ty, t, i) = DoneWith(br, ty, s, i)
  BY <1>2, <1>4 DEF DoneWith
<1>6. Open(br, ty, t, i)
  BY <1>1, <1>2, <1>4 DEF Open
<1>7. Holds(trail, marks[i], marks[i + 1], s, i, DoneWith(br, ty, s, i))
  BY <1>1
<1>8. Holds(more, marks[i], marks[i + 1], t, i, DoneWith(br, ty, s, i))
  BY <1>1, <1>4, <1>7, HoldsKept
<1>9. QED
  BY <1>5, <1>6, <1>8

(* Past a kid: what leads through it is added.                              *)
LEMMA WalkMovesOn ==
  ASSUME NEW br \in [Objects -> Seq(Objects)], NEW ty, NEW s, NEW t, NEW marks,
         NEW trail, NEW more, Walked(br, ty, s, marks, trail), Moved(s, t), HasKid(br, s),
         Extends(trail, more),
         Holds(more, Len(trail), Len(more), s, Len(s), ThroughKid(br, ty, s))
  PROVE  Walked(br, ty, t, marks, more)
<1> DEFINE n == Len(s)
<1>1. /\ n \in Nat \ {0} /\ Len(t) = n /\ SameNodes(s, t, n)
      /\ \A i \in 1..n : t[i].next = IF i = n THEN s[i].next + 1 ELSE s[i].next
  BY DEF Moved
<1>2. n \in 1..n /\ n \in 0..(MaxDepth + 1) /\ more \in PathSeq /\ Len(more) \in Nat
      /\ s[1].node = Root /\ marks[1] = 0 /\ 1 \in 1..n
  BY <1>1, LenProperties DEF Walked, Extends, PathSeq
<1>3. /\ Len(trail) \in Nat /\ trail \in PathSeq
      /\ MaxDepth + 2 - n \in 1..(MaxDepth + 1)
      /\ s[n].node \in Objects /\ s[n].next \in Nat \ {0} /\ Len(br[s[n].node]) \in Nat
      /\ Behind(s, n) \in 0..Len(br[s[n].node]) /\ DoneWith(br, ty, s, n) \in PathSeq
      /\ Holds(trail, marks[n], IF n = Len(s) THEN Len(trail) ELSE marks[n + 1], s, n,
               DoneWith(br, ty, s, n))
  <2>1. AtOpen(br, ty, s, marks, trail, n)
    BY <1>2, OpenFacts
  <2>2. QED
    BY <2>1 DEF AtOpen
<1>4. Behind(s, n) \in Nat /\ s[n].next = Behind(s, n) + 1 /\ Behind(t, n) = s[n].next
      /\ s[n].next \in 1..Len(br[s[n].node]) /\ t[n].node = s[n].node /\ t[n].next = s[n].next + 1
  <2>1. t[n].node = s[n].node /\ t[n].next = s[n].next + 1
    BY <1>1, <1>2 DEF SameNodes
  <2>2. s[n].next \in 1..Len(br[s[n].node])
    BY DEF HasKid
  <2>3. Behind(s, n) = s[n].next - 1 /\ Behind(t, n) = t[n].next - 1
    BY <1>1 DEF Behind
  <2>4. QED
    BY <1>3, <2>1, <2>2, <2>3
<1>5. KidAt(br, s) \in Objects
  BY <1>3, <1>4, ElementOfSeq DEF KidAt
<1>6. ThroughKid(br, ty, s) \in PathSeq
  <2>1. (MaxDepth + 2 - n) - 1 \in 0..(MaxDepth + 1)
    BY <1>3, BoundsAreNat
  <2>2. Below(br, ty)[(MaxDepth + 2 - n) - 1][KidAt(br, s)] \in PathSeq
    BY <1>5, <2>1, BelowTyped
  <2>3. QED
    BY <1>3, <1>5, <2>2, ThroughTyped DEF ThroughKid
<1>7. DoneWith(br, ty, t, n) = DoneWith(br, ty, s, n) \o ThroughKid(br, ty, s)
  <2> DEFINE d == MaxDepth + 2 - n
             node == s[n].node
             l == s[n].next
  <2>1. d \in 1..(MaxDepth + 1) /\ node \in Objects /\ l \in 1..Len(br[node])
        /\ Behind(s, n) \in Nat /\ l = Behind(s, n) + 1
    BY <1>3, <1>4
  <2>2. Passed(br, ty, d, node, l)
          = Passed(br, ty, d, node, Behind(s, n))
              \o Through(node, br[node][l], ty[br[node][l]], Below(br, ty)[d - 1][br[node][l]])
    <3> HIDE DEF d, node, l
    <3>1. QED
      BY <2>1, PassedGrows
  <2>3. QED
    BY <1>4, <2>2, Zenon DEF DoneWith, ThroughKid, KidAt
<1>8. Holds(more, marks[n], Len(trail), t, n, DoneWith(br, ty, s, n))
      /\ Holds(more, Len(trail), Len(more), t, n, ThroughKid(br, ty, s))
  <2>1. SameNodes(s, t, n - 1)
    BY <1>1 DEF SameNodes
  <2>2. Holds(trail, marks[n], Len(trail), s, n, DoneWith(br, ty, s, n))
    BY <1>3
  <2>3. Holds(more, marks[n], Len(trail), t, n, DoneWith(br, ty, s, n))
    BY <1>3, <2>1, <2>2, HoldsKept
  <2>4. Extends(more, more)
    BY <1>2 DEF Extends
  <2>5. Holds(more, Len(trail), Len(more), t, n, ThroughKid(br, ty, s))
    BY <1>6, <2>1, <2>4, HoldsKept
  <2>6. QED
    BY <2>3, <2>5
<1>9. Open(br, ty, t, n)
      /\ Holds(more, marks[n], IF n = Len(t) THEN Len(more) ELSE marks[n + 1], t, n, DoneWith(br, ty, t, n))
  <2>1. Holds(more, marks[n], Len(more), t, n, DoneWith(br, ty, s, n) \o ThroughKid(br, ty, s))
    BY <1>3, <1>6, <1>8, HoldsMore
  <2>2. Open(br, ty, t, n)
    BY <1>1, <1>3, <1>4 DEF Open
  <2>3. QED
    BY <1>1, <1>7, <2>1, <2>2
<1>10. ASSUME NEW i \in 1..n, i # n
       PROVE  /\ Open(br, ty, t, i)
              /\ Holds(more, marks[i], IF i = Len(t) THEN Len(more) ELSE marks[i + 1], t, i,
                       DoneWith(br, ty, t, i))
  <2>1. i \in 1..Len(t) /\ i # Len(t) /\ \A k \in 1..(i + 1) : k \in 1..n
    BY <1>1, <1>10
  <2>2. SameNodes(s, t, i + 1)
    BY <1>1, <2>1 DEF SameNodes
  <2>3. t[i].next = s[i].next
    BY <1>1, <1>10
  <2>4. QED
    BY <1>10, <2>1, <2>2, <2>3, LowerKept
<1>11. t[1].node = Root
  BY <1>1, <1>2 DEF SameNodes
<1>12. QED
  BY <1>1, <1>2, <1>9, <1>10, <1>11 DEF Walked

LEMMA WalkStarts ==
  ASSUME NEW br \in [Objects -> Seq(Objects)], NEW ty, NEW s, NEW marks,
         Len(s) = 1, s[1].node = Root, s[1].next = 1, marks[1] = 0
  PROVE  Walked(br, ty, s, marks, <<>>)
<1>1. \A i \in 1..1 : i = 1
  OBVIOUS
<1>2. Behind(s, 1) = 0 /\ Len(br[Root]) \in Nat
  BY RootIsObject, LenProperties DEF Behind
<1>3. MaxDepth + 2 - 1 \in 1..(MaxDepth + 1) /\ 0 \in 0..Len(br[Root]) /\ Len(s) \in 0..(MaxDepth + 1)
  BY <1>2, BoundsAreNat
<1>4. DoneWith(br, ty, s, 1) = <<>>
  <2>1. Passed(br, ty, MaxDepth + 2 - 1, Root, 0) = <<>>
    BY <1>3, RootIsObject, PassedFacts
  <2>2. QED
    BY <1>2, <2>1 DEF DoneWith
<1>5. <<>> \in PathSeq /\ Len(<<>>) = 0
  BY DEF PathSeq
<1>6. Holds(<<>>, 0, 0, s, 1, <<>>)
  BY <1>5, HoldsNothing
<1>7. Open(br, ty, s, 1)
  BY <1>2, <1>3, RootIsObject DEF Open
<1>8. Holds(<<>>, marks[1], IF 1 = Len(s) THEN Len(<<>>) ELSE marks[1 + 1], s, 1, DoneWith(br, ty, s, 1))
  BY <1>4, <1>5, <1>6
<1>9. QED
  BY <1>1, <1>3, <1>5, <1>7, <1>8 DEF Walked

LEMMA ExtendsItself ==
  ASSUME NEW trail \in PathSeq
  PROVE  Extends(trail, trail) /\ Len(trail) \in Nat
BY LenProperties DEF Extends, PathSeq

(* Into a kid.                                                              *)
LEMMA WalkOpens ==
  ASSUME NEW br \in [Objects -> Seq(Objects)], NEW ty, NEW s, NEW t, NEW marks, NEW ends,
         NEW trail, Walked(br, ty, s, marks, trail), HasKid(br, s),
         Opened(s, t, KidAt(br, s)), ty[KidAt(br, s)] = "Pages", Len(s) <= MaxDepth,
         ends[Len(s) + 1] = Len(trail), \A i \in 1..Len(s) : ends[i] = marks[i]
  PROVE  Walked(br, ty, t, ends, trail)
<1> DEFINE n == Len(s)
           kid == KidAt(br, s)
<1>1. /\ n \in Nat \ {0} /\ Len(t) = n + 1 /\ SameNodes(s, t, n)
      /\ \A i \in 1..n : t[i].next = IF i = n THEN s[i].next + 1 ELSE s[i].next
      /\ t[n + 1].node = kid /\ t[n + 1].next = 1
  BY DEF Opened
<1>2. n \in 1..n /\ s[1].node = Root /\ marks[1] = 0 /\ 1 \in 1..n
  BY <1>1 DEF Walked
<1>3. /\ Len(trail) \in Nat /\ trail \in PathSeq
      /\ s[n].node \in Objects /\ s[n].next \in Nat \ {0} /\ Len(br[s[n].node]) \in Nat
      /\ Behind(s, n) \in 0..Len(br[s[n].node]) /\ DoneWith(br, ty, s, n) \in PathSeq
      /\ Holds(trail, marks[n], IF n = Len(s) THEN Len(trail) ELSE marks[n + 1], s, n,
               DoneWith(br, ty, s, n))
  <2>1. AtOpen(br, ty, s, marks, trail, n)
    BY <1>2, OpenFacts
  <2>2. QED
    BY <2>1 DEF AtOpen
<1>4. s[n].next \in 1..Len(br[s[n].node])
  BY DEF HasKid
<1>5. kid \in Objects
  BY <1>3, <1>4, ElementOfSeq DEF KidAt
<1>6. t[n].node = s[n].node /\ t[n].next = s[n].next + 1 /\ SameNodes(s, t, n - 1)
  BY <1>1, <1>2 DEF SameNodes
<1>7. Behind(t, n) = Behind(s, n)
  <2>1. Behind(s, n) = s[n].next - 1 /\ Behind(t, n) = t[n].next - 2
    BY <1>1 DEF Behind
  <2>2. PICK x \in Nat : x = s[n].next
    BY <1>3
  <2>3. (x + 1) - 2 = x - 1
    OBVIOUS
  <2>4. Behind(s, n) = x - 1 /\ t[n].next = x + 1
    BY <1>6, <2>1, <2>2, Zenon
  <2>5. Behind(t, n) = (x + 1) - 2
    BY <2>1, <2>4, Zenon
  <2>6. QED
    BY <2>3, <2>4, <2>5, Zenon
<1>8. Open(br, ty, t, n)
  <2>1. t[n].next - 1 = s[n].next /\ t[n].next \in Nat \ {0}
    <3>1. PICK x \in Nat : x = s[n].next
      BY <1>3
    <3>2. t[n].next = x + 1
      BY <1>6, <3>1, Zenon
    <3>3. (x + 1) - 1 = x /\ x + 1 \in Nat \ {0}
      OBVIOUS
    <3>4. QED
      BY <3>1, <3>2, <3>3, Zenon
  <2>2. br[t[n].node][t[n].next - 1] = t[n + 1].node
    BY <1>1, <1>6, <2>1 DEF KidAt
  <2>3. QED
    BY <1>1, <1>3, <1>4, <1>6, <1>7, <2>1, <2>2 DEF Open
<1>9. Extends(trail, trail)
  BY <1>3, ExtendsItself
<1>10. Holds(trail, ends[n], IF n = Len(t) THEN Len(trail) ELSE ends[n + 1], t, n, DoneWith(br, ty, t, n))
  <2>1. DoneWith(br, ty, t, n) = DoneWith(br, ty, s, n)
    BY <1>6, <1>7 DEF DoneWith
  <2>2. Holds(trail, marks[n], Len(trail), s, n, DoneWith(br, ty, s, n))
    BY <1>3
  <2>3. Holds(trail, marks[n], Len(trail), t, n, DoneWith(br, ty, s, n))
    BY <1>3, <1>6, <1>9, <2>2, HoldsKept
  <2>4. ends[n] = marks[n] /\ ends[n + 1] = Len(trail) /\ n # Len(t)
    BY <1>1, <1>2
  <2>5. QED
    BY <2>1, <2>3, <2>4
<1>11. /\ Open(br, ty, t, n + 1)
       /\ Holds(trail, ends[n + 1], IF n + 1 = Len(t) THEN Len(trail) ELSE ends[n + 1 + 1], t, n + 1,
                DoneWith(br, ty, t, n + 1))
  <2>1. Behind(t, n + 1) = 0 /\ Len(br[kid]) \in Nat
    BY <1>1, <1>5, LenProperties DEF Behind
  <2>2. MaxDepth + 2 - (n + 1) \in 1..(MaxDepth + 1) /\ 0 \in 0..Len(br[kid])
    BY <1>1, <2>1, BoundsAreNat
  <2>3. DoneWith(br, ty, t, n + 1) = <<>>
    <3>1. Passed(br, ty, MaxDepth + 2 - (n + 1), kid, 0) = <<>>
      BY <1>5, <2>2, PassedFacts
    <3>2. QED
      BY <1>1, <2>1, <3>1 DEF DoneWith
  <2>4. Holds(trail, Len(trail), Len(trail), t, n + 1, <<>>)
    BY <1>3, HoldsNothing
  <2>5. Open(br, ty, t, n + 1)
    BY <1>1, <1>5, <2>1, <2>2 DEF Open
  <2>6. ends[n + 1] = Len(trail) /\ n + 1 = Len(t)
    BY <1>1
  <2>7. QED
    BY <2>3, <2>4, <2>5, <2>6
<1>12. ASSUME NEW i \in 1..n, i # n
       PROVE  /\ Open(br, ty, t, i)
              /\ Holds(trail, ends[i], IF i = Len(t) THEN Len(trail) ELSE ends[i + 1], t, i,
                       DoneWith(br, ty, t, i))
  <2>1. i \in 1..Len(t) /\ i # Len(t) /\ i + 1 \in 1..n /\ \A k \in 1..(i + 1) : k \in 1..n
    BY <1>1, <1>12
  <2>2. SameNodes(s, t, i + 1)
    BY <1>1, <2>1 DEF SameNodes
  <2>3. t[i].next = s[i].next
    BY <1>1, <1>12
  <2>4. ends[i] = marks[i] /\ ends[i + 1] = marks[i + 1]
    BY <2>1
  <2>5. QED
    BY <1>9, <1>12, <2>1, <2>2, <2>3, <2>4, LowerKept
<1>13. t[1].node = Root /\ ends[1] = 0
  BY <1>1, <1>2 DEF SameNodes
<1>14. Len(t) \in 0..(MaxDepth + 1) /\ \A i \in 1..Len(t) : i \in 1..n \/ i = n + 1
  BY <1>1, BoundsAreNat
<1> HIDE DEF kid
<1>15. \A i \in 1..Len(t) :
         /\ Open(br, ty, t, i)
         /\ Holds(trail, ends[i], IF i = Len(t) THEN Len(trail) ELSE ends[i + 1], t, i,
                  DoneWith(br, ty, t, i))
  BY <1>8, <1>10, <1>11, <1>12, <1>14, Zenon
<1>16. QED
  BY <1>3, <1>13, <1>14, <1>15, Zenon DEF Walked

(* What a call that is done with all its kids has passed.                   *)
LEMMA AllPassed ==
  ASSUME NEW br \in [Objects -> Seq(Objects)], NEW ty, NEW s, NEW marks, NEW trail,
         Walked(br, ty, s, marks, trail), Len(s) \in Nat \ {0}, ~HasKid(br, s)
  PROVE  DoneWith(br, ty, s, Len(s)) = Below(br, ty)[MaxDepth + 2 - Len(s)][s[Len(s)].node]
<1> DEFINE n == Len(s)
<1>1. n \in 1..Len(s)
  OBVIOUS
<1>2. /\ MaxDepth + 2 - n \in 1..(MaxDepth + 1)
      /\ s[n].node \in Objects /\ s[n].next \in Nat \ {0} /\ Len(br[s[n].node]) \in Nat
      /\ Behind(s, n) \in 0..Len(br[s[n].node])
  <2>1. AtOpen(br, ty, s, marks, trail, n)
    BY <1>1, OpenFacts
  <2>2. QED
    BY <2>1 DEF AtOpen
<1>3. Behind(s, n) = Len(br[s[n].node])
  <2>1. Behind(s, n) = s[n].next - 1
    BY DEF Behind
  <2>2. s[n].next \notin 1..Len(br[s[n].node])
    BY DEF HasKid
  <2>3. QED
    BY <1>2, <2>1, <2>2
<1>4. QED
  BY <1>2, <1>3, PassedFacts DEF DoneWith

Leads(br, ty, d, node, k, l, kid, below, longer) ==
  /\ l \in 1..Len(br[node]) /\ l = k + 1 /\ br[node][l] = kid
  /\ Below(br, ty)[d - 1][kid] = below /\ Through(node, kid, ty[kid], below) = longer

FirstThen(first, rest, both) == both = first \o rest

LEMMA PassedThrough ==
  ASSUME NEW br \in [Objects -> Seq(Objects)], NEW ty, NEW d \in 1..(MaxDepth + 1),
         NEW node \in Objects, NEW k \in Nat, NEW l, NEW kid, NEW below, NEW longer,
         Leads(br, ty, d, node, k, l, kid, below, longer)
  PROVE  FirstThen(Passed(br, ty, d, node, k), longer, Passed(br, ty, d, node, l))
<1>1. l \in 1..Len(br[node]) /\ l = k + 1
  BY DEF Leads
<1>2. Passed(br, ty, d, node, l)
        = Passed(br, ty, d, node, k)
            \o Through(node, br[node][l], ty[br[node][l]], Below(br, ty)[d - 1][br[node][l]])
  BY <1>1, PassedGrows
<1>3. QED
  BY <1>2, Zenon DEF Leads, FirstThen

(* What leads through an inner kid.                                         *)
Prefixed(node, below, longer) ==
  longer = [j \in 1..Len(below) |-> <<node>> \o below[j]]

LEMMA ThroughPages ==
  ASSUME NEW node \in Objects, NEW kid \in Objects, NEW below \in PathSeq,
         NEW longer, Prefixed(node, below, longer)
  PROVE  /\ Through(node, kid, "Pages", below) = longer
         /\ Len(longer) = Len(below) /\ longer \in PathSeq
<1> DEFINE type == "Pages"
           through == Through(node, kid, type, below)
<1>1. type = "Pages"
  OBVIOUS
<1> HIDE DEF type
<1>2. /\ Through(node, kid, type, below) \in PathSeq
      /\ type = "Pages" => Through(node, kid, type, below)
                             = [j \in 1..Len(below) |-> <<node>> \o below[j]]
      /\ type = "Pages" => Len(Through(node, kid, type, below)) = Len(below)
  BY ThroughTyped
<1> HIDE DEF through
<1>3. through \in PathSeq /\ through = longer /\ Len(through) = Len(below)
  BY <1>1, <1>2, Zenon DEF through, Prefixed
<1>4. Through(node, kid, "Pages", below) = through
  BY <1>1, Zenon DEF through
<1>5. QED
  BY <1>3, <1>4, Zenon

(* Back from a call: what it has passed leads through the call above.       *)
LEMMA WalkCloses ==
  ASSUME NEW br \in [Objects -> Seq(Objects)], NEW ty, NEW s, NEW t, NEW marks, NEW trail,
         Walked(br, ty, s, marks, trail), Closed(s, t), ~HasKid(br, s), Len(s) # 1
  PROVE  Walked(br, ty, t, marks, trail)
<1> DEFINE n == Len(s)
<1>1. /\ n \in Nat \ {0} /\ Len(t) = n - 1 /\ SameNodes(s, t, Len(t))
      /\ \A i \in 1..Len(t) : t[i].next = s[i].next
  BY DEF Closed
<1>2. n \in 1..n /\ s[1].node = Root /\ marks[1] = 0 /\ n \in 0..(MaxDepth + 1) /\ n # 1
  BY <1>1 DEF Walked
<1>3. PICK m \in Nat \ {0} : m = n - 1 /\ n = m + 1 /\ m \in 1..n /\ m # n /\ 1 \in 1..m /\ m = Len(t)
  BY <1>1, <1>2
<1>4. /\ Len(trail) \in Nat /\ trail \in PathSeq
      /\ MaxDepth + 2 - n \in 1..(MaxDepth + 1) /\ s[n].node \in Objects
      /\ Holds(trail, marks[n], IF n = Len(s) THEN Len(trail) ELSE marks[n + 1], s, n,
               DoneWith(br, ty, s, n))
  <2>1. AtOpen(br, ty, s, marks, trail, n)
    BY <1>2, OpenFacts
  <2>2. QED
    BY <2>1 DEF AtOpen
<1>5. /\ MaxDepth + 2 - m \in 1..(MaxDepth + 1)
      /\ s[m].node \in Objects /\ s[m].next \in Nat \ {0} /\ Len(br[s[m].node]) \in Nat
      /\ Behind(s, m) \in 0..Len(br[s[m].node]) /\ DoneWith(br, ty, s, m) \in PathSeq
      /\ Holds(trail, marks[m], IF m = Len(s) THEN Len(trail) ELSE marks[m + 1], s, m,
               DoneWith(br, ty, s, m))
      /\ s[m].next - 1 \in 1..Len(br[s[m].node])
      /\ br[s[m].node][s[m].next - 1] = s[n].node
      /\ ty[s[n].node] = "Pages"
  <2>1. AtOpen(br, ty, s, marks, trail, m)
    BY <1>3, OpenFacts
  <2>2. QED
    BY <1>3, <2>1, Zenon DEF AtOpen
<1> DEFINE below == Below(br, ty)[MaxDepth + 2 - n][s[n].node]
           node == s[m].node
           longer == [j \in 1..Len(below) |-> <<node>> \o below[j]]
           l == s[m].next - 1
           d == MaxDepth + 2 - m
<1>6. below \in PathSeq /\ DoneWith(br, ty, s, n) = below
  <2>1. MaxDepth + 2 - n \in 0..(MaxDepth + 1)
    BY <1>4, BoundsAreNat
  <2>2. below \in PathSeq
    BY <1>4, <2>1, BelowTyped
  <2>3. DoneWith(br, ty, s, Len(s)) = Below(br, ty)[MaxDepth + 2 - Len(s)][s[Len(s)].node]
    BY <1>1, AllPassed
  <2>4. QED
    BY <2>2, <2>3, Zenon
<1> HIDE DEF below
<1>7. Through(node, s[n].node, ty[s[n].node], below) = longer
      /\ Len(longer) = Len(below) /\ longer \in PathSeq
  <2>1. node \in Objects /\ s[n].node \in Objects /\ below \in PathSeq
        /\ Prefixed(node, below, longer)
    BY <1>4, <1>5, <1>6 DEF Prefixed
  <2>2. Through(node, s[n].node, "Pages", below) = longer
        /\ Len(longer) = Len(below) /\ longer \in PathSeq
    <3> HIDE DEF node, longer, n, l, d
    <3>1. PICK kid \in Objects : kid = s[n].node
      BY <2>1
    <3>2. Through(node, kid, "Pages", below) = longer
          /\ Len(longer) = Len(below) /\ longer \in PathSeq
      BY <2>1, ThroughPages
    <3>3. QED
      BY <3>1, <3>2, Zenon
  <2>3. QED
    BY <1>5, <2>2, Zenon
<1>8. Holds(trail, marks[n], Len(trail), s, m, longer)
  <2>1. Holds(trail, marks[n], Len(trail), s, n, below)
    BY <1>4, <1>6
  <2> HIDE DEF longer
  <2>2. longer = [j \in 1..Len(below) |-> <<s[m].node>> \o below[j]]
    BY DEF longer
  <2>3. QED
    BY <1>3, <1>5, <1>6, <1>7, <2>1, <2>2, HoldsAbove, ZenonT(30)
<1>9. Behind(s, m) \in Nat /\ l = Behind(s, m) + 1 /\ Behind(t, m) = l
      /\ l \in 1..Len(br[node]) /\ t[m].node = node /\ t[m].next = s[m].next
  <2>1. t[m].node = node /\ t[m].next = s[m].next
    <3>1. m \in 1..Len(t)
      BY <1>3
    <3>2. \A k \in 1..Len(t) : t[k].node = s[k].node /\ t[k].next = s[k].next
      BY <1>1 DEF SameNodes
    <3>3. QED
      BY <3>1, <3>2, Zenon
  <2>2. Behind(s, m) = s[m].next - 2 /\ Behind(t, m) = t[m].next - 1
    BY <1>3, Zenon DEF Behind
  <2>3. PICK x \in Nat : x = s[m].next
    BY <1>5
  <2>4. x - 1 = (x - 2) + 1
    OBVIOUS
  <2>5. l = Behind(s, m) + 1 /\ Behind(t, m) = l
    BY <2>1, <2>2, <2>3, <2>4, Zenon
  <2>6. Behind(s, m) \in Nat /\ l \in 1..Len(br[node])
    BY <1>5
  <2> HIDE DEF l, node
  <2>7. QED
    BY <2>1, <2>5, <2>6
<1>10. DoneWith(br, ty, t, m) = DoneWith(br, ty, s, m) \o longer
  <2>1. PICK e \in 1..(MaxDepth + 1) : e = d
    BY <1>5
  <2>2. PICK nd \in Objects : nd = node
    BY <1>5
  <2>3. PICK k \in Nat : k = Behind(s, m)
    BY <1>9
  <2>4. PICK x : x = l
    OBVIOUS
  <2>5. PICK kid : kid = s[n].node
    OBVIOUS
  <2>6. e - 1 = MaxDepth + 2 - n
    BY <1>1, <1>3, <2>1, BoundsAreNat
  <2>7. x \in 1..Len(br[nd]) /\ x = k + 1
    <3> HIDE DEF l, node
    <3>1. QED
      BY <1>9, <2>2, <2>3, <2>4
  <2>8. br[nd][x] = kid
    BY <1>5, <2>2, <2>4, <2>5, Zenon
  <2>9. Below(br, ty)[e - 1][kid] = below
    BY <2>5, <2>6 DEF below
  <2>10. Through(nd, kid, ty[kid], below) = longer
    <3> HIDE DEF node, longer
    <3>1. QED
      BY <1>7, <2>2, <2>5
  <2> HIDE DEF longer
  <2>11. FirstThen(Passed(br, ty, e, nd, k), longer, Passed(br, ty, e, nd, x))
    <3>1. Leads(br, ty, e, nd, k, x, kid, below, longer)
      BY <2>7, <2>8, <2>9, <2>10, Zenon DEF Leads
    <3>2. QED
      BY <3>1, PassedThrough
  <2>12. Passed(br, ty, e, nd, x) = DoneWith(br, ty, t, m)
         /\ Passed(br, ty, e, nd, k) = DoneWith(br, ty, s, m)
    BY <1>9, <2>1, <2>2, <2>3, <2>4 DEF DoneWith
  <2>13. QED
    BY <2>11, <2>12, Zenon DEF FirstThen
<1>11. Holds(trail, marks[m], Len(trail), s, m, DoneWith(br, ty, s, m) \o longer)
  <2>1. Holds(trail, marks[m], marks[n], s, m, DoneWith(br, ty, s, m))
    BY <1>3, <1>5
  <2> HIDE DEF longer
  <2>2. QED
    BY <1>5, <1>7, <1>8, <2>1, HoldsMore
<1>12. Extends(trail, trail)
  BY <1>4, ExtendsItself
<1>13. Open(br, ty, t, m)
       /\ Holds(trail, marks[m], IF m = Len(t) THEN Len(trail) ELSE marks[m + 1], t, m, DoneWith(br, ty, t, m))
  <2>1. DoneWith(br, ty, s, m) \o longer \in PathSeq
    <3> HIDE DEF longer
    <3>1. QED
      BY <1>5, <1>7, ConcatProperties DEF PathSeq
  <2>2. SameNodes(s, t, m - 1)
    BY <1>1, <1>3 DEF SameNodes
  <2>3. Holds(trail, marks[m], Len(trail), t, m, DoneWith(br, ty, s, m) \o longer)
    <3> HIDE DEF longer
    <3>1. QED
      BY <1>11, <1>12, <2>1, <2>2, HoldsKept
  <2>4. Behind(t, m) \in 0..Len(br[t[m].node])
    BY <1>5, <1>9
  <2>5. Open(br, ty, t, m)
    BY <1>3, <1>5, <1>9, <2>4 DEF Open
  <2>6. QED
    BY <1>3, <1>10, <2>3, <2>5
<1>14. ASSUME NEW i \in 1..m, i # m
       PROVE  /\ Open(br, ty, t, i)
              /\ Holds(trail, marks[i], IF i = Len(t) THEN Len(trail) ELSE marks[i + 1], t, i,
                       DoneWith(br, ty, t, i))
  <2>1. /\ i \in 1..Len(s) /\ i # Len(s) /\ i \in 1..Len(t) /\ i # Len(t)
        /\ \A k \in 1..(i + 1) : k \in 1..Len(t)
    BY <1>3, <1>14
  <2>2. SameNodes(s, t, i + 1)
    BY <1>1, <2>1 DEF SameNodes
  <2>3. t[i].next = s[i].next
    BY <1>1, <2>1
  <2>4. QED
    BY <1>12, <2>1, <2>2, <2>3, LowerKept
<1>15. t[1].node = Root
  BY <1>1, <1>2, <1>3 DEF SameNodes
<1>16. Len(t) \in 0..(MaxDepth + 1)
  BY <1>2, <1>3, BoundsAreNat
<1>17. \A i \in 1..Len(t) :
         /\ Open(br, ty, t, i)
         /\ Holds(trail, marks[i], IF i = Len(t) THEN Len(trail) ELSE marks[i + 1], t, i,
                  DoneWith(br, ty, t, i))
  BY <1>3, <1>13, <1>14, Zenon
<1>18. QED
  BY <1>2, <1>4, <1>15, <1>16, <1>17, Zenon DEF Walked

(* Back from the root: the trail is the paths of the tree.                  *)
LEMMA WalkEnds ==
  ASSUME NEW br \in [Objects -> Seq(Objects)], NEW ty, NEW s, NEW marks, NEW trail,
         Walked(br, ty, s, marks, trail), ~HasKid(br, s), Len(s) = 1
  PROVE  trail = PathsOf(br, ty)
<1> DEFINE paths == PathsOf(br, ty)
<1>1. 1 \in 1..Len(s) /\ Len(s) \in Nat \ {0}
  OBVIOUS
<1>2. s[1].node = Root /\ marks[1] = 0
  BY <1>1 DEF Walked
<1>3. /\ Len(trail) \in Nat /\ trail \in PathSeq /\ DoneWith(br, ty, s, 1) \in PathSeq
      /\ Holds(trail, marks[1], IF 1 = Len(s) THEN Len(trail) ELSE marks[1 + 1], s, 1,
               DoneWith(br, ty, s, 1))
  <2>1. AtOpen(br, ty, s, marks, trail, 1)
    BY <1>1, OpenFacts
  <2>2. QED
    BY <2>1 DEF AtOpen
<1>4. DoneWith(br, ty, s, 1) = paths
  <2>1. DoneWith(br, ty, s, Len(s)) = Below(br, ty)[MaxDepth + 2 - Len(s)][s[Len(s)].node]
    BY <1>1, AllPassed
  <2>2. MaxDepth + 2 - 1 = MaxDepth + 1
    BY BoundsAreNat
  <2>3. paths = Below(br, ty)[MaxDepth + 1][Root]
    BY BelowSolves
  <2>4. QED
    BY <1>2, <2>1, <2>2, <2>3, Zenon
<1> HIDE DEF paths
<1>5. Holds(trail, 0, Len(trail), s, 1, paths)
  BY <1>2, <1>3, <1>4
<1>6. Len(paths) \in Nat /\ paths \in PathSeq
  BY <1>3, <1>4, LenProperties DEF PathSeq
<1>7. Len(trail) = Len(paths) /\ \A j \in 1..Len(paths) : trail[j] = Under(s, 0, paths[j])
  <2>1. Len(trail) = 0 + Len(paths) /\ \A j \in 1..Len(paths) : trail[0 + j] = Under(s, 1 - 1, paths[j])
    BY <1>5 DEF Holds
  <2>2. \A j \in 1..Len(paths) : 0 + j = j
    BY <1>6
  <2>3. QED
    BY <1>6, <2>1, <2>2
<1>8. ASSUME NEW j \in 1..Len(paths)
      PROVE  Under(s, 0, paths[j]) = paths[j]
  <2>1. paths[j] \in Seq(Objects)
    BY <1>6, ElementOfSeq DEF PathSeq
  <2>2. PICK p \in Seq(Objects) : p = paths[j]
    BY <2>1
  <2>3. Len(p) \in Nat /\ p = [k \in 1..Len(p) |-> p[k]]
    BY LenProperties
  <2> DEFINE at(k) == IF k <= 0 THEN s[k].node ELSE p[k - 0]
  <2>4. \A k \in 1..Len(p) : at(k) = p[k]
    BY <2>3
  <2>5. 0 + Len(p) = Len(p)
    BY <2>3
  <2> HIDE DEF at
  <2>6. [k \in 1..(0 + Len(p)) |-> at(k)] = [k \in 1..Len(p) |-> p[k]]
    BY <2>4, <2>5, Zenon
  <2>7. QED
    BY <2>2, <2>3, <2>6, Zenon DEF Under, at
<1>9. \A j \in 1..Len(paths) : trail[j] = paths[j]
  BY <1>7, <1>8
<1>10. trail = [j \in 1..Len(trail) |-> trail[j]] /\ paths = [j \in 1..Len(paths) |-> paths[j]]
  BY <1>3, <1>6, LenProperties DEF PathSeq
<1>11. trail = paths
  BY <1>7, <1>9, <1>10, Zenon
<1>12. QED
  BY <1>11 DEF paths

(***************************************************************************)
(* Where a walk is: the trail it has left, for some marks.                 *)
(***************************************************************************)
Reached(br, ty, s, trail) == \E marks : Walked(br, ty, s, marks, trail)

PathTo(s, kid) == [k \in 1..(Len(s) + 1) |-> IF k <= Len(s) THEN s[k].node ELSE kid]

LeadsNowhere(br, ty, kid) ==
  ty[kid] \notin {"Page", "Pages"} \/ (ty[kid] = "Pages" /\ br[kid] = <<>>)

LEMMA ReachedStart ==
  ASSUME NEW br \in [Objects -> Seq(Objects)], NEW ty, NEW s,
         Len(s) = 1, s[1].node = Root, s[1].next = 1
  PROVE  Reached(br, ty, s, <<>>)
<1>1. PICK marks : marks[1] = 0
  <2>1. [i \in 1..1 |-> 0][1] = 0
    OBVIOUS
  <2>2. QED
    BY <2>1
<1>2. Walked(br, ty, s, marks, <<>>)
  BY <1>1, WalkStarts
<1>3. QED
  BY <1>2 DEF Reached

(* The top call and the kid it is at.                                       *)
AtTop(br, s, trail) ==
  /\ Len(s) \in 1..(MaxDepth + 1) /\ Len(s) \in Nat \ {0}
  /\ trail \in PathSeq /\ Len(trail) \in Nat
  /\ s[Len(s)].node \in Objects /\ KidAt(br, s) \in Objects

LEMMA ReachedTop ==
  ASSUME NEW br \in [Objects -> Seq(Objects)], NEW ty, NEW s, NEW trail,
         Reached(br, ty, s, trail), Len(s) \in Nat \ {0}, HasKid(br, s)
  PROVE  AtTop(br, s, trail)
<1>1. PICK marks : Walked(br, ty, s, marks, trail)
  BY DEF Reached
<1>2. Len(s) \in 1..Len(s) /\ Len(s) \in 1..(MaxDepth + 1)
  BY <1>1, BoundsAreNat DEF Walked
<1>3. AtOpen(br, ty, s, marks, trail, Len(s))
  BY <1>1, <1>2, OpenFacts
<1>4. s[Len(s)].node \in Objects /\ trail \in PathSeq /\ Len(trail) \in Nat
  BY <1>3 DEF AtOpen
<1>5. KidAt(br, s) \in Objects
  BY <1>4, ElementOfSeq DEF KidAt, HasKid
<1>6. QED
  BY <1>2, <1>4, <1>5 DEF AtTop

(* Nothing leads through a kid that is no node of the tree, or has no kids. *)
LEMMA NothingBelow ==
  ASSUME NEW br \in [Objects -> Seq(Objects)], NEW ty, NEW d \in 0..(MaxDepth + 1),
         NEW kid \in Objects, br[kid] = <<>>
  PROVE  Below(br, ty)[d][kid] = <<>>
<1> DEFINE f == Below(br, ty)
<1>1. \A m \in 0..(MaxDepth + 1) :
        f[m] = IF m = 0 THEN [node \in Objects |-> <<>>] ELSE PathsThrough(br, ty, f[m - 1])
  BY BelowSolves
<1> HIDE DEF f
<1>2. CASE d = 0
  BY <1>1, <1>2 DEF f
<1>3. CASE d # 0
  <2>1. d \in 1..(MaxDepth + 1) /\ Len(br[kid]) = 0 /\ 0 \in 0..Len(br[kid])
    BY <1>3, BoundsAreNat
  <2>2. Passed(br, ty, d, kid, 0) = <<>> /\ Passed(br, ty, d, kid, 0) = Below(br, ty)[d][kid]
    <3>1. PICK none \in 0..Len(br[kid]) : none = 0
      BY <2>1
    <3>2. /\ none = 0 => Passed(br, ty, d, kid, none) = <<>>
          /\ none = Len(br[kid]) => Passed(br, ty, d, kid, none) = Below(br, ty)[d][kid]
      BY <2>1, PassedFacts
    <3>3. QED
      BY <2>1, <3>1, <3>2
  <2>3. QED
    BY <2>2
<1>4. QED
  BY <1>2, <1>3

LEMMA ReachedPast ==
  ASSUME NEW br \in [Objects -> Seq(Objects)], NEW ty, NEW s, NEW t, NEW trail,
         Reached(br, ty, s, trail), Moved(s, t), HasKid(br, s),
         LeadsNowhere(br, ty, KidAt(br, s))
  PROVE  Reached(br, ty, t, trail)
<1> DEFINE n == Len(s)
           kid == KidAt(br, s)
           d == (MaxDepth + 2 - n) - 1
           below == Below(br, ty)[d][kid]
<1>1. PICK marks : Walked(br, ty, s, marks, trail)
  BY DEF Reached
<1>2. /\ n \in 1..(MaxDepth + 1) /\ n \in Nat \ {0} /\ trail \in PathSeq /\ Len(trail) \in Nat
      /\ s[n].node \in Objects /\ kid \in Objects
  BY ReachedTop DEF Moved, AtTop
<1>3. d \in 0..(MaxDepth + 1)
  BY <1>2, BoundsAreNat
<1>4. below \in PathSeq
  <2> HIDE DEF d, kid
  <2>1. QED
    BY <1>2, <1>3, BelowTyped
<1>5. Through(s[n].node, kid, ty[kid], below) = <<>>
  <2> HIDE DEF kid, below
  <2>1. CASE ty[kid] \notin {"Page", "Pages"}
    <3>1. ty[kid] # "Page" /\ ty[kid] # "Pages"
      BY <2>1
    <3>2. QED
      BY <3>1, Zenon DEF Through
  <2>2. CASE ty[kid] = "Pages" /\ br[kid] = <<>>
    <3>1. below = <<>>
      <4> HIDE DEF d
      <4>1. QED
        BY <1>2, <1>3, <2>2, NothingBelow DEF below
    <3>2. Through(s[n].node, kid, "Pages", below) = [j \in 1..Len(below) |-> <<s[n].node>> \o below[j]]
      BY Zenon DEF Through
    <3>3. 1..Len(below) = {}
      BY <3>1
    <3>4. [j \in 1..Len(below) |-> <<s[n].node>> \o below[j]] = <<>>
      BY <3>3
    <3>5. QED
      BY <2>2, <3>2, <3>4
  <2>3. QED
    BY <2>1, <2>2 DEF LeadsNowhere, kid
<1>6. ThroughKid(br, ty, s) = <<>>
  BY <1>5 DEF ThroughKid
<1>7. Holds(trail, Len(trail), Len(trail), s, n, <<>>)
  BY <1>2, HoldsNothing
<1>8. Extends(trail, trail)
  BY <1>2, ExtendsItself
<1>9. Walked(br, ty, t, marks, trail)
  <2>1. Holds(trail, Len(trail), Len(trail), s, Len(s), ThroughKid(br, ty, s))
    BY <1>6, <1>7
  <2>2. QED
    BY <1>1, <1>8, <2>1, WalkMovesOn
<1>10. QED
  BY <1>9 DEF Reached

Longer(trail, path, more) ==
  /\ more \in PathSeq /\ Len(trail) \in Nat /\ Len(more) = Len(trail) + 1
  /\ more[Len(trail) + 1] = path /\ \A j \in 1..Len(trail) : more[j] = trail[j]

LEMMA ReachedLeaf ==
  ASSUME NEW br \in [Objects -> Seq(Objects)], NEW ty, NEW s, NEW t, NEW trail, NEW more,
         Reached(br, ty, s, trail), Moved(s, t), HasKid(br, s), ty[KidAt(br, s)] = "Page",
         Longer(trail, PathTo(s, KidAt(br, s)), more)
  PROVE  Reached(br, ty, t, more)
<1> DEFINE n == Len(s)
           kid == KidAt(br, s)
           node == s[n].node
           path == PathTo(s, kid)
           leaf == <<node, kid>>
           one == <<leaf>>
<1>1. PICK marks : Walked(br, ty, s, marks, trail)
  BY DEF Reached
<1>2. /\ n \in 1..(MaxDepth + 1) /\ n \in Nat \ {0} /\ trail \in PathSeq /\ Len(trail) \in Nat
      /\ node \in Objects /\ kid \in Objects
  BY ReachedTop DEF Moved, AtTop
<1>3. /\ more \in PathSeq /\ Len(more) = Len(trail) + 1
      /\ more[Len(trail) + 1] = path /\ \A j \in 1..Len(trail) : more[j] = trail[j]
  BY DEF Longer
<1>4. Under(s, n - 1, leaf) = path
  <2> DEFINE at(k) == IF k <= n - 1 THEN s[k].node ELSE leaf[k - (n - 1)]
             to(k) == IF k <= n THEN s[k].node ELSE kid
  <2>1. Len(leaf) = 2 /\ leaf[1] = node /\ leaf[2] = kid
    OBVIOUS
  <2> HIDE DEF leaf, kid, node
  <2>2. (n - 1) + Len(leaf) = n + 1
    BY <1>2, <2>1
  <2>3. \A k \in 1..(n + 1) : at(k) = to(k)
    <3> TAKE k \in 1..(n + 1)
    <3>1. CASE k <= n - 1
      <4>1. k <= n
        BY <1>2, <3>1
      <4>2. QED
        BY <3>1, <4>1
    <3>2. CASE k = n
      <4>1. ~(k <= n - 1) /\ k - (n - 1) = 1 /\ k <= n
        BY <1>2, <3>2
      <4>2. to(k) = node
        BY <3>2, <4>1 DEF node
      <4>3. at(k) = leaf[1]
        BY <4>1
      <4>4. QED
        BY <2>1, <4>2, <4>3
    <3>3. CASE k = n + 1
      <4>1. ~(k <= n - 1) /\ k - (n - 1) = 2 /\ ~(k <= n)
        BY <1>2, <3>3
      <4>2. QED
        BY <2>1, <4>1
    <3>4. QED
      BY <1>2, <3>1, <3>2, <3>3
  <2> HIDE DEF at, to
  <2>4. [k \in 1..(n + 1) |-> at(k)] = [k \in 1..(n + 1) |-> to(k)]
    BY <2>3, Zenon
  <2>5. QED
    BY <2>2, <2>4, Zenon DEF Under, PathTo, at, to
<1>5. ThroughKid(br, ty, s) = one
  BY Zenon DEF ThroughKid, Through
<1> HIDE DEF path
<1>6. Len(one) = 1 /\ one[1] = leaf
  OBVIOUS
<1>7. Holds(more, Len(trail), Len(more), s, n, one)
  <2> HIDE DEF one, leaf, kid, node
  <2>1. \A j \in 1..Len(one) : j = 1
    BY <1>6
  <2>2. more[Len(trail) + 1] = Under(s, n - 1, one[1])
    BY <1>3, <1>4, <1>6
  <2>3. QED
    BY <1>2, <1>3, <1>6, <2>1, <2>2 DEF Holds
<1>8. Extends(trail, more)
  BY <1>2, <1>3 DEF Extends
<1>9. Walked(br, ty, t, marks, more)
  <2>1. Holds(more, Len(trail), Len(more), s, Len(s), ThroughKid(br, ty, s))
    BY <1>5, <1>7
  <2>2. QED
    BY <1>1, <1>8, <2>1, WalkMovesOn
<1>10. QED
  BY <1>9 DEF Reached

LEMMA ReachedOpen ==
  ASSUME NEW br \in [Objects -> Seq(Objects)], NEW ty, NEW s, NEW t, NEW trail,
         Reached(br, ty, s, trail), HasKid(br, s), Opened(s, t, KidAt(br, s)),
         ty[KidAt(br, s)] = "Pages", Len(s) <= MaxDepth
  PROVE  Reached(br, ty, t, trail)
<1> DEFINE n == Len(s)
<1>1. PICK marks : Walked(br, ty, s, marks, trail)
  BY DEF Reached
<1>2. n \in Nat \ {0}
  BY DEF Opened
<1>3. PICK ends : ends[n + 1] = Len(trail) /\ \A i \in 1..n : ends[i] = marks[i]
  <2> DEFINE e == [i \in 1..(n + 1) |-> IF i = n + 1 THEN Len(trail) ELSE marks[i]]
  <2>1. e[n + 1] = Len(trail) /\ \A i \in 1..n : e[i] = marks[i]
    BY <1>2
  <2> HIDE DEF e
  <2>2. QED
    BY <2>1
<1>4. Walked(br, ty, t, ends, trail)
  BY <1>1, <1>3, WalkOpens
<1>5. QED
  BY <1>4 DEF Reached

LEMMA ReachedClose ==
  ASSUME NEW br \in [Objects -> Seq(Objects)], NEW ty, NEW s, NEW t, NEW trail,
         Reached(br, ty, s, trail), Closed(s, t), ~HasKid(br, s), Len(s) # 1
  PROVE  Reached(br, ty, t, trail)
<1>1. PICK marks : Walked(br, ty, s, marks, trail)
  BY DEF Reached
<1>2. Walked(br, ty, t, marks, trail)
  BY <1>1, WalkCloses
<1>3. QED
  BY <1>2 DEF Reached

LEMMA ReachedEnd ==
  ASSUME NEW br \in [Objects -> Seq(Objects)], NEW ty, NEW s, NEW trail,
         Reached(br, ty, s, trail), ~HasKid(br, s), Len(s) = 1
  PROVE  trail = PathsOf(br, ty)
<1>1. PICK marks : Walked(br, ty, s, marks, trail)
  BY DEF Reached
<1>2. QED
  BY <1>1, WalkEnds

LEMMA NoPaths ==
  ASSUME NEW br \in [Objects -> Seq(Objects)], NEW ty, br[Root] = <<>>
  PROVE  PathsOf(br, ty) = <<>>
<1>1. MaxDepth + 1 \in 0..(MaxDepth + 1)
  BY BoundsAreNat
<1>2. Below(br, ty)[MaxDepth + 1][Root] = <<>>
  BY <1>1, RootIsObject, NothingBelow
<1>3. QED
  BY <1>2, BelowSolves

LEMMA PathsTyped ==
  ASSUME NEW br \in [Objects -> Seq(Objects)], NEW ty
  PROVE  PathsOf(br, ty) \in PathSeq
<1>1. MaxDepth + 1 \in 0..(MaxDepth + 1)
  BY BoundsAreNat
<1>2. Below(br, ty)[MaxDepth + 1][Root] \in PathSeq
  BY <1>1, RootIsObject, BelowTyped
<1>3. QED
  BY <1>2, BelowSolves

-----------------------------------------------------------------------------
(***************************************************************************)
(* The walks' stacks as such calls.                                        *)
(***************************************************************************)
LEMMA StackOpens ==
  ASSUME NEW S, NEW s, NEW moved \in Seq(S), NEW top \in S, Moved(s, moved), top.next = 1
  PROVE  Opened(s, Append(moved, top), top.node)
<1> DEFINE more == Append(moved, top)
           n == Len(s)
<1>1. /\ n \in Nat \ {0} /\ Len(moved) = n /\ SameNodes(s, moved, n)
      /\ \A i \in 1..n : moved[i].next = IF i = n THEN s[i].next + 1 ELSE s[i].next
  BY DEF Moved
<1>2. Len(more) = n + 1 /\ more[n + 1] = top /\ \A i \in 1..n : more[i] = moved[i]
  BY <1>1, AppendProperties
<1> HIDE DEF more
<1>3. SameNodes(s, more, n)
  BY <1>1, <1>2 DEF SameNodes
<1>4. \A i \in 1..n : more[i].next = IF i = n THEN s[i].next + 1 ELSE s[i].next
  BY <1>1, <1>2
<1>5. more[n + 1].node = top.node /\ more[n + 1].next = 1
  BY <1>2
<1>6. Opened(s, more, top.node)
  BY <1>1, <1>2, <1>3, <1>4, <1>5 DEF Opened
<1>7. QED
  BY <1>6 DEF more

LEMMA StackCloses ==
  ASSUME NEW S, NEW s \in Seq(S), s # <<>>
  PROVE  Closed(s, Front(s))
<1> DEFINE back == Front(s)
<1>1. Len(back) = Len(s) - 1 /\ Len(s) \in Nat \ {0} /\ \A k \in 1..Len(back) : back[k] = s[k]
  BY Popped DEF Front
<1> HIDE DEF back
<1>2. Closed(s, back)
  BY <1>1 DEF Closed, SameNodes
<1>3. QED
  BY <1>2 DEF back

LEMMA FramesMove ==
  ASSUME NEW s \in Seq(LeafFrame), s # <<>>
  PROVE  Moved(s, Advanced(s)) /\ Advanced(s) \in Seq(LeafFrame)
<1>1. /\ Advanced(s) \in Seq(LeafFrame)
      /\ Len(s) \in Nat \ {0} /\ Len(Advanced(s)) = Len(s)
      /\ \A i \in 1..Len(s) :
           /\ Advanced(s)[i].node = s[i].node
           /\ Advanced(s)[i].next = IF i = Len(s) THEN s[i].next + 1 ELSE s[i].next
  BY AdvancedFrames
<1>2. QED
  BY <1>1 DEF Moved, SameNodes

(* The tree a walk is measured against.                                     *)
LEMMA BranchesTyped ==
  ASSUME tree \in TreeShape
  PROVE  /\ Branches \in [Objects -> Seq(Objects)]
         /\ \A node \in Objects : /\ Expands(node) => Branches[node] = Kids(node)
                                  /\ ~Expands(node) => Branches[node] = <<>>
                                  /\ Types[node] = NodeType(node)
<1>1. ASSUME NEW node \in Objects
      PROVE  (IF Expands(node) THEN Kids(node) ELSE <<>>) \in Seq(Objects)
  <2>1. tree[node].kids \in Seq(Objects) \cup {Absent}
    BY DEF TreeShape, ObjectShape
  <2>2. CASE Expands(node)
    BY <2>1, <2>2 DEF Expands, Kids
  <2>3. CASE ~Expands(node)
    BY <2>3
  <2>4. QED
    BY <2>2, <2>3
<1>2. Branches \in [Objects -> Seq(Objects)]
  BY <1>1, Zenon DEF Branches
<1>3. \A node \in Objects : /\ Expands(node) => Branches[node] = Kids(node)
                            /\ ~Expands(node) => Branches[node] = <<>>
  BY DEF Branches
<1>4. \A node \in Objects : Types[node] = NodeType(node)
  BY DEF Types
<1>5. QED
  BY <1>2, <1>3, <1>4

LEMMA TreeKept ==
  ASSUME tree' = tree
  PROVE  Branches' = Branches /\ Types' = Types
<1>1. \A node \in Objects : Expands(node)' = Expands(node) /\ Kids(node)' = Kids(node)
                            /\ NodeType(node)' = NodeType(node)
  BY DEF Expands, Kids, NodeType
<1>2. QED
  BY <1>1 DEF Branches, Types

AllExpand(s) == \A i \in 1..Len(s) : s[i].node \in Objects /\ Expands(s[i].node)

Lists(list, trail) ==
  /\ list \in Seq(Objects) /\ Len(list) = Len(trail)
  /\ \A i \in 1..Len(trail) : list[i] = Last(trail[i])

(* A walk at a kid of its top call.                                         *)
LEMMA StackAtKid ==
  ASSUME tree \in TreeShape, NEW s, AllExpand(s), Len(s) \in Nat \ {0},
         s[Len(s)].next \in Nat \ {0}
  PROVE  /\ HasKid(Branches, s) <=> ~(s[Len(s)].next > Len(Kids(s[Len(s)].node)))
         /\ KidAt(Branches, s) = Kids(s[Len(s)].node)[s[Len(s)].next]
<1> DEFINE node == s[Len(s)].node
<1>1. Len(s) \in 1..Len(s)
  OBVIOUS
<1>2. node \in Objects /\ Expands(node)
  BY <1>1 DEF AllExpand
<1> HIDE DEF node
<1>3. Branches[node] = Kids(node) /\ Branches[node] \in Seq(Objects)
  BY <1>2, BranchesTyped
<1>4. Len(Kids(node)) \in Nat
  BY <1>3, LenProperties
<1>5. QED
  BY <1>3, <1>4 DEF HasKid, KidAt, node

LEMMA ListsMore ==
  ASSUME NEW list, NEW trail, NEW s, NEW kid \in Objects, Lists(list, trail), trail \in PathSeq,
         Len(s) \in Nat, \A i \in 1..Len(s) : s[i].node \in Objects
  PROVE  /\ Longer(trail, PathTo(s, kid), Append(trail, PathTo(s, kid)))
         /\ Lists(Append(list, kid), Append(trail, PathTo(s, kid)))
         /\ PathTo(s, kid) \in Seq(Objects) /\ Len(PathTo(s, kid)) = Len(s) + 1
<1> DEFINE path == PathTo(s, kid)
           more == Append(trail, path)
           listed == Append(list, kid)
           n == Len(s)
<1>1. path \in Seq(Objects) /\ Len(path) = n + 1 /\ path[n + 1] = kid
  <2>1. n + 1 \in Nat /\ n + 1 \in 1..(n + 1) /\ ~(n + 1 <= n)
    OBVIOUS
  <2>2. path \in [1..(n + 1) -> Objects]
    BY DEF PathTo
  <2>3. path[n + 1] = kid
    BY <2>1 DEF PathTo
  <2> HIDE DEF path
  <2>4. path \in Seq(Objects)
    BY <2>1, <2>2
  <2>5. DOMAIN path = 1..(n + 1) /\ DOMAIN path = 1..Len(path) /\ Len(path) \in Nat
    BY <2>2, <2>4, LenProperties
  <2>6. QED
    BY <2>1, <2>3, <2>4, <2>5
<1>2. Last(path) = kid
  BY <1>1 DEF Last
<1> HIDE DEF path
<1>3. /\ more \in PathSeq /\ Len(trail) \in Nat /\ Len(more) = Len(trail) + 1
      /\ more[Len(trail) + 1] = path /\ \A j \in 1..Len(trail) : more[j] = trail[j]
  BY <1>1, LenProperties, AppendProperties DEF PathSeq
<1>4. list \in Seq(Objects) /\ Len(list) = Len(trail) /\ \A i \in 1..Len(trail) : list[i] = Last(trail[i])
  BY DEF Lists
<1>5. /\ listed \in Seq(Objects) /\ Len(listed) = Len(trail) + 1
      /\ listed[Len(trail) + 1] = kid /\ \A j \in 1..Len(trail) : listed[j] = list[j]
  BY <1>4, LenProperties, AppendProperties
<1> HIDE DEF more, listed
<1>6. \A i \in 1..Len(more) : listed[i] = Last(more[i])
  <2> TAKE i \in 1..Len(more)
  <2>1. CASE i \in 1..Len(trail)
    BY <1>3, <1>4, <1>5, <2>1
  <2>2. CASE i = Len(trail) + 1
    BY <1>2, <1>3, <1>5, <2>2
  <2>3. QED
    BY <1>3, <2>1, <2>2
<1>7. Longer(trail, path, more) /\ Lists(listed, more)
  BY <1>3, <1>5, <1>6 DEF Longer, Lists
<1>8. QED
  BY <1>1, <1>7 DEF path, more, listed

(***************************************************************************)
(* The leaf walk lists the leaves its trail ends at.                       *)
(***************************************************************************)
LeafTrail(trail) ==
  Reached(Branches, Types, frames, trail) /\ Lists(leaves, trail)

LeafFollows ==
  /\ tree \in TreeShape
  /\ leafPhase = "idle" => leaves = <<>>
  /\ leafPhase = "walking" /\ truncated = Absent =>
       AllExpand(frames) /\ \E trail : LeafTrail(trail)
  /\ leafPhase = "done" /\ truncated = Absent => Lists(leaves, Paths)

LEMMA LeafStarts ==
  ASSUME LeafFollows, StartLeaves
  PROVE  LeafFollows'
<1>1. tree' = tree /\ tree \in TreeShape /\ leaves = <<>> /\ leaves' = leaves /\ leafPhase' # "idle"
      /\ leafPhase' # "done"
  BY DEF LeafFollows, StartLeaves
<1>2. Branches' = Branches /\ Types' = Types
  BY <1>1, TreeKept
<1>3. CASE Expands(Root)
  <2>1. frames' = <<Frame(Root)>>
    BY <1>3 DEF StartLeaves
  <2>2. Len(frames') = 1 /\ frames'[1].node = Root /\ frames'[1].next = 1
    BY <2>1 DEF Frame
  <2>3. Reached(Branches, Types, frames', <<>>)
    BY <1>1, <2>2, BranchesTyped, ReachedStart
  <2>4. Lists(leaves, <<>>)
    BY <1>1 DEF Lists
  <2>5. Expands(Root)'
    BY <1>1, <1>3 DEF Expands, Kids
  <2>6. AllExpand(frames)'
    <3>1. \A i \in 1..1 : i = 1
      OBVIOUS
    <3>2. QED
      BY <2>2, <2>5, <3>1, RootIsObject DEF AllExpand
  <2>7. LeafTrail(<<>>)'
    BY <1>1, <1>2, <2>3, <2>4 DEF LeafTrail
  <2>8. QED
    BY <1>1, <2>6, <2>7 DEF LeafFollows
<1>4. CASE ~Expands(Root)
  BY <1>1, <1>4 DEF StartLeaves, LeafFollows
<1>5. QED
  BY <1>3, <1>4

(* The walk at a kid of the top call.                                       *)
LeafAt(kid, trail) ==
  /\ Len(frames) \in Nat \ {0} /\ frames \in Seq(LeafFrame) /\ AllExpand(frames)
  /\ Reached(Branches, Types, frames, trail) /\ Lists(leaves, trail) /\ trail \in PathSeq
  /\ HasKid(Branches, frames) /\ KidAt(Branches, frames) = kid /\ kid \in Objects
  /\ Types[kid] = NodeType(kid)
  /\ Moved(frames, Advanced(frames)) /\ Advanced(frames) \in Seq(LeafFrame)

LEMMA LeafAtKid ==
  ASSUME LeafBounded, LeafFollows, truncated = Absent, NEW kid \in Objects, AtKid(kid)
  PROVE  \E trail : LeafAt(kid, trail)
<1>1. /\ leafPhase = "walking" /\ frames # <<>> /\ ~Exhausted(frames)
      /\ kid = Kids(Top(frames).node)[Top(frames).next]
  BY DEF AtKid
<1>2. tree \in TreeShape /\ AllExpand(frames)
  BY <1>1 DEF LeafFollows
<1>3. PICK trail : LeafTrail(trail)
  BY <1>1 DEF LeafFollows
<1>4. frames \in Seq(LeafFrame) /\ Len(frames) \in Nat \ {0} /\ frames[Len(frames)].next \in Nat \ {0}
  <2>1. frames \in Seq(LeafFrame) /\ Len(frames) \in Nat \ {0}
    BY <1>1, EmptySeq DEF LeafBounded
  <2>2. frames[Len(frames)] \in LeafFrame
    BY <2>1, ElementOfSeq
  <2>3. QED
    BY <2>1, <2>2 DEF LeafFrame
<1>5. HasKid(Branches, frames) /\ KidAt(Branches, frames) = kid
  BY <1>1, <1>2, <1>4, StackAtKid DEF Exhausted, Top
<1>6. Moved(frames, Advanced(frames)) /\ Advanced(frames) \in Seq(LeafFrame)
  BY <1>1, <1>4, FramesMove
<1>7. Branches \in [Objects -> Seq(Objects)] /\ Types[kid] = NodeType(kid)
  BY <1>2, BranchesTyped
<1>8. Reached(Branches, Types, frames, trail) /\ Lists(leaves, trail)
  BY <1>3 DEF LeafTrail
<1>9. AtTop(Branches, frames, trail)
  BY <1>4, <1>5, <1>7, <1>8, ReachedTop
<1>10. QED
  BY <1>2, <1>4, <1>5, <1>6, <1>7, <1>8, <1>9 DEF LeafAt, AtTop

(* Past a kid, with the trail as it was or one path longer.                 *)
LEMMA LeafGoesOn ==
  ASSUME LeafFollows, tree' = tree, leafPhase = "walking", leafPhase' = "walking",
         truncated' = Absent => AllExpand(frames') /\ \E trail :
           Reached(Branches, Types, frames', trail) /\ Lists(leaves', trail)
  PROVE  LeafFollows'
<1>1. Branches' = Branches /\ Types' = Types
  BY TreeKept
<1>2. ASSUME truncated' = Absent
      PROVE  AllExpand(frames)' /\ (\E trail : LeafTrail(trail))'
  <2>1. PICK trail : Reached(Branches, Types, frames', trail) /\ Lists(leaves', trail)
    BY <1>2
  <2>2. LeafTrail(trail)'
    BY <1>1, <2>1 DEF LeafTrail
  <2>3. AllExpand(frames)'
    BY <1>2 DEF AllExpand, Expands, Kids
  <2>4. QED
    BY <2>2, <2>3
<1>3. QED
  BY <1>2 DEF LeafFollows

LEMMA MovedExpands ==
  ASSUME NEW s, NEW t, AllExpand(s), Moved(s, t)
  PROVE  AllExpand(t)
BY DEF AllExpand, Moved, SameNodes

LEMMA LeafPasses ==
  ASSUME LeafBounded, LeafFollows, NEW kid \in Objects, AtKid(kid), frames' = Advanced(frames),
         tree' = tree, leafPhase' = leafPhase, leaves' = leaves,
         truncated' = Absent => truncated = Absent /\ LeadsNowhere(Branches, Types, kid)
  PROVE  LeafFollows'
<1>1. leafPhase = "walking" /\ tree \in TreeShape
  BY DEF AtKid, LeafFollows
<1>2. ASSUME truncated' = Absent
      PROVE  AllExpand(frames') /\ \E trail : Reached(Branches, Types, frames', trail) /\ Lists(leaves', trail)
  <2>1. PICK trail : LeafAt(kid, trail)
    BY <1>2, LeafAtKid
  <2>2. /\ AllExpand(frames) /\ Reached(Branches, Types, frames, trail) /\ Lists(leaves, trail)
        /\ HasKid(Branches, frames) /\ KidAt(Branches, frames) = kid
        /\ Moved(frames, frames')
    BY <2>1 DEF LeafAt
  <2>3. Branches \in [Objects -> Seq(Objects)]
    BY <1>1, BranchesTyped
  <2>4. LeadsNowhere(Branches, Types, KidAt(Branches, frames))
    BY <1>2, <2>2
  <2>5. Reached(Branches, Types, frames', trail)
    BY <2>2, <2>3, <2>4, ReachedPast
  <2>6. AllExpand(frames')
    BY <2>2, MovedExpands
  <2>7. QED
    BY <2>2, <2>5, <2>6
<1>3. QED
  BY <1>1, <1>2, LeafGoesOn

LEMMA LeafEmits ==
  ASSUME LeafBounded, LeafFollows, EmitLeaf
  PROVE  LeafFollows'
<1>1. PICK kid \in Objects :
        /\ AtKid(kid) /\ NodeType(kid) = "Page" /\ leaves' = Append(leaves, kid)
        /\ frames' = Advanced(frames) /\ tree' = tree /\ leafPhase' = leafPhase
        /\ truncated' = truncated
  BY DEF EmitLeaf
<1>2. leafPhase = "walking" /\ tree \in TreeShape
  BY <1>1 DEF AtKid, LeafFollows
<1>3. ASSUME truncated' = Absent
      PROVE  AllExpand(frames') /\ \E trail : Reached(Branches, Types, frames', trail) /\ Lists(leaves', trail)
  <2>1. PICK trail : LeafAt(kid, trail)
    BY <1>1, <1>3, LeafAtKid
  <2>2. /\ AllExpand(frames) /\ Reached(Branches, Types, frames, trail) /\ Lists(leaves, trail)
        /\ HasKid(Branches, frames) /\ KidAt(Branches, frames) = kid /\ Types[kid] = "Page"
        /\ Moved(frames, frames') /\ trail \in PathSeq /\ Len(frames) \in Nat
    BY <1>1, <2>1 DEF LeafAt
  <2>3. Branches \in [Objects -> Seq(Objects)]
    BY <1>2, BranchesTyped
  <2> DEFINE more == Append(trail, PathTo(frames, kid))
  <2>4. Longer(trail, PathTo(frames, kid), more) /\ Lists(leaves', more)
    <3>1. \A i \in 1..Len(frames) : frames[i].node \in Objects
      BY <2>2 DEF AllExpand
    <3>2. QED
      BY <1>1, <2>2, <3>1, ListsMore
  <2> HIDE DEF more
  <2>5. Reached(Branches, Types, frames', more)
    <3>1. Types[KidAt(Branches, frames)] = "Page" /\ Longer(trail, PathTo(frames, KidAt(Branches, frames)), more)
      BY <2>2, <2>4
    <3>2. QED
      BY <2>2, <2>3, <3>1, ReachedLeaf
  <2>6. AllExpand(frames')
    BY <2>2, MovedExpands
  <2>7. QED
    BY <2>4, <2>5, <2>6
<1>4. QED
  BY <1>1, <1>2, <1>3, LeafGoesOn

LEMMA LeafDescends ==
  ASSUME LeafBounded, LeafFollows, Descend
  PROVE  LeafFollows'
<1>1. PICK kid \in Objects :
        /\ AtKid(kid) /\ NodeType(kid) = "Pages" /\ CrossedBound(kid) = Absent
        /\ IF Expands(kid) THEN frames' = Append(Advanced(frames), Frame(kid))
                           ELSE frames' = Advanced(frames)
        /\ tree' = tree /\ leafPhase' = leafPhase /\ leaves' = leaves /\ truncated' = truncated
  BY DEF Descend
<1>2. leafPhase = "walking" /\ tree \in TreeShape
  BY <1>1 DEF AtKid, LeafFollows
<1>3. Types[kid] = "Pages" /\ (~Expands(kid) => Branches[kid] = <<>>)
      /\ Branches \in [Objects -> Seq(Objects)]
  BY <1>1, <1>2, BranchesTyped
<1>4. CASE ~Expands(kid)
  <2>1. LeadsNowhere(Branches, Types, kid)
    BY <1>3, <1>4 DEF LeadsNowhere
  <2>2. QED
    BY <1>1, <1>4, <2>1, LeafPasses
<1>5. CASE Expands(kid)
  <2>1. ASSUME truncated' = Absent
        PROVE  AllExpand(frames') /\ \E trail : Reached(Branches, Types, frames', trail) /\ Lists(leaves', trail)
    <3>1. PICK trail : LeafAt(kid, trail)
      BY <1>1, <2>1, LeafAtKid
    <3>2. /\ AllExpand(frames) /\ Reached(Branches, Types, frames, trail) /\ Lists(leaves, trail)
          /\ HasKid(Branches, frames) /\ KidAt(Branches, frames) = kid /\ Types[kid] = "Pages"
          /\ Moved(frames, Advanced(frames)) /\ Advanced(frames) \in Seq(LeafFrame)
          /\ Len(frames) \in Nat
      BY <1>3, <3>1 DEF LeafAt
    <3>3. Frame(kid) \in LeafFrame /\ Frame(kid).node = kid /\ Frame(kid).next = 1
      BY DEF Frame, LeafFrame
    <3>4. Opened(frames, Append(Advanced(frames), Frame(kid)), Frame(kid).node)
      BY <3>2, <3>3, StackOpens
    <3>5. Opened(frames, frames', kid)
      BY <1>1, <1>5, <3>3, <3>4
    <3>6. Len(frames) <= MaxDepth
      <4>1. ~(Len(frames) > MaxDepth)
        BY <1>1, AbsentIsNoBound DEF CrossedBound, Bounds
      <4>2. QED
        BY <3>2, <4>1, BoundsAreNat
    <3>7. Reached(Branches, Types, frames', trail)
      <4>1. Opened(frames, frames', KidAt(Branches, frames)) /\ Types[KidAt(Branches, frames)] = "Pages"
        BY <3>2, <3>5
      <4>2. QED
        BY <1>3, <3>2, <3>6, <4>1, ReachedOpen
    <3>8. AllExpand(frames')
      <4>1. /\ Len(frames') = Len(frames) + 1 /\ frames'[Len(frames) + 1].node = kid
            /\ \A k \in 1..Len(frames) : frames'[k].node = frames[k].node
        BY <3>5 DEF Opened, SameNodes
      <4>2. \A i \in 1..Len(frames') : i \in 1..Len(frames) \/ i = Len(frames) + 1
        BY <3>2, <4>1
      <4>3. QED
        BY <1>5, <3>2, <4>1, <4>2 DEF AllExpand
    <3>9. QED
      BY <1>1, <3>2, <3>7, <3>8
  <2>2. QED
    BY <1>1, <1>2, <2>1, LeafGoesOn
<1>6. QED
  BY <1>4, <1>5

LEMMA LeafReturns ==
  ASSUME LeafBounded, LeafFollows, ReturnFromNode
  PROVE  LeafFollows'
<1>1. /\ leafPhase = "walking" /\ Exhausted(frames) /\ frames' = Front(frames)
      /\ leafPhase' = IF Len(frames) = 1 THEN "done" ELSE "walking"
      /\ tree' = tree /\ leaves' = leaves /\ truncated' = truncated
  BY DEF ReturnFromNode
<1>2. tree \in TreeShape /\ Branches' = Branches /\ Types' = Types
  BY <1>1, TreeKept DEF LeafFollows
<1>3. Branches \in [Objects -> Seq(Objects)]
  BY <1>2, BranchesTyped
<1>4. frames \in Seq(LeafFrame) /\ frames # <<>> /\ Len(frames) \in Nat \ {0}
      /\ frames[Len(frames)].next \in Nat \ {0}
  <2>1. frames \in Seq(LeafFrame) /\ frames # <<>> /\ Len(frames) \in Nat \ {0}
    BY <1>1, EmptySeq DEF LeafBounded
  <2>2. frames[Len(frames)] \in LeafFrame
    BY <2>1, ElementOfSeq
  <2>3. QED
    BY <2>1, <2>2 DEF LeafFrame
<1>5. ASSUME truncated = Absent
      PROVE  AllExpand(frames) /\ ~HasKid(Branches, frames)
             /\ \E trail : Reached(Branches, Types, frames, trail) /\ Lists(leaves, trail)
  <2>1. AllExpand(frames) /\ \E trail : LeafTrail(trail)
    BY <1>1, <1>5 DEF LeafFollows
  <2>2. ~HasKid(Branches, frames)
    BY <1>1, <1>2, <1>4, <2>1, StackAtKid DEF Exhausted, Top
  <2>3. QED
    BY <2>1, <2>2 DEF LeafTrail
<1>6. CASE Len(frames) = 1
  <2>1. ASSUME truncated = Absent
        PROVE  Lists(leaves, Paths)
    <3>1. PICK trail : Reached(Branches, Types, frames, trail) /\ Lists(leaves, trail)
      BY <1>5, <2>1
    <3>2. trail = PathsOf(Branches, Types)
      BY <1>3, <1>5, <1>6, <2>1, <3>1, ReachedEnd
    <3>3. QED
      BY <3>1, <3>2 DEF Paths
  <2>2. Paths' = Paths
    BY <1>2 DEF Paths
  <2>3. leafPhase' = "done"
    BY <1>1, <1>6
  <2>4. QED
    BY <1>1, <1>2, <2>1, <2>2, <2>3 DEF LeafFollows
<1>7. CASE Len(frames) # 1
  <2>1. Closed(frames, frames')
    BY <1>1, <1>4, StackCloses
  <2>2. ASSUME truncated' = Absent
        PROVE  AllExpand(frames') /\ \E trail : Reached(Branches, Types, frames', trail) /\ Lists(leaves', trail)
    <3>1. AllExpand(frames) /\ ~HasKid(Branches, frames)
      BY <1>1, <1>5, <2>2
    <3>2. PICK trail : Reached(Branches, Types, frames, trail) /\ Lists(leaves, trail)
      BY <1>1, <1>5, <2>2
    <3>3. Reached(Branches, Types, frames', trail)
      BY <1>3, <1>7, <2>1, <3>1, <3>2, ReachedClose
    <3>4. AllExpand(frames')
      <4>1. \A k \in 1..Len(frames') : k \in 1..Len(frames) /\ frames'[k].node = frames[k].node
        BY <2>1 DEF Closed, SameNodes
      <4>2. QED
        BY <3>1, <4>1 DEF AllExpand
    <3>5. QED
      BY <1>1, <3>2, <3>3, <3>4
  <2>3. leafPhase' = "walking"
    BY <1>1, <1>7
  <2>4. QED
    BY <1>1, <2>2, <2>3, LeafGoesOn
<1>8. QED
  BY <1>6, <1>7

LEMMA LeafStepsFollow ==
  ASSUME LeafBounded, LeafFollows, LeafStep
  PROVE  LeafFollows'
<1>1. CASE SkipKid
  <2>1. PICK kid \in Objects :
          /\ AtKid(kid) /\ NodeType(kid) \in {"Other", "Unresolved"} /\ frames' = Advanced(frames)
          /\ tree' = tree /\ leafPhase' = leafPhase /\ leaves' = leaves /\ truncated' = truncated
    BY <1>1 DEF SkipKid
  <2>2. Types[kid] = NodeType(kid)
    BY BranchesTyped DEF LeafFollows
  <2>3. LeadsNowhere(Branches, Types, kid)
    BY <2>1, <2>2 DEF LeadsNowhere
  <2>4. QED
    BY <2>1, <2>3, LeafPasses
<1>2. CASE StopDescent
  <2>1. PICK kid \in Objects :
          /\ AtKid(kid) /\ CrossedBound(kid) # Absent /\ frames' = Advanced(frames)
          /\ truncated' = IF truncated = Absent THEN CrossedBound(kid) ELSE truncated
          /\ tree' = tree /\ leafPhase' = leafPhase /\ leaves' = leaves
    BY <1>2 DEF StopDescent
  <2>2. truncated' # Absent
    BY <2>1
  <2>3. QED
    BY <2>1, <2>2, LeafPasses
<1>3. QED
  BY <1>1, <1>2, LeafStarts, LeafEmits, LeafDescends, LeafReturns DEF LeafStep

-----------------------------------------------------------------------------
(***************************************************************************)
(* The boxes the box walk carries down: of each kind, those of the nearest *)
(* open node that states one.                                              *)
(***************************************************************************)
States(node, kind) == ~tree[node].compressed /\ OwnBox(tree[node].dict, kind) \in Rects

NearestBox(s, i, kind, box) ==
  \/ box = Absent /\ \A k \in 1..i : ~States(s[k].node, kind)
  \/ \E k \in 1..i :
       /\ States(s[k].node, kind) /\ \A j \in 1..i : States(s[j].node, kind) => j <= k
       /\ box = [rect |-> OwnBox(tree[s[k].node].dict, kind), owner |-> s[k].node]

Carries(s) ==
  \A i \in 1..Len(s) : \A kind \in BoxKinds : NearestBox(s, i, kind, s[i].inherited[kind])

LEMMA NearestKept ==
  ASSUME NEW s, NEW t, NEW i, NEW kind, NEW box, SameNodes(s, t, i), NearestBox(s, i, kind, box)
  PROVE  NearestBox(t, i, kind, box)
BY DEF SameNodes, NearestBox

(* What a node adds to what it inherits.                                    *)
LEMMA NearestNext ==
  ASSUME tree \in TreeShape, NEW s, NEW i \in Nat, NEW kind \in BoxKinds, NEW inherited,
         i # 0 => NearestBox(s, i, kind, inherited[kind]), i = 0 => inherited[kind] = Absent,
         NEW node \in Objects, s[i + 1].node = node, Readable(tree[node].dict)
  PROVE  NearestBox(s, i + 1, kind, ApplyInherited(node, inherited)[kind])
<1> DEFINE own == OwnBox(tree[node].dict, kind)
           box == ApplyInherited(node, inherited)[kind]
           was == inherited[kind]
<1>1. own \in Rects \cup {Absent, Malformed} /\ Absent \notin Rects /\ Malformed \notin Rects
  BY DictOf, OwnBoxIs, MarksAreNoRects
<1>2. box = IF tree[node].compressed \/ own \in {Absent, Malformed}
            THEN was ELSE [rect |-> own, owner |-> node]
  BY DEF ApplyInherited
<1>3. /\ i + 1 \in 1..(i + 1) /\ (\A k \in 1..(i + 1) : k \in 1..i \/ k = i + 1)
      /\ (\A k \in 1..i : k \in 1..(i + 1)) /\ (\A k \in 1..(i + 1) : k <= i + 1)
      /\ (i = 0 => 1..i = {})
  OBVIOUS
<1> HIDE DEF own, box, was
<1>4. CASE States(node, kind)
  <2>1. own \in Rects /\ ~tree[node].compressed
    BY <1>4 DEF States, own
  <2>2. box = [rect |-> own, owner |-> node]
    BY <1>1, <1>2, <2>1
  <2>3. NearestBox(s, i + 1, kind, box)
    BY <1>3, <1>4, <2>2 DEF NearestBox, own
  <2>4. QED
    BY <2>3 DEF box
<1>5. CASE ~States(node, kind)
  <2>1. tree[node].compressed \/ own \in {Absent, Malformed}
    BY <1>1, <1>5, DictOf DEF States, own
  <2>2. box = was
    BY <1>2, <2>1
  <2>3. CASE i = 0
    <3>1. \A k \in 1..(i + 1) : ~States(s[k].node, kind)
      BY <1>3, <1>5, <2>3
    <3>2. NearestBox(s, i + 1, kind, box)
      BY <2>2, <2>3, <3>1 DEF NearestBox, was
    <3>3. QED
      BY <3>2 DEF box
  <2>4. CASE i # 0
    <3>1. NearestBox(s, i, kind, box)
      BY <2>2, <2>4 DEF was
    <3>2. NearestBox(s, i + 1, kind, box)
      BY <1>3, <1>5, <3>1, Zenon DEF NearestBox
    <3>3. QED
      BY <3>2 DEF box
  <2>5. QED
    BY <2>3, <2>4
<1>6. QED
  BY <1>4, <1>5

(* The boxes of a leaf under the open calls.                                *)
LEMMA LeafBoxIs ==
  ASSUME tree \in TreeShape, NEW s, Len(s) \in Nat \ {0}, NEW leaf \in Objects,
         Readable(tree[leaf].dict), NEW kind \in BoxKinds, NEW inherited,
         NearestBox(s, Len(s), kind, inherited),
         Len(PathTo(s, leaf)) = Len(s) + 1
  PROVE  /\ Resolved(OwnBox(tree[leaf].dict, kind), leaf, inherited) = EffectiveBox(PathTo(s, leaf), kind)
         /\ Last(PathTo(s, leaf)) = leaf
<1> DEFINE path == PathTo(s, leaf)
           n == Len(s)
           own == OwnBox(tree[leaf].dict, kind)
           stating == Stating(path, kind)
           nearest == CHOOSE i \in stating : \A j \in stating : j <= i
<1>1. n \in Nat \ {0} /\ path[n + 1] = leaf /\ \A k \in 1..n : path[k] = s[k].node
  <2>1. n + 1 \in 1..(n + 1) /\ ~(n + 1 <= n) /\ \A k \in 1..n : k \in 1..(n + 1) /\ k <= n
    OBVIOUS
  <2>2. QED
    BY <2>1 DEF PathTo
<1>2. Last(path) = leaf /\ Ancestors(path) = 1..n
  <2> HIDE DEF path
  <2>1. Len(path) = n + 1
    BY DEF path
  <2>2. (n + 1) - 1 = n
    BY <1>1
  <2>3. QED
    BY <1>1, <2>1, <2>2 DEF Last, Ancestors
<1> HIDE DEF path
<1>3. stating = {k \in 1..n : States(s[k].node, kind)}
  BY <1>1, <1>2 DEF Stating, States
<1>4. EffectiveBox(path, kind)
        = IF own \in Rects THEN [rect |-> own, owner |-> leaf]
          ELSE IF own = Malformed THEN Malformed
          ELSE IF stating = {} THEN Absent
          ELSE [rect |-> OwnBox(tree[path[nearest]].dict, kind), owner |-> path[nearest]]
  BY <1>2, Zenon DEF EffectiveBox
<1>5. own \in Rects \cup {Absent, Malformed} /\ Absent \notin Rects /\ Malformed \notin Rects
      /\ Absent # Malformed
  BY DictOf, OwnBoxIs, MarksAreNoRects
<1>6. ASSUME own = Absent
      PROVE  inherited = IF stating = {} THEN Absent
                         ELSE [rect |-> OwnBox(tree[path[nearest]].dict, kind), owner |-> path[nearest]]
  <2> HIDE DEF stating, nearest
  <2>1. CASE inherited = Absent /\ \A k \in 1..n : ~States(s[k].node, kind)
    <3>1. stating = {}
      BY <1>3, <2>1
    <3>2. QED
      BY <2>1, <3>1
  <2>2. ASSUME NEW k \in 1..n, States(s[k].node, kind),
               \A j \in 1..n : States(s[j].node, kind) => j <= k,
               inherited = [rect |-> OwnBox(tree[s[k].node].dict, kind), owner |-> s[k].node]
        PROVE  inherited = IF stating = {} THEN Absent
                           ELSE [rect |-> OwnBox(tree[path[nearest]].dict, kind), owner |-> path[nearest]]
    <3>1. k \in stating /\ (\A j \in stating : j <= k) /\ \A j \in stating : j \in 1..n
      BY <1>3, <2>2
    <3>2. nearest \in stating /\ \A j \in stating : j <= nearest
      BY <3>1 DEF nearest
    <3>3. nearest = k
      BY <1>1, <3>1, <3>2
    <3>4. path[nearest] = s[k].node
      BY <1>1, <3>3
    <3>5. QED
      BY <2>2, <3>1, <3>4, Zenon
  <2>3. QED
    BY <2>1, <2>2 DEF NearestBox
<1> HIDE DEF own, stating, nearest
<1>7. Resolved(own, leaf, inherited) = EffectiveBox(path, kind)
  <2>1. Resolved(own, leaf, inherited)
          = IF own = Absent THEN inherited ELSE IF own = Malformed THEN Malformed
            ELSE [rect |-> own, owner |-> leaf]
    BY DEF Resolved
  <2>2. CASE own = Absent
    BY <1>4, <1>5, <1>6, <2>1, <2>2, Zenon
  <2>3. CASE own # Absent
    BY <1>4, <1>5, <2>1, <2>3
  <2>4. QED
    BY <2>2, <2>3
<1>8. QED
  BY <1>2, <1>7 DEF own, path

(* The stack of the box walk.                                               *)
LEMMA BoxMoves ==
  ASSUME NEW boxes, boxFrames \in Seq(BoxFrame(boxes)), boxFrames # <<>>
  PROVE  /\ Moved(boxFrames, BoxAdvanced) /\ BoxAdvanced \in Seq(BoxFrame(boxes))
         /\ \A i \in 1..Len(boxFrames) : BoxAdvanced[i].inherited = boxFrames[i].inherited
<1> DEFINE n == Len(boxFrames)
           moved == [boxFrames[n] EXCEPT !.next = @ + 1]
<1>1. n \in Nat \ {0} /\ \A i \in 1..n : boxFrames[i] \in BoxFrame(boxes)
  BY EmptySeq, ElementOfSeq
<1>2. boxFrames[n] \in BoxFrame(boxes) /\ n \in 1..n
  BY <1>1
<1>3. moved \in BoxFrame(boxes) /\ moved.node = boxFrames[n].node /\ moved.next = boxFrames[n].next + 1
      /\ moved.inherited = boxFrames[n].inherited
  BY <1>2 DEF BoxFrame
<1>4. BoxAdvanced = [boxFrames EXCEPT ![n] = moved]
  BY DEF BoxAdvanced
<1> HIDE DEF moved
<1>5. /\ BoxAdvanced \in Seq(BoxFrame(boxes)) /\ Len(BoxAdvanced) = n
      /\ \A i \in 1..n : BoxAdvanced[i] = IF i = n THEN moved ELSE boxFrames[i]
  BY <1>1, <1>2, <1>3, <1>4, ExceptSeq
<1>6. SameNodes(boxFrames, BoxAdvanced, n)
  BY <1>3, <1>5 DEF SameNodes
<1>7. /\ \A i \in 1..n : BoxAdvanced[i].inherited = boxFrames[i].inherited
      /\ \A i \in 1..n : BoxAdvanced[i].next = IF i = n THEN boxFrames[i].next + 1 ELSE boxFrames[i].next
  BY <1>3, <1>5
<1>8. QED
  BY <1>1, <1>5, <1>6, <1>7 DEF Moved

-----------------------------------------------------------------------------
(***************************************************************************)
(* What a box walk has reported when its trail is this.                    *)
(***************************************************************************)
Slots(list, k) == {i \in 1..Len(list) : list[i].page_index = k}

Reported(list, trail) ==
  /\ trail \in PathSeq /\ list \in Seq(PageReport)
  /\ \A i \in 1..Len(list) :
       /\ list[i].page_index \in Nat /\ list[i].page_index < Len(trail)
       /\ list[i] = PageFor(trail[list[i].page_index + 1], list[i].page_index)
  /\ \A k \in Nat : k < Len(trail) => (Editable(trail[k + 1]) <=> Slots(list, k) # {})

LEMMA ReportedRefused ==
  ASSUME NEW list, NEW trail, NEW path, NEW more, Reported(list, trail), Longer(trail, path, more),
         ~Editable(path)
  PROVE  Reported(list, more)
<1>1. /\ more \in PathSeq /\ Len(trail) \in Nat /\ Len(more) = Len(trail) + 1
      /\ more[Len(trail) + 1] = path /\ \A j \in 1..Len(trail) : more[j] = trail[j]
  BY DEF Longer
<1>2. /\ trail \in PathSeq /\ list \in Seq(PageReport)
      /\ \A i \in 1..Len(list) :
           /\ list[i].page_index \in Nat /\ list[i].page_index < Len(trail)
           /\ list[i] = PageFor(trail[list[i].page_index + 1], list[i].page_index)
      /\ \A k \in Nat : k < Len(trail) => (Editable(trail[k + 1]) <=> Slots(list, k) # {})
  BY DEF Reported
<1>3. ASSUME NEW i \in 1..Len(list)
      PROVE  /\ list[i].page_index \in Nat /\ list[i].page_index < Len(more)
             /\ list[i] = PageFor(more[list[i].page_index + 1], list[i].page_index)
  <2>1. PICK k \in Nat : k = list[i].page_index /\ k < Len(trail)
    BY <1>2
  <2>2. k + 1 \in 1..Len(trail) /\ k < Len(more)
    BY <1>1, <2>1
  <2>3. more[k + 1] = trail[k + 1] /\ list[i] = PageFor(trail[k + 1], k)
    BY <1>1, <1>2, <2>1, <2>2
  <2>4. QED
    BY <2>1, <2>2, <2>3
<1>4. ASSUME NEW k \in Nat, k < Len(more)
      PROVE  Editable(more[k + 1]) <=> Slots(list, k) # {}
  <2>1. CASE k < Len(trail)
    <3>1. k + 1 \in 1..Len(trail)
      BY <1>1, <2>1
    <3>2. QED
      BY <1>1, <1>2, <2>1, <3>1
  <2>2. CASE ~(k < Len(trail))
    <3>1. k = Len(trail)
      BY <1>1, <1>4, <2>2
    <3>2. Slots(list, k) = {}
      BY <1>2, <2>2 DEF Slots
    <3>3. more[k + 1] = path
      BY <1>1, <3>1
    <3>4. QED
      BY <3>2, <3>3
  <2>3. QED
    BY <2>1, <2>2
<1>5. QED
  BY <1>1, <1>2, <1>3, <1>4 DEF Reported

LEMMA ReportedMore ==
  ASSUME NEW list, NEW trail, NEW path, NEW more, Reported(list, trail), Longer(trail, path, more),
         Editable(path), NEW page \in PageReport, page = PageFor(path, Len(trail)),
         page.page_index = Len(trail)
  PROVE  Reported(Append(list, page), more)
<1> DEFINE longer == Append(list, page)
<1>1. /\ more \in PathSeq /\ Len(trail) \in Nat /\ Len(more) = Len(trail) + 1
      /\ more[Len(trail) + 1] = path /\ \A j \in 1..Len(trail) : more[j] = trail[j]
  BY DEF Longer
<1>2. /\ trail \in PathSeq /\ list \in Seq(PageReport)
      /\ \A i \in 1..Len(list) :
           /\ list[i].page_index \in Nat /\ list[i].page_index < Len(trail)
           /\ list[i] = PageFor(trail[list[i].page_index + 1], list[i].page_index)
      /\ \A k \in Nat : k < Len(trail) => (Editable(trail[k + 1]) <=> Slots(list, k) # {})
  BY DEF Reported
<1>3. /\ Len(list) \in Nat /\ longer \in Seq(PageReport) /\ Len(longer) = Len(list) + 1
      /\ longer[Len(list) + 1] = page /\ \A i \in 1..Len(list) : longer[i] = list[i]
  BY <1>2, LenProperties, AppendProperties
<1> HIDE DEF longer
<1>4. \A i \in 1..Len(longer) : i \in 1..Len(list) \/ i = Len(list) + 1
  BY <1>3
<1>5. ASSUME NEW i \in 1..Len(longer)
      PROVE  /\ longer[i].page_index \in Nat /\ longer[i].page_index < Len(more)
             /\ longer[i] = PageFor(more[longer[i].page_index + 1], longer[i].page_index)
  <2>1. CASE i \in 1..Len(list)
    <3>1. longer[i] = list[i]
      BY <1>3, <2>1
    <3>2. PICK k \in Nat : k = list[i].page_index /\ k < Len(trail)
      BY <1>2, <2>1
    <3>3. k + 1 \in 1..Len(trail) /\ k < Len(more)
      BY <1>1, <3>2
    <3>4. more[k + 1] = trail[k + 1] /\ list[i] = PageFor(trail[k + 1], k)
      BY <1>1, <1>2, <2>1, <3>2, <3>3
    <3>5. QED
      BY <3>1, <3>2, <3>3, <3>4
  <2>2. CASE i = Len(list) + 1
    <3>1. longer[i] = page /\ longer[i].page_index = Len(trail) /\ more[Len(trail) + 1] = path
      BY <1>1, <1>3, <2>2
    <3>2. Len(trail) < Len(more)
      BY <1>1
    <3>3. QED
      BY <1>1, <3>1, <3>2
  <2>3. QED
    BY <1>4, <2>1, <2>2
<1>6. ASSUME NEW k \in Nat, k < Len(more)
      PROVE  Editable(more[k + 1]) <=> Slots(longer, k) # {}
  <2>1. CASE k < Len(trail)
    <3>1. k + 1 \in 1..Len(trail) /\ k # Len(trail)
      BY <1>1, <2>1
    <3>2. (\A i \in 1..Len(list) : i \in 1..Len(longer)) /\ page.page_index # k
      BY <1>3, <3>1
    <3>3. Slots(longer, k) = Slots(list, k)
      <4>1. \A i : i \in Slots(longer, k) <=> i \in Slots(list, k)
        BY <1>3, <1>4, <3>2 DEF Slots
      <4>2. QED
        BY <4>1
    <3>4. Editable(trail[k + 1]) <=> Slots(list, k) # {}
      BY <1>2, <2>1
    <3>5. more[k + 1] = trail[k + 1]
      BY <1>1, <3>1
    <3>6. QED
      BY <3>3, <3>4, <3>5
  <2>2. CASE ~(k < Len(trail))
    <3>1. k = Len(trail)
      BY <1>1, <1>6, <2>2
    <3>2. Len(list) + 1 \in Slots(longer, k)
      <4>1. Len(list) + 1 \in 1..Len(longer)
        BY <1>3
      <4>2. QED
        BY <1>3, <3>1, <4>1 DEF Slots
    <3>3. more[k + 1] = path
      BY <1>1, <3>1
    <3>4. QED
      BY <3>2, <3>3
  <2>3. QED
    BY <2>1, <2>2
<1>7. QED
  BY <1>1, <1>3, <1>5, <1>6 DEF Reported, longer

LEMMA ReportedNothing ==
  Reported(<<>>, <<>>)
<1>1. Len(<<>>) = 0 /\ 1..0 = {} /\ \A k \in Nat : ~(k < 0)
  OBVIOUS
<1>2. <<>> \in PathSeq /\ <<>> \in Seq(PageReport)
  BY DEF PathSeq
<1>3. \A i \in 1..Len(<<>>) : FALSE
  BY <1>1
<1>4. QED
  BY <1>1, <1>2, <1>3 DEF Reported

(* What is reported depends on the tree alone.                              *)
LEMMA ReportsKept ==
  ASSUME tree' = tree
  PROVE  /\ \A path, k : PageFor(path, k)' = PageFor(path, k) /\ Editable(path)' = Editable(path)
         /\ \A list, trail : Reported(list, trail) => Reported(list, trail)'
<1>1. \A path, kind : Stating(path, kind)' = Stating(path, kind)
  BY DEF Stating
<1>2. \A path, kind : EffectiveBox(path, kind)' = EffectiveBox(path, kind)
  BY <1>1 DEF EffectiveBox
<1>3. \A path, k : PageFor(path, k)' = PageFor(path, k) /\ Editable(path)' = Editable(path)
  BY <1>2 DEF PageFor, Editable
<1>4. QED
  BY <1>3 DEF Reported

-----------------------------------------------------------------------------
(***************************************************************************)
(* The box walk, until a bound stops it: it has reported the paths of its  *)
(* trail, and carries for each open call the boxes stated nearest.         *)
(***************************************************************************)
BoxTrail(trail) ==
  /\ IF boxFrames = <<>> THEN trail = Paths ELSE Reached(Branches, Types, boxFrames, trail)
  /\ page_index = Len(trail) /\ Reported(pages, trail)

SkipReport == [page_index : Nat \cup {Absent}, kid : Objects, reason : BoxSkipReasons]

BoxFollows ==
  /\ boxSkips \in Seq(SkipReport)
  /\ boxPhase = "idle" => boxFrames = <<>> /\ page_index = 0 /\ pages = <<>>
  /\ boxPhase = "done" => boxFrames = <<>>
  /\ boxPhase # "idle" /\ Truncations = {} =>
       /\ AllExpand(boxFrames) /\ Carries(boxFrames)
       /\ \E trail : BoxTrail(trail)

LEMMA TruncationsGrow ==
  ASSUME NEW list \in Seq(SkipReport), NEW e \in SkipReport, NEW more, more = Append(list, e)
  PROVE  /\ more \in Seq(SkipReport)
         /\ {i \in 1..Len(more) : more[i].reason \in TruncationReasons} = {} =>
              /\ {i \in 1..Len(list) : list[i].reason \in TruncationReasons} = {}
              /\ e.reason \notin TruncationReasons
<1>1. /\ Len(list) \in Nat /\ more \in Seq(SkipReport) /\ Len(more) = Len(list) + 1
      /\ more[Len(list) + 1] = e /\ \A i \in 1..Len(list) : more[i] = list[i]
  BY LenProperties, AppendProperties
<1>2. Len(list) + 1 \in 1..Len(more) /\ \A i \in 1..Len(list) : i \in 1..Len(more)
  BY <1>1
<1>3. ASSUME {i \in 1..Len(more) : more[i].reason \in TruncationReasons} = {}
      PROVE  /\ {i \in 1..Len(list) : list[i].reason \in TruncationReasons} = {}
             /\ e.reason \notin TruncationReasons
  <2>1. \A i \in 1..Len(more) : more[i].reason \notin TruncationReasons
    BY <1>3
  <2>2. \A i \in 1..Len(list) : list[i].reason \notin TruncationReasons
    BY <1>1, <1>2, <2>1
  <2>3. e.reason \notin TruncationReasons
    BY <1>1, <1>2, <2>1
  <2>4. QED
    BY <2>2, <2>3
<1>4. QED
  BY <1>1, <1>3

LEMMA SkipsMore ==
  ASSUME boxSkips \in Seq(SkipReport), NEW index \in Nat \cup {Absent}, NEW kid \in Objects,
         NEW reason \in BoxSkipReasons, BoxSkip(index, kid, reason)
  PROVE  /\ boxSkips' \in Seq(SkipReport)
         /\ Truncations' = {} => Truncations = {} /\ reason \notin TruncationReasons
<1> DEFINE e == [page_index |-> index, kid |-> kid, reason |-> reason]
<1>1. e \in SkipReport /\ e.reason = reason
  BY DEF SkipReport
<1>2. boxSkips' = Append(boxSkips, e)
  BY DEF BoxSkip
<1> HIDE DEF e
<1>3. /\ boxSkips' \in Seq(SkipReport)
      /\ {i \in 1..Len(boxSkips') : boxSkips'[i].reason \in TruncationReasons} = {} =>
           /\ {i \in 1..Len(boxSkips) : boxSkips[i].reason \in TruncationReasons} = {}
           /\ e.reason \notin TruncationReasons
  BY <1>1, <1>2, TruncationsGrow
<1>4. QED
  BY <1>1, <1>3 DEF Truncations

(* The walk goes on, with the trail it has then.                            *)
LEMMA BoxGoesOn ==
  ASSUME tree' = tree, tree \in TreeShape, boxSkips' \in Seq(SkipReport), boxPhase' = "walking",
         Truncations' = {} =>
           /\ AllExpand(boxFrames') /\ Carries(boxFrames')
           /\ \E trail : /\ IF boxFrames' = <<>> THEN trail = Paths
                            ELSE Reached(Branches, Types, boxFrames', trail)
                         /\ page_index' = Len(trail) /\ Reported(pages', trail)
  PROVE  BoxFollows'
<1>1. Branches' = Branches /\ Types' = Types
  BY TreeKept
<1>2. Paths' = Paths
  BY <1>1 DEF Paths
<1>3. ASSUME Truncations' = {}
      PROVE  AllExpand(boxFrames)' /\ Carries(boxFrames)' /\ (\E trail : BoxTrail(trail))'
  <2>1. AllExpand(boxFrames)'
    BY <1>3 DEF AllExpand, Expands, Kids
  <2>2. Carries(boxFrames)'
    <3>1. \A node, kind : States(node, kind)' = States(node, kind)
      BY DEF States
    <3>2. Carries(boxFrames')
      BY <1>3
    <3>3. QED
      BY <3>1, <3>2 DEF Carries, NearestBox
  <2>3. PICK trail : /\ IF boxFrames' = <<>> THEN trail = Paths
                        ELSE Reached(Branches, Types, boxFrames', trail)
                     /\ page_index' = Len(trail) /\ Reported(pages', trail)
    BY <1>3
  <2>4. Reported(pages, trail)'
    <3>1. \A path, k : PageFor(path, k)' = PageFor(path, k) /\ Editable(path)' = Editable(path)
      BY ReportsKept
    <3>2. QED
      BY <2>3, <3>1 DEF Reported, Slots
  <2>5. BoxTrail(trail)'
    BY <1>1, <1>2, <2>3, <2>4 DEF BoxTrail
  <2>6. QED
    BY <2>1, <2>2, <2>5
<1>4. QED
  BY <1>3 DEF BoxFollows

(* The walk at a kid of the top call.                                       *)
BoxAt(kid, trail) ==
  /\ Len(boxFrames) \in Nat \ {0} /\ boxFrames # <<>>
  /\ AllExpand(boxFrames) /\ Carries(boxFrames)
  /\ Reached(Branches, Types, boxFrames, trail) /\ trail \in PathSeq
  /\ page_index = Len(trail) /\ Reported(pages, trail)
  /\ HasKid(Branches, boxFrames) /\ KidAt(Branches, boxFrames) = kid /\ kid \in Objects
  /\ Types[kid] = NodeType(kid) /\ TopFrame = boxFrames[Len(boxFrames)]
  /\ boxFrames \in Seq(BoxFrame(StatedBoxes(tree)))
  /\ Moved(boxFrames, BoxAdvanced) /\ BoxAdvanced \in Seq(BoxFrame(StatedBoxes(tree)))
  /\ AllExpand(BoxAdvanced) /\ Carries(BoxAdvanced)

LEMMA CarriedOn ==
  ASSUME NEW s, NEW t, Carries(s), Len(t) \in Nat, Len(s) \in Nat, Len(t) <= Len(s),
         SameNodes(s, t, Len(t)), \A i \in 1..Len(t) : t[i].inherited = s[i].inherited
  PROVE  Carries(t)
<1>1. ASSUME NEW i \in 1..Len(t), NEW kind \in BoxKinds
      PROVE  NearestBox(t, i, kind, t[i].inherited[kind])
  <2>1. i \in 1..Len(s) /\ \A k \in 1..i : k \in 1..Len(t)
    OBVIOUS
  <2>2. NearestBox(s, i, kind, s[i].inherited[kind]) /\ t[i].inherited = s[i].inherited
    BY <2>1 DEF Carries
  <2>3. SameNodes(s, t, i)
    BY <2>1 DEF SameNodes
  <2>4. NearestBox(t, i, kind, s[i].inherited[kind])
    BY <2>2, <2>3, NearestKept
  <2>5. QED
    BY <2>2, <2>4
<1>2. QED
  BY <1>1 DEF Carries

LEMMA ReachedNext ==
  ASSUME NEW br \in [Objects -> Seq(Objects)], NEW ty, NEW s, NEW trail,
         Reached(br, ty, s, trail), Len(s) \in Nat \ {0}
  PROVE  s[Len(s)].next \in Nat \ {0}
<1>1. PICK marks : Walked(br, ty, s, marks, trail)
  BY DEF Reached
<1>2. Len(s) \in 1..Len(s)
  OBVIOUS
<1>3. AtOpen(br, ty, s, marks, trail, Len(s))
  BY <1>1, <1>2, OpenFacts
<1>4. QED
  BY <1>3 DEF AtOpen

LEMMA BoxAtKid ==
  ASSUME BoxesInv, BoxFollows, Truncations = {}, NEW kid \in Objects, AtBoxKid(kid)
  PROVE  \E trail : BoxAt(kid, trail)
<1>1. /\ boxPhase = "walking" /\ boxFrames # <<>>
      /\ TopFrame.next <= Len(Kids(TopFrame.node)) /\ kid = Kids(TopFrame.node)[TopFrame.next]
      /\ TopFrame = boxFrames[Len(boxFrames)]
  BY DEF AtBoxKid, TopFrame
<1>2. tree \in TreeShape /\ boxFrames \in Seq(BoxFrame(StatedBoxes(tree)))
  BY DEF BoxesInv
<1>3. AllExpand(boxFrames) /\ Carries(boxFrames)
  BY <1>1 DEF BoxFollows
<1>4. PICK trail : Reached(Branches, Types, boxFrames, trail) /\ page_index = Len(trail)
                   /\ Reported(pages, trail)
  BY <1>1 DEF BoxFollows, BoxTrail
<1>5. Branches \in [Objects -> Seq(Objects)] /\ Types[kid] = NodeType(kid)
  BY <1>2, BranchesTyped
<1>6. Len(boxFrames) \in Nat \ {0}
  BY <1>1, <1>2, EmptySeq
<1>7. boxFrames[Len(boxFrames)].next \in Nat \ {0}
  BY <1>4, <1>5, <1>6, ReachedNext
<1>8. HasKid(Branches, boxFrames) /\ KidAt(Branches, boxFrames) = kid
  <2>1. /\ HasKid(Branches, boxFrames) <=> ~(TopFrame.next > Len(Kids(TopFrame.node)))
        /\ KidAt(Branches, boxFrames) = kid
    BY <1>1, <1>2, <1>3, <1>6, <1>7, StackAtKid
  <2>2. TopFrame.next \in Nat /\ Len(Kids(TopFrame.node)) \in Nat
    <3>1. Len(boxFrames) \in 1..Len(boxFrames)
      BY <1>6
    <3>2. TopFrame.node \in Objects /\ Expands(TopFrame.node)
      BY <1>1, <1>3, <3>1 DEF AllExpand
    <3>3. Kids(TopFrame.node) \in Seq(Objects)
      BY <1>2, <3>2, BranchesTyped
    <3>4. QED
      BY <1>1, <1>7, <3>3, LenProperties
  <2>3. QED
    BY <1>1, <2>1, <2>2
<1>9. /\ Moved(boxFrames, BoxAdvanced) /\ BoxAdvanced \in Seq(BoxFrame(StatedBoxes(tree)))
      /\ \A i \in 1..Len(boxFrames) : BoxAdvanced[i].inherited = boxFrames[i].inherited
  BY <1>1, <1>2, BoxMoves
<1>10. AllExpand(BoxAdvanced)
  BY <1>3, <1>9, MovedExpands
<1>11. Carries(BoxAdvanced)
  <2>1. Len(BoxAdvanced) = Len(boxFrames) /\ SameNodes(boxFrames, BoxAdvanced, Len(boxFrames))
    BY <1>9 DEF Moved
  <2>2. QED
    BY <1>3, <1>6, <1>9, <2>1, CarriedOn
<1>12. trail \in PathSeq
  BY <1>4 DEF Reported
<1>13. QED
  BY <1>1, <1>2, <1>3, <1>4, <1>5, <1>6, <1>8, <1>9, <1>10, <1>11, <1>12 DEF BoxAt

(* Past a kid that nothing leads through.                                   *)
LEMMA BoxPasses ==
  ASSUME BoxesInv, BoxFollows, NEW kid \in Objects, AtBoxKid(kid), boxFrames' = BoxAdvanced,
         tree' = tree, boxPhase' = boxPhase, UNCHANGED <<page_index, pages>>,
         boxSkips' \in Seq(SkipReport),
         Truncations' = {} => Truncations = {} /\ LeadsNowhere(Branches, Types, kid)
  PROVE  BoxFollows'
<1>1. boxPhase' = "walking" /\ tree \in TreeShape
  BY DEF AtBoxKid, BoxesInv
<1>2. ASSUME Truncations' = {}
      PROVE  /\ AllExpand(boxFrames') /\ Carries(boxFrames')
             /\ \E trail : /\ IF boxFrames' = <<>> THEN trail = Paths
                              ELSE Reached(Branches, Types, boxFrames', trail)
                           /\ page_index' = Len(trail) /\ Reported(pages', trail)
  <2>1. PICK trail : BoxAt(kid, trail)
    BY <1>2, BoxAtKid
  <2>2. /\ Reached(Branches, Types, boxFrames, trail) /\ page_index = Len(trail) /\ Reported(pages, trail)
        /\ HasKid(Branches, boxFrames) /\ KidAt(Branches, boxFrames) = kid
        /\ Moved(boxFrames, boxFrames') /\ AllExpand(boxFrames') /\ Carries(boxFrames')
    BY <2>1 DEF BoxAt
  <2>3. Branches \in [Objects -> Seq(Objects)] /\ LeadsNowhere(Branches, Types, KidAt(Branches, boxFrames))
    BY <1>1, <1>2, <2>2, BranchesTyped
  <2>4. Reached(Branches, Types, boxFrames', trail)
    BY <2>2, <2>3, ReachedPast
  <2>5. boxFrames' # <<>>
    <3>1. Len(boxFrames') \in Nat \ {0}
      BY <2>2 DEF Moved
    <3>2. Len(<<>>) = 0
      OBVIOUS
    <3>3. QED
      BY <3>1, <3>2
  <2>6. QED
    BY <2>2, <2>4, <2>5
<1>3. QED
  BY <1>1, <1>2, BoxGoesOn

(* Past a leaf: what is reported of it is what its path gives.              *)
LEMMA LeafReportIs ==
  ASSUME tree \in TreeShape, NEW kid \in Objects, NEW trail \in PathSeq, NodeType(kid) = "Page",
         Len(boxFrames) \in Nat \ {0}, AllExpand(boxFrames), Carries(boxFrames),
         TopFrame = boxFrames[Len(boxFrames)]
  PROVE  LET path == PathTo(boxFrames, kid)
             media == LeafBox(kid, "MediaBox")
         IN  /\ Longer(trail, path, Append(trail, path))
             /\ LeafRefusal(kid) = Absent <=> Editable(path)
             /\ PageFor(path, page_index)
                  = [page_index |-> page_index, leaf |-> kid, media |-> media,
                     crop |-> CropOrMedia(LeafBox(kid, "CropBox"), media)]
<1> DEFINE path == PathTo(boxFrames, kid)
           media == LeafBox(kid, "MediaBox")
           crop == LeafBox(kid, "CropBox")
<1>1. Readable(tree[kid].dict)
  BY DEF NodeType
<1>2. Len(boxFrames) \in Nat \ {0} /\ AllExpand(boxFrames) /\ Carries(boxFrames) /\ trail \in PathSeq
  OBVIOUS
<1>3. Len(boxFrames) \in 1..Len(boxFrames) /\ \A i \in 1..Len(boxFrames) : boxFrames[i].node \in Objects
  BY <1>2 DEF AllExpand
<1>4. Longer(trail, path, Append(trail, path)) /\ Len(path) = Len(boxFrames) + 1
  <2> DEFINE list == [i \in 1..Len(trail) |-> Last(trail[i])]
             more == Append(trail, path)
  <2>1. path \in Seq(Objects) /\ Len(path) = Len(boxFrames) + 1
    <3>1. Len(boxFrames) + 1 \in Nat
      BY <1>2
    <3>2. path \in [1..(Len(boxFrames) + 1) -> Objects]
      BY <1>1, <1>3 DEF PathTo
    <3> HIDE DEF path
    <3>3. path \in Seq(Objects)
      BY <3>1, <3>2
    <3>4. DOMAIN path = 1..(Len(boxFrames) + 1) /\ DOMAIN path = 1..Len(path) /\ Len(path) \in Nat
      BY <3>2, <3>3, LenProperties
    <3>5. QED
      BY <3>1, <3>3, <3>4
  <2> HIDE DEF path
  <2>2. /\ more \in PathSeq /\ Len(trail) \in Nat /\ Len(more) = Len(trail) + 1
        /\ more[Len(trail) + 1] = path /\ \A j \in 1..Len(trail) : more[j] = trail[j]
    BY <1>2, <2>1, LenProperties, AppendProperties DEF PathSeq
  <2> HIDE DEF more
  <2>3. Longer(trail, path, more)
    BY <2>2 DEF Longer
  <2>4. QED
    BY <2>1, <2>3 DEF more
<1>5. ASSUME NEW kind \in BoxKinds
      PROVE  LeafBox(kid, kind) = EffectiveBox(path, kind) /\ Last(path) = kid
  <2>1. NearestBox(boxFrames, Len(boxFrames), kind, TopFrame.inherited[kind])
    BY <1>2, <1>3 DEF Carries
  <2>2. Resolved(OwnBox(tree[kid].dict, kind), kid, TopFrame.inherited[kind])
          = EffectiveBox(PathTo(boxFrames, kid), kind)
        /\ Last(PathTo(boxFrames, kid)) = kid
    BY <1>1, <1>2, <1>4, <2>1, LeafBoxIs
  <2>3. QED
    BY <2>2 DEF LeafBox
<1>6. "MediaBox" \in BoxKinds /\ "CropBox" \in BoxKinds /\ \A kind \in BoxKinds : kind = "MediaBox" \/ kind = "CropBox"
  BY DEF BoxKinds
<1>7. EffectiveBox(path, "MediaBox") = media /\ EffectiveBox(path, "CropBox") = crop /\ Last(path) = kid
  BY <1>5, <1>6
<1> HIDE DEF path, media, crop
<1>8. LeafRefusal(kid) = Absent <=> Editable(path)
  <2>1. Editable(path) <=> ~tree[kid].compressed /\ media \notin {Absent, Malformed} /\ crop # Malformed
    BY <1>7 DEF Editable
  <2>2. Malformed \in {LeafBox(kid, kind) : kind \in BoxKinds} <=> media = Malformed \/ crop = Malformed
    BY <1>6 DEF media, crop
  <2>3. LeafRefusal(kid) = IF tree[kid].compressed THEN "CompressedLeafDictionary"
                           ELSE IF media = Absent THEN "MissingEffectiveMediaBox"
                           ELSE IF Malformed \in {LeafBox(kid, kind) : kind \in BoxKinds} THEN "UnusableBox"
                           ELSE Absent
    BY DEF LeafRefusal, media
  <2>4. Absent # "CompressedLeafDictionary" /\ Absent # "MissingEffectiveMediaBox" /\ Absent # "UnusableBox"
    BY AbsentIsNoBox DEF BoxSkipReasons
  <2>5. QED
    BY <2>1, <2>2, <2>3, <2>4
<1>9. PageFor(path, page_index)
        = [page_index |-> page_index, leaf |-> kid, media |-> media, crop |-> CropOrMedia(crop, media)]
  BY <1>7, Zenon DEF PageFor, CropOrMedia
<1>10. QED
  BY <1>4, <1>8, <1>9 DEF path, media, crop

LEMMA BoxReachesLeaf ==
  ASSUME BoxesInv, NEW kid, NEW trail, BoxAt(kid, trail), NodeType(kid) = "Page",
         boxFrames' = BoxAdvanced, NEW more, Longer(trail, PathTo(boxFrames, kid), more)
  PROVE  /\ AllExpand(boxFrames') /\ Carries(boxFrames') /\ boxFrames' # <<>>
         /\ Reached(Branches, Types, boxFrames', more)
<1>1. /\ Reached(Branches, Types, boxFrames, trail) /\ Types[kid] = "Page"
      /\ HasKid(Branches, boxFrames) /\ KidAt(Branches, boxFrames) = kid
      /\ Moved(boxFrames, boxFrames') /\ AllExpand(boxFrames') /\ Carries(boxFrames')
  BY DEF BoxAt
<1>2. Branches \in [Objects -> Seq(Objects)]
  BY BranchesTyped DEF BoxesInv
<1>3. Types[KidAt(Branches, boxFrames)] = "Page"
      /\ Longer(trail, PathTo(boxFrames, KidAt(Branches, boxFrames)), more)
  BY <1>1
<1>4. Reached(Branches, Types, boxFrames', more)
  BY <1>1, <1>2, <1>3, ReachedLeaf
<1>5. boxFrames' # <<>>
  <2>1. Len(boxFrames') \in Nat \ {0} /\ Len(<<>>) = 0
    BY <1>1 DEF Moved
  <2>2. QED
    BY <2>1
<1>6. QED
  BY <1>1, <1>4, <1>5

LEMMA BoxReports ==
  ASSUME BoxesInv, BoxFollows, ReportLeaf
  PROVE  BoxFollows'
<1>1. PICK leaf \in Objects :
        /\ AtBoxKid(leaf) /\ NodeType(leaf) = "Page" /\ LeafRefusal(leaf) = Absent
        /\ LET media == LeafBox(leaf, "MediaBox")
           IN  pages' = Append(pages, [page_index |-> page_index, leaf |-> leaf, media |-> media,
                                       crop |-> CropOrMedia(LeafBox(leaf, "CropBox"), media)])
        /\ page_index' = page_index + 1 /\ boxFrames' = BoxAdvanced
        /\ tree' = tree /\ boxPhase' = boxPhase /\ boxSkips' = boxSkips
  BY DEF ReportLeaf, CountLeaf
<1>2. boxPhase' = "walking" /\ tree \in TreeShape /\ boxSkips' \in Seq(SkipReport)
  BY <1>1 DEF AtBoxKid, BoxesInv, BoxFollows
<1> DEFINE media == LeafBox(leaf, "MediaBox")
           page == [page_index |-> page_index, leaf |-> leaf, media |-> media,
                    crop |-> CropOrMedia(LeafBox(leaf, "CropBox"), media)]
           path == PathTo(boxFrames, leaf)
<1>3. ASSUME Truncations' = {}
      PROVE  /\ AllExpand(boxFrames') /\ Carries(boxFrames')
             /\ \E trail : /\ IF boxFrames' = <<>> THEN trail = Paths
                              ELSE Reached(Branches, Types, boxFrames', trail)
                           /\ page_index' = Len(trail) /\ Reported(pages', trail)
  <2>1. Truncations = {}
    BY <1>1, <1>3 DEF Truncations
  <2>2. PICK trail : BoxAt(leaf, trail)
    BY <1>1, <2>1, BoxAtKid
  <2> DEFINE more == Append(trail, path)
  <2>3. Longer(trail, path, more) /\ Editable(path) /\ PageFor(path, page_index) = page
    BY <1>1, <1>2, <2>2, LeafReportIs DEF BoxAt
  <2>4. page \in PageReport
    <3>1. page \in StatedPages(tree)
      BY <1>1, LeafStates
    <3> HIDE DEF page
    <3>2. QED
      BY <3>1 DEF StatedPages
  <2>5. page.page_index = page_index /\ pages' = Append(pages, page)
    BY <1>1
  <2>6. page_index = Len(trail) /\ Reported(pages, trail)
    BY <2>2 DEF BoxAt
  <2> HIDE DEF page, path, more
  <2>7. Reported(pages', more)
    BY <2>3, <2>4, <2>5, <2>6, ReportedMore
  <2>8. page_index' = Len(more)
    BY <1>1, <2>3, <2>6 DEF Longer
  <2>9. /\ AllExpand(boxFrames') /\ Carries(boxFrames') /\ boxFrames' # <<>>
        /\ Reached(Branches, Types, boxFrames', more)
    BY <1>1, <2>2, <2>3, BoxReachesLeaf DEF path
  <2>10. QED
    BY <2>7, <2>8, <2>9
<1>4. QED
  BY <1>1, <1>2, <1>3, BoxGoesOn

LEMMA BoxRefuses ==
  ASSUME BoxesInv, BoxFollows, RefuseLeaf
  PROVE  BoxFollows'
<1>1. PICK leaf \in Objects :
        /\ AtBoxKid(leaf) /\ NodeType(leaf) = "Page" /\ LeafRefusal(leaf) # Absent
        /\ BoxSkip(page_index, leaf, LeafRefusal(leaf))
        /\ page_index' = page_index + 1 /\ boxFrames' = BoxAdvanced
        /\ tree' = tree /\ boxPhase' = boxPhase /\ pages' = pages
  BY DEF RefuseLeaf, CountLeaf
<1>2. boxPhase' = "walking" /\ tree \in TreeShape /\ boxSkips \in Seq(SkipReport) /\ page_index \in Nat
  BY <1>1 DEF AtBoxKid, BoxesInv, BoxFollows
<1>3. LeafRefusal(leaf) \in BoxSkipReasons
  BY <1>1 DEF LeafRefusal, BoxSkipReasons
<1>4. boxSkips' \in Seq(SkipReport) /\ (Truncations' = {} => Truncations = {})
  BY <1>1, <1>2, <1>3, SkipsMore
<1> DEFINE path == PathTo(boxFrames, leaf)
<1>5. ASSUME Truncations' = {}
      PROVE  /\ AllExpand(boxFrames') /\ Carries(boxFrames')
             /\ \E trail : /\ IF boxFrames' = <<>> THEN trail = Paths
                              ELSE Reached(Branches, Types, boxFrames', trail)
                           /\ page_index' = Len(trail) /\ Reported(pages', trail)
  <2>1. PICK trail : BoxAt(leaf, trail)
    BY <1>1, <1>4, <1>5, BoxAtKid
  <2> DEFINE more == Append(trail, path)
  <2>2. Longer(trail, path, more) /\ ~Editable(path)
    BY <1>1, <1>2, <2>1, LeafReportIs DEF BoxAt
  <2>3. page_index = Len(trail) /\ Reported(pages, trail)
    BY <2>1 DEF BoxAt
  <2> HIDE DEF path, more
  <2>4. Reported(pages', more)
    BY <1>1, <2>2, <2>3, ReportedRefused
  <2>5. page_index' = Len(more)
    BY <1>1, <2>2, <2>3 DEF Longer
  <2>6. /\ AllExpand(boxFrames') /\ Carries(boxFrames') /\ boxFrames' # <<>>
        /\ Reached(Branches, Types, boxFrames', more)
    BY <1>1, <2>1, <2>2, BoxReachesLeaf DEF path
  <2>7. QED
    BY <2>4, <2>5, <2>6
<1>6. QED
  BY <1>1, <1>2, <1>4, <1>5, BoxGoesOn

(* Into a node: its boxes are carried on.                                   *)
LEMMA CarriesMore ==
  ASSUME tree \in TreeShape, NEW S, NEW moved \in Seq(S), Carries(moved), AllExpand(moved),
         NEW node \in Objects, Expands(node), NEW inherited,
         IF moved = <<>> THEN inherited = NothingInherited
                         ELSE inherited = moved[Len(moved)].inherited,
         NEW frame \in S, frame.node = node, frame.inherited = ApplyInherited(node, inherited)
  PROVE  AllExpand(Append(moved, frame)) /\ Carries(Append(moved, frame))
<1> DEFINE more == Append(moved, frame)
           n == Len(moved)
<1>1. /\ n \in Nat /\ Len(more) = n + 1 /\ more[n + 1] = frame /\ \A i \in 1..n : more[i] = moved[i]
  BY LenProperties, AppendProperties
<1> HIDE DEF more
<1>2. \A i \in 1..Len(more) : i \in 1..n \/ i = n + 1
  BY <1>1
<1>3. AllExpand(more)
  BY <1>1, <1>2 DEF AllExpand
<1>4. SameNodes(moved, more, n)
  BY <1>1 DEF SameNodes
<1>5. ASSUME NEW i \in 1..n, NEW kind \in BoxKinds
      PROVE  NearestBox(more, i, kind, more[i].inherited[kind])
  <2>1. \A k \in 1..i : k \in 1..n
    BY <1>1
  <2>2. SameNodes(moved, more, i)
    BY <1>4, <2>1 DEF SameNodes
  <2>3. NearestBox(moved, i, kind, moved[i].inherited[kind])
    BY DEF Carries
  <2>4. NearestBox(more, i, kind, moved[i].inherited[kind])
    BY <2>2, <2>3, NearestKept
  <2>5. QED
    BY <1>1, <2>4
<1>6. ASSUME NEW kind \in BoxKinds
      PROVE  NearestBox(more, n + 1, kind, more[n + 1].inherited[kind])
  <2>1. n # 0 => NearestBox(more, n, kind, inherited[kind])
    <3>1. SUFFICES ASSUME n # 0 PROVE NearestBox(more, n, kind, inherited[kind])
      OBVIOUS
    <3>2. n \in 1..n /\ moved # <<>>
      BY <1>1, <3>1
    <3>3. inherited = more[n].inherited
      BY <1>1, <3>2
    <3>4. QED
      BY <1>5, <3>2, <3>3
  <2>2. n = 0 => inherited[kind] = Absent
    <3>1. n = 0 => moved = <<>>
      BY EmptySeq
    <3>2. NothingInherited[kind] = Absent
      BY DEF NothingInherited
    <3>3. QED
      BY <3>1, <3>2
  <2>3. more[n + 1].node = node /\ Readable(tree[node].dict)
    BY <1>1 DEF Expands
  <2>4. NearestBox(more, n + 1, kind, ApplyInherited(node, inherited)[kind])
    BY <1>1, <2>1, <2>2, <2>3, NearestNext
  <2>5. QED
    BY <1>1, <2>4
<1>7. Carries(more)
  BY <1>2, <1>5, <1>6 DEF Carries
<1>8. QED
  BY <1>3, <1>7 DEF more

LEMMA BoxDescends ==
  ASSUME BoxesInv, BoxFollows, DescendBoxes
  PROVE  BoxFollows'
<1>1. PICK kid \in Objects :
        /\ AtBoxKid(kid) /\ NodeType(kid) = "Pages" /\ boxPhase' = boxPhase
        /\ ProcessPagesNode(kid, TopFrame.inherited)
  BY DEF DescendBoxes
<1>2. boxPhase' = "walking" /\ tree \in TreeShape /\ boxSkips \in Seq(SkipReport)
      /\ boxFrames # <<>>
  BY <1>1 DEF AtBoxKid, BoxesInv, BoxFollows
<1>3. tree' = tree /\ page_index' = page_index /\ pages' = pages
  BY <1>1 DEF ProcessPagesNode
<1>4. Types[kid] = "Pages" /\ (~Expands(kid) => Branches[kid] = <<>>)
      /\ Branches \in [Objects -> Seq(Objects)]
  BY <1>1, <1>2, BranchesTyped
<1>5. ASSUME NEW reason \in {"Cycle", "MaxDepth"}, BoxSkip(Absent, kid, reason), boxFrames' = BoxAdvanced
      PROVE  BoxFollows'
  <2>1. reason \in BoxSkipReasons /\ reason \in TruncationReasons
    BY DEF BoxSkipReasons, TruncationReasons
  <2>2. boxSkips' \in Seq(SkipReport) /\ (Truncations' = {} => FALSE)
    BY <1>2, <1>5, <2>1, SkipsMore
  <2>3. QED
    BY <1>1, <1>2, <1>3, <1>5, <2>2, BoxPasses
<1>6. ASSUME ~Expands(kid), BoxSkip(Absent, kid, "NodeExpansionFailed"), boxFrames' = BoxAdvanced
      PROVE  BoxFollows'
  <2>1. "NodeExpansionFailed" \in BoxSkipReasons
    BY DEF BoxSkipReasons
  <2>2. boxSkips' \in Seq(SkipReport) /\ (Truncations' = {} => Truncations = {})
    BY <1>2, <1>6, <2>1, SkipsMore
  <2>3. LeadsNowhere(Branches, Types, kid)
    BY <1>4, <1>6 DEF LeadsNowhere
  <2>4. QED
    BY <1>1, <1>2, <1>3, <1>6, <2>2, <2>3, BoxPasses
<1>7. ASSUME Len(boxFrames) <= MaxDepth, Expands(kid), boxSkips' = boxSkips,
             boxFrames' = Append(BoxAdvanced, [node |-> kid, next |-> 1,
                                               inherited |-> ApplyInherited(kid, TopFrame.inherited)])
      PROVE  BoxFollows'
  <2>1. ASSUME Truncations' = {}
        PROVE  /\ AllExpand(boxFrames') /\ Carries(boxFrames')
               /\ \E trail : /\ IF boxFrames' = <<>> THEN trail = Paths
                                ELSE Reached(Branches, Types, boxFrames', trail)
                             /\ page_index' = Len(trail) /\ Reported(pages', trail)
    <3>1. Truncations = {}
      BY <1>7, <2>1 DEF Truncations
    <3>2. PICK trail : BoxAt(kid, trail)
      BY <1>1, <3>1, BoxAtKid
    <3>3. /\ Reached(Branches, Types, boxFrames, trail) /\ page_index = Len(trail) /\ Reported(pages, trail)
          /\ HasKid(Branches, boxFrames) /\ KidAt(Branches, boxFrames) = kid
          /\ boxFrames \in Seq(BoxFrame(StatedBoxes(tree)))
          /\ Moved(boxFrames, BoxAdvanced) /\ BoxAdvanced \in Seq(BoxFrame(StatedBoxes(tree)))
          /\ AllExpand(BoxAdvanced) /\ Carries(BoxAdvanced) /\ Len(boxFrames) \in Nat \ {0}
          /\ TopFrame = boxFrames[Len(boxFrames)]
      BY <3>2 DEF BoxAt
    <3> DEFINE S == BoxFrame(StatedBoxes(tree))
               kept == ApplyInherited(kid, TopFrame.inherited)
               frame == [node |-> kid, next |-> 1, inherited |-> kept]
    <3>4. frame \in S /\ frame.node = kid /\ frame.next = 1 /\ frame.inherited = kept
      <4>1. Len(boxFrames) \in 1..Len(boxFrames)
        BY <3>3
      <4>2. TopFrame \in S
        BY <3>3, <4>1, ElementOfSeq
      <4>3. TopFrame.inherited \in StatedBoxes(tree)
        BY <4>2 DEF BoxFrame
      <4>4. kept \in StatedBoxes(tree)
        BY <1>2, <1>7, <4>3, NodeStates
      <4> HIDE DEF kept
      <4>5. QED
        BY <4>4 DEF BoxFrame
    <3>5. boxFrames' = Append(BoxAdvanced, frame)
      BY <1>7
    <3>6. Len(BoxAdvanced) = Len(boxFrames) /\ BoxAdvanced # <<>>
          /\ BoxAdvanced[Len(BoxAdvanced)].inherited = TopFrame.inherited
      <4>1. Len(BoxAdvanced) = Len(boxFrames)
        BY <3>3 DEF Moved
      <4>2. \A i \in 1..Len(boxFrames) : BoxAdvanced[i].inherited = boxFrames[i].inherited
        BY <1>2, <3>3, BoxMoves
      <4>3. Len(boxFrames) \in 1..Len(boxFrames) /\ Len(<<>>) = 0
        BY <3>3
      <4>4. QED
        BY <3>3, <4>1, <4>2, <4>3
    <3> HIDE DEF S, frame, kept
    <3>7. Opened(boxFrames, boxFrames', kid)
      BY <3>3, <3>4, <3>5, StackOpens DEF S
    <3>8. Reached(Branches, Types, boxFrames', trail)
      <4>1. Opened(boxFrames, boxFrames', KidAt(Branches, boxFrames))
            /\ Types[KidAt(Branches, boxFrames)] = "Pages"
        BY <1>4, <3>3, <3>7
      <4>2. QED
        BY <1>4, <1>7, <3>3, <4>1, ReachedOpen
    <3>9. AllExpand(boxFrames') /\ Carries(boxFrames')
      <4>1. IF BoxAdvanced = <<>> THEN TopFrame.inherited = NothingInherited
                                  ELSE TopFrame.inherited = BoxAdvanced[Len(BoxAdvanced)].inherited
        BY <3>6
      <4>2. frame.inherited = ApplyInherited(kid, TopFrame.inherited)
        BY <3>4 DEF kept
      <4>3. BoxAdvanced \in Seq(S)
        BY <3>3 DEF S
      <4>4. AllExpand(Append(BoxAdvanced, frame)) /\ Carries(Append(BoxAdvanced, frame))
        BY <1>2, <1>7, <3>3, <3>4, <4>1, <4>2, <4>3, CarriesMore
      <4>5. QED
        BY <3>5, <4>4
    <3>10. boxFrames' # <<>>
      <4>1. Len(boxFrames') = Len(boxFrames) + 1 /\ Len(<<>>) = 0
        BY <3>7 DEF Opened
      <4>2. QED
        BY <3>3, <4>1
    <3>11. QED
      BY <1>3, <3>3, <3>8, <3>9, <3>10
  <2>2. boxSkips' \in Seq(SkipReport)
    BY <1>2, <1>7
  <2>3. QED
    BY <1>2, <1>3, <2>1, <2>2, BoxGoesOn
<1>8. \/ BoxSkip(Absent, kid, "Cycle") /\ boxFrames' = BoxAdvanced
      \/ BoxSkip(Absent, kid, "MaxDepth") /\ boxFrames' = BoxAdvanced
      \/ ~Expands(kid) /\ BoxSkip(Absent, kid, "NodeExpansionFailed") /\ boxFrames' = BoxAdvanced
      \/ /\ Len(boxFrames) <= MaxDepth /\ Expands(kid) /\ boxSkips' = boxSkips
         /\ boxFrames' = Append(BoxAdvanced, [node |-> kid, next |-> 1,
                                              inherited |-> ApplyInherited(kid, TopFrame.inherited)])
  BY <1>1, Zenon DEF ProcessPagesNode
<1>9. QED
  BY <1>5, <1>6, <1>7, <1>8, Zenon

LEMMA BoxStarts ==
  ASSUME BoxesInv, BoxFollows, StartBoxes
  PROVE  BoxFollows'
<1>1. boxPhase = "idle" /\ boxPhase' = "walking" /\ ProcessPagesNode(Root, NothingInherited)
      /\ boxFrames = <<>> /\ page_index = 0 /\ pages = <<>> /\ boxSkips \in Seq(SkipReport)
      /\ tree \in TreeShape
  BY DEF StartBoxes, BoxFollows, BoxesInv
<1>2. tree' = tree /\ page_index' = 0 /\ pages' = <<>> /\ BoxAdvanced = <<>>
  BY <1>1 DEF ProcessPagesNode, BoxAdvanced
<1>3. Reported(<<>>, <<>>) /\ Len(<<>>) = 0
  BY ReportedNothing
<1>4. Branches \in [Objects -> Seq(Objects)] /\ (~Expands(Root) => Branches[Root] = <<>>)
  BY <1>1, RootIsObject, BranchesTyped
<1>5. AllExpand(<<>>) /\ Carries(<<>>)
  <2>1. 1..Len(<<>>) = {}
    OBVIOUS
  <2>2. QED
    BY <2>1 DEF AllExpand, Carries
<1>6. ASSUME NEW reason \in {"Cycle", "MaxDepth"}, BoxSkip(Absent, Root, reason)
      PROVE  BoxFollows'
  <2>1. reason \in BoxSkipReasons /\ reason \in TruncationReasons
    BY DEF BoxSkipReasons, TruncationReasons
  <2>2. boxSkips' \in Seq(SkipReport) /\ (Truncations' = {} => FALSE)
    BY <1>1, <1>6, <2>1, RootIsObject, SkipsMore
  <2>3. QED
    BY <1>1, <1>2, <2>2, BoxGoesOn
<1>7. ASSUME ~Expands(Root), BoxSkip(Absent, Root, "NodeExpansionFailed"), boxFrames' = BoxAdvanced
      PROVE  BoxFollows'
  <2>1. "NodeExpansionFailed" \in BoxSkipReasons
    BY DEF BoxSkipReasons
  <2>2. boxSkips' \in Seq(SkipReport)
    BY <1>1, <1>7, <2>1, RootIsObject, SkipsMore
  <2>3. Paths = <<>>
    BY <1>4, <1>7, NoPaths DEF Paths
  <2>4. /\ AllExpand(boxFrames') /\ Carries(boxFrames')
        /\ \E trail : /\ IF boxFrames' = <<>> THEN trail = Paths
                         ELSE Reached(Branches, Types, boxFrames', trail)
                      /\ page_index' = Len(trail) /\ Reported(pages', trail)
    BY <1>2, <1>3, <1>5, <1>7, <2>3
  <2>5. QED
    BY <1>1, <1>2, <2>2, <2>4, BoxGoesOn
<1>8. ASSUME Expands(Root), boxSkips' = boxSkips,
             boxFrames' = Append(BoxAdvanced, [node |-> Root, next |-> 1,
                                               inherited |-> ApplyInherited(Root, NothingInherited)])
      PROVE  BoxFollows'
  <2> DEFINE S == BoxFrame(StatedBoxes(tree))
             kept == ApplyInherited(Root, NothingInherited)
             frame == [node |-> Root, next |-> 1, inherited |-> kept]
  <2>1. kept \in StatedBoxes(tree)
    BY <1>1, <1>8, RootIsObject, NodeStates
  <2> HIDE DEF kept
  <2>2. frame \in S /\ frame.node = Root /\ frame.next = 1 /\ frame.inherited = kept
    BY <2>1, RootIsObject DEF BoxFrame
  <2>3. boxFrames' = Append(<<>>, frame)
    BY <1>2, <1>8 DEF kept
  <2> HIDE DEF S, frame
  <2>4. <<>> \in Seq(S)
    OBVIOUS
  <2>5. AllExpand(Append(<<>>, frame)) /\ Carries(Append(<<>>, frame))
    <3>1. frame.inherited = ApplyInherited(Root, NothingInherited)
      BY <2>2 DEF kept
    <3>2. PICK none \in Seq(S) : none = <<>>
      BY <2>4
    <3>3. AllExpand(none) /\ Carries(none)
      BY <1>5, <3>2
    <3>4. IF none = <<>> THEN NothingInherited = NothingInherited
                         ELSE NothingInherited = none[Len(none)].inherited
      BY <3>2
    <3>5. AllExpand(Append(none, frame)) /\ Carries(Append(none, frame))
      BY <1>1, <1>8, <2>2, <3>1, <3>3, <3>4, RootIsObject, CarriesMore
    <3>6. QED
      BY <3>2, <3>5
  <2>6. Len(boxFrames') = 1 /\ boxFrames'[1] = frame /\ boxFrames' # <<>>
    <3>1. Len(Append(<<>>, frame)) = 1 /\ Append(<<>>, frame)[1] = frame
      OBVIOUS
    <3>2. QED
      BY <1>3, <2>3, <3>1
  <2>7. Reached(Branches, Types, boxFrames', <<>>)
    BY <1>4, <2>2, <2>6, ReachedStart
  <2>8. /\ AllExpand(boxFrames') /\ Carries(boxFrames')
        /\ \E trail : /\ IF boxFrames' = <<>> THEN trail = Paths
                         ELSE Reached(Branches, Types, boxFrames', trail)
                      /\ page_index' = Len(trail) /\ Reported(pages', trail)
    BY <1>2, <1>3, <2>3, <2>5, <2>6, <2>7
  <2>9. boxSkips' \in Seq(SkipReport)
    BY <1>1, <1>8
  <2>10. QED
    BY <1>1, <1>2, <2>8, <2>9, BoxGoesOn
<1>9. \/ BoxSkip(Absent, Root, "Cycle") \/ BoxSkip(Absent, Root, "MaxDepth")
      \/ ~Expands(Root) /\ BoxSkip(Absent, Root, "NodeExpansionFailed") /\ boxFrames' = BoxAdvanced
      \/ /\ Expands(Root) /\ boxSkips' = boxSkips
         /\ boxFrames' = Append(BoxAdvanced, [node |-> Root, next |-> 1,
                                              inherited |-> ApplyInherited(Root, NothingInherited)])
  BY <1>1, Zenon DEF ProcessPagesNode
<1>10. QED
  BY <1>6, <1>7, <1>8, <1>9, Zenon

LEMMA BoxReturns ==
  ASSUME BoxesInv, BoxFollows, ReturnFromTargets
  PROVE  BoxFollows'
<1>1. /\ boxPhase = "walking" /\ boxFrames # <<>> /\ TopFrame.next > Len(Kids(TopFrame.node))
      /\ boxFrames' = Front(boxFrames) /\ tree' = tree /\ boxPhase' = "walking"
      /\ page_index' = page_index /\ pages' = pages /\ boxSkips' = boxSkips
      /\ TopFrame = boxFrames[Len(boxFrames)]
  BY DEF ReturnFromTargets, TopFrame
<1>2. /\ tree \in TreeShape /\ boxSkips \in Seq(SkipReport)
      /\ boxFrames \in Seq(BoxFrame(StatedBoxes(tree))) /\ Len(boxFrames) \in Nat \ {0}
  BY <1>1, EmptySeq DEF BoxesInv, BoxFollows
<1>3. Branches \in [Objects -> Seq(Objects)]
  BY <1>2, BranchesTyped
<1>4. Closed(boxFrames, boxFrames')
      /\ \A k \in 1..Len(boxFrames') : boxFrames'[k] = boxFrames[k]
  <2> DEFINE S == BoxFrame(StatedBoxes(tree))
  <2>1. boxFrames \in Seq(S)
    BY <1>2
  <2> HIDE DEF S
  <2>2. Closed(boxFrames, Front(boxFrames))
    BY <1>1, <2>1, StackCloses
  <2>3. \A k \in 1..Len(Front(boxFrames)) : Front(boxFrames)[k] = boxFrames[k]
    BY <1>1, <2>1, Popped DEF Front
  <2>4. QED
    BY <1>1, <2>2, <2>3
<1>5. ASSUME Truncations' = {}
      PROVE  /\ AllExpand(boxFrames') /\ Carries(boxFrames')
             /\ \E trail : /\ IF boxFrames' = <<>> THEN trail = Paths
                              ELSE Reached(Branches, Types, boxFrames', trail)
                           /\ page_index' = Len(trail) /\ Reported(pages', trail)
  <2>1. Truncations = {}
    BY <1>1, <1>5 DEF Truncations
  <2>2. AllExpand(boxFrames) /\ Carries(boxFrames)
    BY <1>1, <2>1 DEF BoxFollows
  <2>3. PICK trail : Reached(Branches, Types, boxFrames, trail) /\ page_index = Len(trail)
                     /\ Reported(pages, trail)
    BY <1>1, <2>1 DEF BoxFollows, BoxTrail
  <2>4. ~HasKid(Branches, boxFrames)
    <3>1. boxFrames[Len(boxFrames)].next \in Nat \ {0}
      BY <1>2, <1>3, <2>3, ReachedNext
    <3>2. QED
      BY <1>1, <1>2, <2>2, <3>1, StackAtKid
  <2>5. Len(boxFrames') = Len(boxFrames) - 1 /\ Len(boxFrames') \in Nat
        /\ SameNodes(boxFrames, boxFrames', Len(boxFrames'))
        /\ \A k \in 1..Len(boxFrames') : k \in 1..Len(boxFrames) /\ boxFrames'[k] = boxFrames[k]
    BY <1>2, <1>4 DEF Closed
  <2>6. AllExpand(boxFrames')
    BY <2>2, <2>5 DEF AllExpand
  <2>7. Carries(boxFrames')
    BY <1>2, <2>2, <2>5, CarriedOn
  <2>8. CASE Len(boxFrames) = 1
    <3>1. trail = PathsOf(Branches, Types)
      BY <1>3, <2>3, <2>4, <2>8, ReachedEnd
    <3>2. boxFrames' = <<>>
      <4>1. boxFrames' \in Seq(BoxFrame(StatedBoxes(tree)))
        BY <1>1, <1>2, Popped DEF Front
      <4>2. QED
        BY <2>5, <2>8, <4>1, EmptySeq
    <3>3. QED
      BY <1>1, <2>3, <2>6, <2>7, <3>1, <3>2 DEF Paths
  <2>9. CASE Len(boxFrames) # 1
    <3>1. Reached(Branches, Types, boxFrames', trail)
      BY <1>3, <1>4, <2>3, <2>4, <2>9, ReachedClose
    <3>2. boxFrames' # <<>>
      <4>1. Len(<<>>) = 0 /\ Len(boxFrames') # 0
        BY <1>2, <2>5, <2>9
      <4>2. QED
        BY <4>1
    <3>3. QED
      BY <1>1, <2>3, <2>6, <2>7, <3>1, <3>2
  <2>10. QED
    BY <2>8, <2>9
<1>6. QED
  BY <1>1, <1>2, <1>5, BoxGoesOn

LEMMA BoxFinishes ==
  ASSUME BoxesInv, BoxFollows, FinishBoxes
  PROVE  BoxFollows'
<1>1. /\ boxPhase = "walking" /\ boxFrames = <<>> /\ boxPhase' = "done" /\ tree' = tree
      /\ boxFrames' = boxFrames /\ page_index' = page_index /\ pages' = pages /\ boxSkips' = boxSkips
  BY DEF FinishBoxes
<1>2. Branches' = Branches /\ Types' = Types
  BY <1>1, TreeKept
<1>3. Paths' = Paths
  BY <1>2 DEF Paths
<1>4. AllExpand(<<>>)' /\ Carries(<<>>)'
  <2>1. 1..Len(<<>>) = {}
    OBVIOUS
  <2>2. QED
    BY <2>1 DEF AllExpand, Carries
<1>5. ASSUME Truncations' = {}
      PROVE  (\E trail : BoxTrail(trail))'
  <2>1. Truncations = {}
    BY <1>1, <1>5 DEF Truncations
  <2>2. PICK trail : trail = Paths /\ page_index = Len(trail) /\ Reported(pages, trail)
    BY <1>1, <2>1 DEF BoxFollows, BoxTrail
  <2>3. Reported(pages, trail)'
    <3>1. Reported(pages', trail)
      BY <1>1, <2>2
    <3>2. \A path, k : PageFor(path, k)' = PageFor(path, k) /\ Editable(path)' = Editable(path)
      BY <1>1, ReportsKept
    <3>3. QED
      BY <3>1, <3>2 DEF Reported, Slots
  <2>4. BoxTrail(trail)'
    BY <1>1, <1>3, <2>2, <2>3 DEF BoxTrail
  <2>5. QED
    BY <2>4
<1>6. AllExpand(boxFrames)' /\ Carries(boxFrames)'
  BY <1>1, <1>4 DEF AllExpand, Carries
<1>7. boxSkips' \in Seq(SkipReport)
  BY <1>1 DEF BoxFollows
<1>8. QED
  BY <1>1, <1>5, <1>6, <1>7 DEF BoxFollows

LEMMA BoxStepsFollow ==
  ASSUME BoxesInv, BoxFollows, BoxStep
  PROVE  BoxFollows'
<1>1. CASE PassOverKid
  <2>1. PICK kid \in Objects :
          /\ AtBoxKid(kid) /\ NodeType(kid) \in {"Other", "Unresolved"} /\ boxFrames' = BoxAdvanced
          /\ tree' = tree /\ boxPhase' = boxPhase /\ UNCHANGED <<page_index, pages>>
          /\ boxSkips' = boxSkips
    BY <1>1 DEF PassOverKid
  <2>2. Types[kid] = NodeType(kid)
    BY BranchesTyped DEF BoxesInv
  <2>3. LeadsNowhere(Branches, Types, kid)
    BY <2>1, <2>2 DEF LeadsNowhere
  <2>4. boxSkips' \in Seq(SkipReport) /\ Truncations' = Truncations
    BY <2>1 DEF BoxFollows, Truncations
  <2>5. QED
    BY <2>1, <2>3, <2>4, BoxPasses
<1>2. QED
  BY <1>1, BoxStarts, BoxDescends, BoxReports, BoxRefuses, BoxReturns, BoxFinishes DEF BoxStep

LEMMA BoxesStay ==
  ASSUME BoxesInv, BoxFollows, tree' = tree, UNCHANGED boxVars
  PROVE  BoxesInv' /\ BoxFollows'
<1>1. Branches' = Branches /\ Types' = Types
  BY TreeKept
<1>2. Paths' = Paths
  BY <1>1 DEF Paths
<1>3. \A s : AllExpand(s) => AllExpand(s)'
  <2>1. \A node : Expands(node)' <=> Expands(node)
    BY DEF Expands, Kids
  <2>2. QED
    BY <2>1 DEF AllExpand
<1>4. \A s : Carries(s) => Carries(s)'
  BY DEF Carries, NearestBox, States
<1>5. /\ boxPhase' = boxPhase /\ boxFrames' = boxFrames /\ page_index' = page_index
      /\ pages' = pages /\ boxSkips' = boxSkips
  BY DEF boxVars
<1>6. BoxesInv'
  BY <1>5 DEF BoxesInv
<1>7. Truncations' = Truncations
  BY <1>5 DEF Truncations
<1>8. ASSUME NEW trail, BoxTrail(trail)
      PROVE  BoxTrail(trail)'
  <2>1. Reported(pages, trail)'
    <3>1. Reported(pages', trail)
      BY <1>5, <1>8 DEF BoxTrail
    <3>2. \A path, k : PageFor(path, k)' = PageFor(path, k) /\ Editable(path)' = Editable(path)
      BY ReportsKept
    <3>3. QED
      BY <3>1, <3>2 DEF Reported, Slots
  <2>2. QED
    BY <1>1, <1>2, <1>5, <1>8, <2>1 DEF BoxTrail
<1>9. (AllExpand(boxFrames) => AllExpand(boxFrames)') /\ (Carries(boxFrames) => Carries(boxFrames)')
  BY <1>3, <1>4, <1>5 DEF AllExpand, Carries
<1>10. boxPhase' # "idle" /\ Truncations' = {} =>
         AllExpand(boxFrames)' /\ Carries(boxFrames)' /\ \E trail : BoxTrail(trail)'
  BY <1>5, <1>7, <1>8, <1>9 DEF BoxFollows
<1>11. QED
  BY <1>5, <1>6, <1>10 DEF BoxFollows

LEMMA LeavesStay ==
  ASSUME LeafFollows, tree' = tree, UNCHANGED leafVars
  PROVE  LeafFollows'
<1>1. Branches' = Branches /\ Types' = Types
  BY TreeKept
<1>2. Paths' = Paths
  BY <1>1 DEF Paths
<1>3. \A s : AllExpand(s) => AllExpand(s)'
  <2>1. \A node : Expands(node)' <=> Expands(node)
    BY DEF Expands, Kids
  <2>2. QED
    BY <2>1 DEF AllExpand
<1>4. /\ leafPhase' = leafPhase /\ leaves' = leaves /\ frames' = frames /\ truncated' = truncated
  BY DEF leafVars
<1>5. \A trail : LeafTrail(trail) => LeafTrail(trail)'
  BY <1>1, <1>4 DEF LeafTrail
<1>6. AllExpand(frames) => AllExpand(frames)'
  BY <1>3, <1>4 DEF AllExpand
<1>7. leafPhase' = "walking" /\ truncated' = Absent => AllExpand(frames)' /\ \E trail : LeafTrail(trail)'
  BY <1>4, <1>5, <1>6 DEF LeafFollows
<1>8. leafPhase' = "done" /\ truncated' = Absent => Lists(leaves, Paths)'
  BY <1>2, <1>4 DEF LeafFollows
<1>9. QED
  BY <1>4, <1>7, <1>8 DEF LeafFollows

WalksInv == LeafFollows /\ BoxesInv /\ BoxFollows

LEMMA InspectionFollows ==
  ASSUME LeafBounded, WalksInv, EnumerateLeaves \/ InspectBoxes
  PROVE  WalksInv' /\ tree' = tree
<1>1. CASE EnumerateLeaves
  <2>1. tree' = tree
    BY <1>1 DEF EnumerateLeaves, LeafStep, StartLeaves, EmitLeaf, SkipKid, StopDescent, Descend,
         ReturnFromNode
  <2>2. LeafFollows'
    BY <1>1, LeafStepsFollow DEF EnumerateLeaves, WalksInv
  <2>3. BoxesInv' /\ BoxFollows'
    BY <1>1, <2>1, BoxesStay DEF EnumerateLeaves, WalksInv
  <2>4. QED
    BY <2>1, <2>2, <2>3 DEF WalksInv
<1>2. CASE InspectBoxes
  <2>1. tree' = tree /\ BoxesInv'
    BY <1>2, BoxStepsState DEF InspectBoxes, WalksInv
  <2>2. BoxFollows'
    BY <1>2, BoxStepsFollow DEF InspectBoxes, WalksInv
  <2>3. LeafFollows'
    BY <1>2, <2>1, LeavesStay DEF InspectBoxes, WalksInv
  <2>4. QED
    BY <2>1, <2>2, <2>3 DEF WalksInv
<1>3. QED
  BY <1>1, <1>2

LEMMA WalksStart ==
  ASSUME tree \in TreeShape, LeafInit, BoxInit
  PROVE  WalksInv
<1>1. LeafFollows
  BY DEF LeafInit, LeafFollows
<1>2. BoxesInv
  <2>1. boxFrames = <<>> /\ pages = <<>> /\ page_index = 0
    BY DEF BoxInit
  <2>2. QED
    BY <2>1 DEF BoxesInv
<1>3. BoxFollows
  <2>1. /\ boxPhase = "idle" /\ boxFrames = <<>> /\ page_index = 0 /\ pages = <<>>
        /\ boxSkips = <<>>
    BY DEF BoxInit
  <2>2. QED
    BY <2>1 DEF BoxFollows
<1>4. QED
  BY <1>1, <1>2, <1>3 DEF WalksInv

LEMMA BoxesFollowTree ==
  ASSUME tree \in TreeShape, BoxFollows, boxPhase = "done", Truncations = {}
  PROVE  /\ page_index = Len(Paths)
         /\ \A i \in 1..Len(pages) :
              LET index == pages[i].page_index
              IN  index < page_index /\ pages[i] = PageFor(Paths[index + 1], index)
         /\ {pages[i].page_index : i \in 1..Len(pages)}
              = {i \in 0..(page_index - 1) : Editable(Paths[i + 1])}
<1>1. Paths \in PathSeq
  BY BranchesTyped, PathsTyped DEF Paths
<1>2. Len(Paths) \in Nat
  BY <1>1 DEF PathSeq
<1>3. page_index = Len(Paths) /\ Reported(pages, Paths)
  BY DEF BoxFollows, BoxTrail
<1>4. \A i \in 1..Len(pages) :
        /\ pages[i].page_index \in Nat /\ pages[i].page_index < page_index
        /\ pages[i] = PageFor(Paths[pages[i].page_index + 1], pages[i].page_index)
  BY <1>3 DEF Reported
<1>5. \A k \in Nat : k < page_index =>
        (Editable(Paths[k + 1]) <=> \E i \in 1..Len(pages) : pages[i].page_index = k)
  BY <1>3 DEF Reported, Slots
<1>6. \A k : k \in {pages[i].page_index : i \in 1..Len(pages)}
               <=> k \in {i \in 0..(page_index - 1) : Editable(Paths[i + 1])}
  <2>1. \A k : k \in 0..(page_index - 1) <=> k \in Nat /\ k < page_index
    BY <1>2, <1>3
  <2>2. QED
    BY <1>4, <1>5, <2>1
<1>7. {pages[i].page_index : i \in 1..Len(pages)}
        = {i \in 0..(page_index - 1) : Editable(Paths[i + 1])}
  BY <1>6, Zenon
<1>8. QED
  BY <1>3, <1>4, <1>7

LEMMA FollowedTree ==
  ASSUME WalksInv
  PROVE  WalksFollowTree
<1>1. ASSUME leafPhase = "done", truncated = Absent
      PROVE  leaves = [i \in 1..Len(Paths) |-> Last(Paths[i])]
  <2>1. leaves \in Seq(Objects) /\ Len(leaves) = Len(Paths)
        /\ \A i \in 1..Len(Paths) : leaves[i] = Last(Paths[i])
    BY <1>1 DEF WalksInv, LeafFollows, Lists
  <2>2. leaves = [i \in 1..Len(leaves) |-> leaves[i]]
    BY <2>1
  <2>3. QED
    BY <2>1, <2>2
<1>2. QED
  BY <1>1, BoxesFollowTree DEF WalksFollowTree, WalksInv, LeafFollows

LEMMA WalksInvariant == ReadSpec => [](LeafBounded /\ BoxBounded /\ WalksInv)
<1>1. ReadInit => LeafBounded /\ BoxBounded /\ WalksInv
  <2>1. ASSUME ReadInit
        PROVE  tree \in TreeShape
    BY <2>1, PdfDocumentsAreShaped, DocumentsAreTrees DEF ReadInit
  <2>2. QED
    BY <2>1, WalksStart, WalksStartBounded DEF ReadInit
<1>2. ASSUME LeafBounded, BoxBounded, WalksInv, [ReadNext]_readVars
      PROVE  LeafBounded' /\ BoxBounded' /\ WalksInv'
  <2>1. ASSUME tree' = tree, UNCHANGED <<leafVars, boxVars>>
        PROVE  LeafBounded' /\ BoxBounded' /\ WalksInv'
    BY <1>2, <2>1, BoxesStay, LeavesStay, WalkStepsAreBounded DEF WalksInv
  <2>2. ASSUME EnumerateLeaves \/ InspectBoxes
        PROVE  LeafBounded' /\ BoxBounded' /\ WalksInv'
    BY <1>2, <2>2, InspectionFollows, WalkStepsAreBounded
  <2>3. CASE InspectPageBoxes
    BY <2>1, <2>2, <2>3 DEF InspectPageBoxes, Next, Answered, vars
  <2>4. CASE OpenForAudit
    BY <2>2, <2>4 DEF OpenForAudit
  <2>5. CASE AuditStep
    <3>1. UNCHANGED <<leafVars, boxVars>>
      BY <2>5 DEF AuditStep, BuildInventory, AuditPage, CheckPage, vars
    <3>2. tree' = tree
      <4>1. PdfStep => tree' = tree
        BY DEF PdfStep, LocateContent, InspectResources, InventoryPage, SkipPage, ResourceStep,
             StartResources, InspectPage, SkipResourceKid, StopResourceDescent, DescendResources,
             ReturnFromResources
      <4>2. QED
        BY <2>5, <4>1 DEF AuditStep, BuildInventory, AuditPage, CheckPage, vars
    <3>3. QED
      BY <2>1, <3>1, <3>2
  <2>6. CASE UNCHANGED readVars
    BY <2>1, <2>6 DEF readVars, vars
  <2>7. QED
    BY <1>2, <2>3, <2>4, <2>5, <2>6 DEF ReadNext, AuditAnswered
<1>3. QED
  BY <1>1, <1>2, PTL DEF ReadSpec

-----------------------------------------------------------------------------
(***************************************************************************)
(* In every document, whatever its /Kids graph, and for every reader of    *)
(* it: a leaf walk no bound stopped lists the leaves of the tree in        *)
(* document order; a box walk no bound stopped gives each leaf the index   *)
(* of its place in that order, reports exactly the leaves with usable      *)
(* boxes, and takes each box from the leaf or else from the nearest        *)
(* ancestor that states one.                                               *)
(***************************************************************************)
THEOREM WalksAlwaysFollowTree == ReadSpec => []WalksFollowTree
<1>1. WalksInv => WalksFollowTree
  BY FollowedTree
<1>2. QED
  BY <1>1, WalksInvariant, PTL

-----------------------------------------------------------------------------
(***************************************************************************)
(* What both walks do, whatever else they carry: the open calls, the nodes *)
(* remembered and the leaves met so far, from one kid to the next.  In it  *)
(* no node limit is tested, and the depth is never beyond the bound.       *)
(***************************************************************************)
Opening == {node \in Objects : Expands(node)}

OpenFrame(open) == [node : open, next : Nat \ {0}]
Configs(open) == [stack : Seq(OpenFrame(open)), seen : SUBSET Objects, listed : Seq(Objects)]
Config(stack, seen, listed) == [stack |-> stack, seen |-> seen, listed |-> listed]

GoesOn(c, d) == Moved(c.stack, d.stack) /\ d.seen = c.seen

TakesLeaf(ty, c, d, kid) ==
  ty[kid] = "Page" /\ GoesOn(c, d) /\ d.listed = Append(c.listed, kid)

PassesBy(ty, c, d, kid) ==
  /\ ty[kid] \in {"Other", "Unresolved"} \/ (ty[kid] = "Pages" /\ kid \in c.seen)
  /\ GoesOn(c, d) /\ d.listed = c.listed

GoesInto(ty, open, c, d, kid) ==
  /\ ty[kid] = "Pages" /\ kid \notin c.seen /\ Len(c.stack) <= MaxDepth
  /\ d.seen = c.seen \cup {kid} /\ d.listed = c.listed
  /\ IF kid \in open THEN Opened(c.stack, d.stack, kid) ELSE Moved(c.stack, d.stack)

GoesBack(c, d) == Closed(c.stack, d.stack) /\ d.seen = c.seen /\ d.listed = c.listed

StepsTo(br, ty, open, c, d) ==
  \/ ~HasKid(br, c.stack) /\ GoesBack(c, d)
  \/ /\ HasKid(br, c.stack)
     /\ \/ TakesLeaf(ty, c, d, KidAt(br, c.stack))
        \/ PassesBy(ty, c, d, KidAt(br, c.stack))
        \/ GoesInto(ty, open, c, d, KidAt(br, c.stack))

FirstConfig == Config(<<Frame(Root)>>, {Root}, <<>>)

(* A walk from the root up to where it is now.                              *)
WalkTo(br, ty, open, run, c) ==
  /\ run \in Seq(Configs(open)) /\ Len(run) \in Nat \ {0}
  /\ run[1] = FirstConfig /\ run[Len(run)] = c
  /\ \A i \in 1..Len(run) : i # Len(run) => StepsTo(br, ty, open, run[i], run[i + 1])

LEMMA WalkToStarts ==
  ASSUME NEW br, NEW ty, NEW open, Root \in open
  PROVE  WalkTo(br, ty, open, <<FirstConfig>>, FirstConfig)
<1>1. FirstConfig \in Configs(open)
  <2>1. Frame(Root) \in OpenFrame(open)
    BY DEF Frame, OpenFrame
  <2> DEFINE F == OpenFrame(open)
             frame == Frame(Root)
  <2> HIDE DEF F, frame
  <2>2. <<frame>> \in Seq(F)
    BY <2>1 DEF F, frame
  <2> DEFINE stack == <<frame>>
             remembered == {Root}
  <2>3. remembered \in SUBSET Objects /\ <<>> \in Seq(Objects)
    BY RootIsObject
  <2> HIDE DEF stack, remembered
  <2>4. [stack |-> stack, seen |-> remembered, listed |-> <<>>]
          \in [stack : Seq(F), seen : SUBSET Objects, listed : Seq(Objects)]
    BY <2>2, <2>3 DEF stack
  <2>5. QED
    BY <2>4 DEF FirstConfig, Config, Configs, stack, remembered, F, frame
<1> DEFINE first == FirstConfig
           S == Configs(open)
<1> HIDE DEF first, S
<1>2. <<first>> \in Seq(S) /\ Len(<<first>>) = 1 /\ <<first>>[1] = first
  BY <1>1 DEF first, S
<1> DEFINE run == <<first>>
<1>3. run \in Seq(S) /\ Len(run) = 1 /\ run[1] = first
  BY <1>2
<1> HIDE DEF run
<1>4. \A i \in 1..Len(run) : i = Len(run)
  BY <1>3
<1>5. WalkTo(br, ty, open, run, first)
  BY <1>3, <1>4 DEF WalkTo, first, S
<1>6. QED
  BY <1>5 DEF run, first

LEMMA WalkToGrows ==
  ASSUME NEW br, NEW ty, NEW open, NEW run, NEW c, NEW d \in Configs(open),
         WalkTo(br, ty, open, run, c), StepsTo(br, ty, open, c, d)
  PROVE  WalkTo(br, ty, open, Append(run, d), d)
<1> DEFINE more == Append(run, d)
           S == Configs(open)
<1>1. /\ run \in Seq(S) /\ Len(run) \in Nat \ {0} /\ run[1] = FirstConfig /\ run[Len(run)] = c
      /\ \A i \in 1..Len(run) : i # Len(run) => StepsTo(br, ty, open, run[i], run[i + 1])
  BY DEF WalkTo
<1> HIDE DEF S
<1>2. d \in S
  BY DEF S
<1>3. /\ more \in Seq(S) /\ Len(more) = Len(run) + 1 /\ more[Len(run) + 1] = d
      /\ \A i \in 1..Len(run) : more[i] = run[i]
  BY <1>1, <1>2, AppendProperties
<1> HIDE DEF more
<1>4. ASSUME NEW i \in 1..Len(more), i # Len(more)
      PROVE  StepsTo(br, ty, open, more[i], more[i + 1])
  <2>1. i \in 1..Len(run)
    BY <1>1, <1>3, <1>4
  <2>2. CASE i = Len(run)
    BY <1>1, <1>3, <2>1, <2>2
  <2>3. CASE i # Len(run)
    <3>1. i + 1 \in 1..Len(run)
      BY <1>1, <2>1, <2>3
    <3>2. QED
      BY <1>1, <1>3, <2>1, <2>3, <3>1
  <2>4. QED
    BY <2>2, <2>3
<1>5. 1 \in 1..Len(run) /\ Len(more) \in Nat \ {0}
  BY <1>1, <1>3
<1>6. more[1] = FirstConfig /\ more[Len(more)] = d
  BY <1>1, <1>3, <1>5
<1>7. WalkTo(br, ty, open, more, d)
  BY <1>3, <1>4, <1>5, <1>6 DEF WalkTo, S
<1>8. QED
  BY <1>7 DEF more

LEMMA OpeningKept ==
  ASSUME tree' = tree
  PROVE  Branches' = Branches /\ Types' = Types /\ Opening' = Opening
<1>1. \A node \in Objects : Expands(node)' <=> Expands(node)
  BY DEF Expands, Kids
<1>2. Opening' = Opening
  BY <1>1 DEF Opening
<1>3. QED
  BY <1>2, TreeKept

(* No leaf was left out for want of depth or nodes.                         *)
Limits == {"MaxDepth", "MaxVisitedNodes"}
Unlimited == \A i \in 1..Len(leafSkips) : leafSkips[i].reason \notin Limits

LeafConfig == Config(frames, visited, leaves)

LeafRuns ==
  leafPhase \in {"walking", "done"} /\ Unlimited =>
    \E run : WalkTo(Branches, Types, Opening, run, LeafConfig)

LEMMA LeafConfigTyped ==
  ASSUME NEW s \in Seq(LeafFrame), NEW seen \in SUBSET Objects, NEW listed \in Seq(Objects),
         NEW open, \A i \in 1..Len(s) : s[i].node \in open
  PROVE  Config(s, seen, listed) \in Configs(open)
<1>1. Len(s) \in Nat /\ s = [i \in 1..Len(s) |-> s[i]]
  BY LenProperties
<1>2. \A i \in 1..Len(s) : s[i] \in OpenFrame(open)
  <2> TAKE i \in 1..Len(s)
  <2>1. s[i] \in LeafFrame /\ s[i].node \in open
    BY ElementOfSeq
  <2>2. s[i] = [node |-> s[i].node, next |-> s[i].next] /\ s[i].next \in Nat \ {0}
    BY <2>1 DEF LeafFrame
  <2>3. QED
    BY <2>1, <2>2 DEF OpenFrame
<1>3. s \in Seq(OpenFrame(open))
  <2> DEFINE F == OpenFrame(open)
  <2> HIDE DEF F
  <2>1. PICK n \in Nat : n = Len(s)
    BY <1>1
  <2>2. s \in [1..n -> F]
    BY <1>1, <1>2, <2>1, Zenon DEF F
  <2>3. QED
    BY <2>2 DEF F
<1>4. QED
  BY <1>3 DEF Config, Configs

(* A step of the leaf walk is one of these.                                 *)
LEMMA LeafRunsOn ==
  ASSUME tree' = tree, leafPhase' \in {"walking", "done"} => leafPhase = "walking",
         Unlimited' => Unlimited /\ StepsTo(Branches, Types, Opening, LeafConfig, LeafConfig'),
         LeafRuns, LeafConfig' \in Configs(Opening)
  PROVE  LeafRuns'
<1>1. Branches' = Branches /\ Types' = Types /\ Opening' = Opening
  BY OpeningKept
<1>2. ASSUME leafPhase' \in {"walking", "done"}, Unlimited'
      PROVE  \E run : WalkTo(Branches, Types, Opening, run, LeafConfig')
  <2>1. leafPhase \in {"walking", "done"} /\ Unlimited
        /\ StepsTo(Branches, Types, Opening, LeafConfig, LeafConfig')
    BY <1>2
  <2>2. PICK run : WalkTo(Branches, Types, Opening, run, LeafConfig)
    BY <2>1 DEF LeafRuns
  <2>3. WalkTo(Branches, Types, Opening, Append(run, LeafConfig'), LeafConfig')
    BY <2>1, <2>2, WalkToGrows
  <2>4. QED
    BY <2>3
<1>3. QED
  BY <1>1, <1>2 DEF LeafRuns

(* The leaf walk at a kid of its top call.                                  *)
LeafConfigAt(kid) ==
  /\ leafPhase = "walking" /\ tree \in TreeShape /\ frames \in Seq(LeafFrame)
  /\ Len(frames) \in Nat \ {0} /\ HasKid(Branches, frames) /\ KidAt(Branches, frames) = kid
  /\ Types[kid] = NodeType(kid)
  /\ Moved(frames, Advanced(frames)) /\ Advanced(frames) \in Seq(LeafFrame)

LEMMA FramesExpand ==
  ASSUME LeafBounded, KidsInv
  PROVE  AllExpand(frames)
<1>1. \A i \in 1..Len(frames) : frames[i].node \in visited /\ Expands(frames[i].node)
  BY DEF KidsInv, Expanded
<1>2. QED
  BY <1>1 DEF AllExpand, LeafBounded

LEMMA LeafKidConfig ==
  ASSUME LeafBounded, KidsInv, NEW kid \in Objects, AtKid(kid)
  PROVE  LeafConfigAt(kid)
<1>1. /\ leafPhase = "walking" /\ frames # <<>> /\ ~Exhausted(frames)
      /\ kid = Kids(Top(frames).node)[Top(frames).next]
  BY DEF AtKid
<1>2. tree \in TreeShape /\ AllExpand(frames)
  BY FramesExpand DEF KidsInv
<1>3. frames \in Seq(LeafFrame) /\ Len(frames) \in Nat \ {0} /\ frames[Len(frames)].next \in Nat \ {0}
  <2>1. frames \in Seq(LeafFrame) /\ Len(frames) \in Nat \ {0}
    BY <1>1, EmptySeq DEF LeafBounded
  <2>2. frames[Len(frames)] \in LeafFrame
    BY <2>1, ElementOfSeq
  <2>3. QED
    BY <2>1, <2>2 DEF LeafFrame
<1>4. HasKid(Branches, frames) /\ KidAt(Branches, frames) = kid
  BY <1>1, <1>2, <1>3, StackAtKid DEF Exhausted, Top
<1>5. Moved(frames, Advanced(frames)) /\ Advanced(frames) \in Seq(LeafFrame)
  BY <1>1, <1>3, FramesMove
<1>6. Types[kid] = NodeType(kid)
  BY <1>2, BranchesTyped
<1>7. QED
  BY <1>1, <1>2, <1>3, <1>4, <1>5, <1>6 DEF LeafConfigAt

LEMMA UnlimitedBefore ==
  ASSUME NEW skip \in SkipEntry, leafSkips \in Seq(SkipEntry), leafSkips' = Append(leafSkips, skip),
         Unlimited'
  PROVE  Unlimited /\ skip.reason \notin Limits
<1> DEFINE more == Append(leafSkips, skip)
<1>1. /\ Len(leafSkips) \in Nat /\ Len(more) = Len(leafSkips) + 1 /\ more[Len(leafSkips) + 1] = skip
      /\ \A i \in 1..Len(leafSkips) : more[i] = leafSkips[i]
  BY LenProperties, AppendProperties
<1>2. \A i \in 1..Len(more) : more[i].reason \notin Limits
  BY DEF Unlimited, Limits
<1> HIDE DEF more
<1>3. Len(leafSkips) + 1 \in 1..Len(more) /\ \A i \in 1..Len(leafSkips) : i \in 1..Len(more)
  BY <1>1
<1>4. QED
  BY <1>1, <1>2, <1>3 DEF Unlimited

(* What a skip of the leaf walk tells.                                      *)
LEMMA LeafSkipped ==
  ASSUME KidsInv, LeafBounded, leafPhase = "walking", NEW kid \in Objects, NEW reason \in LeafSkipReasons,
         LeafSkip(kid, reason), Unlimited'
  PROVE  Unlimited /\ reason \notin Limits
<1> DEFINE skip == [kid |-> kid, parent |-> Top(frames).node, reason |-> reason]
<1>1. Top(frames).node \in Objects
  <2>1. frames \in Seq(LeafFrame) /\ Len(frames) \in Nat \ {0}
    BY EmptySeq DEF LeafBounded
  <2>2. Top(frames) \in LeafFrame
    BY <2>1, ElementOfSeq DEF Top
  <2>3. QED
    BY <2>2 DEF LeafFrame
<1>2. skip \in SkipEntry /\ skip.reason = reason
  BY <1>1 DEF SkipEntry
<1>3. leafSkips \in Seq(SkipEntry) /\ leafSkips' = Append(leafSkips, skip)
  BY DEF KidsInv, Skipped, LeafSkip
<1> HIDE DEF skip
<1>4. QED
  BY <1>2, <1>3, UnlimitedBefore

LEMMA LeafStepsRun ==
  ASSUME LeafBounded, KidsInv, LeafRuns, LeafStep, LeafBounded', KidsInv'
  PROVE  LeafRuns'
<1>1. tree' = tree
  BY DEF LeafStep, StartLeaves, EmitLeaf, SkipKid, StopDescent, Descend, ReturnFromNode
<1>2. Branches' = Branches /\ Types' = Types /\ Opening' = Opening
  BY <1>1, OpeningKept
<1>3. LeafConfig' \in Configs(Opening)
  <2>1. frames' \in Seq(LeafFrame) /\ visited' \in SUBSET Objects
    BY DEF LeafBounded
  <2>2. leaves' \in Seq(Objects)
    BY DEF KidsInv, Skipped
  <2>3. \A i \in 1..Len(frames') : frames'[i].node \in Opening
    <3>1. \A node : node \in Expanded' => node \in visited' /\ Expands(node)'
      BY DEF Expanded
    <3>2. \A node : Expands(node)' => Expands(node)
      BY <1>1 DEF Expands, Kids
    <3>3. \A i \in 1..Len(frames') : frames'[i].node \in Expanded'
      BY DEF KidsInv
    <3>4. QED
      BY <2>1, <3>1, <3>2, <3>3 DEF Opening
  <2>4. Config(frames', visited', leaves') \in Configs(Opening)
    BY <2>1, <2>2, <2>3, LeafConfigTyped
  <2>5. QED
    BY <2>4 DEF LeafConfig, Config
<1> DEFINE c == LeafConfig
           d == LeafConfig'
<1>4. /\ c.stack = frames /\ c.seen = visited /\ c.listed = leaves
      /\ d.stack = frames' /\ d.seen = visited' /\ d.listed = leaves'
  BY DEF LeafConfig, Config
<1>5. ASSUME leafPhase = "walking",
             Unlimited' => Unlimited /\ StepsTo(Branches, Types, Opening, LeafConfig, LeafConfig')
      PROVE  LeafRuns'
  BY <1>1, <1>3, <1>5, LeafRunsOn
<1> HIDE DEF c, d
<1>6. ASSUME Unlimited' => Unlimited /\ StepsTo(Branches, Types, Opening, c, d)
      PROVE  Unlimited' => Unlimited /\ StepsTo(Branches, Types, Opening, LeafConfig, LeafConfig')
  BY <1>6 DEF c, d
<1>7. CASE StartLeaves
  <2>1. CASE Expands(Root)
    <3>1. /\ frames' = <<Frame(Root)>> /\ visited' = {Root} /\ leaves' = <<>>
      BY <1>7, <2>1 DEF StartLeaves, KidsInv
    <3>2. LeafConfig' = FirstConfig
      BY <3>1 DEF LeafConfig, Config, FirstConfig
    <3>3. Root \in Opening
      BY <2>1, RootIsObject DEF Opening
    <3>4. WalkTo(Branches, Types, Opening, <<FirstConfig>>, FirstConfig)
      BY <3>3, WalkToStarts
    <3>5. \E run : WalkTo(Branches, Types, Opening, run, LeafConfig')
      BY <3>2, <3>4
    <3>6. QED
      BY <1>2, <3>5 DEF LeafRuns
  <2>2. CASE ~Expands(Root)
    BY <1>7, <2>2 DEF StartLeaves, LeafRuns
  <2>3. QED
    BY <2>1, <2>2
<1>8. CASE EmitLeaf
  <2>1. PICK kid \in Objects :
          /\ AtKid(kid) /\ NodeType(kid) = "Page" /\ leaves' = Append(leaves, kid)
          /\ frames' = Advanced(frames) /\ leafSkips' = leafSkips /\ visited' = visited
    BY <1>8 DEF EmitLeaf
  <2>2. LeafConfigAt(kid)
    BY <2>1, LeafKidConfig
  <2>3. GoesOn(c, d)
    BY <1>4, <2>1, <2>2 DEF LeafConfigAt, GoesOn
  <2>4. TakesLeaf(Types, c, d, kid)
    BY <1>4, <2>1, <2>2, <2>3 DEF LeafConfigAt, TakesLeaf
  <2>5. StepsTo(Branches, Types, Opening, c, d)
    BY <1>4, <2>2, <2>4 DEF LeafConfigAt, StepsTo
  <2>6. Unlimited' => Unlimited
    BY <2>1 DEF Unlimited
  <2>7. QED
    BY <1>5, <1>6, <2>2, <2>5, <2>6 DEF LeafConfigAt
<1>9. CASE SkipKid
  <2>1. PICK kid \in Objects :
          /\ AtKid(kid) /\ NodeType(kid) \in {"Other", "Unresolved"} /\ LeafSkip(kid, NodeType(kid))
          /\ frames' = Advanced(frames) /\ leaves' = leaves /\ visited' = visited
    BY <1>9 DEF SkipKid
  <2>2. LeafConfigAt(kid)
    BY <2>1, LeafKidConfig
  <2>3. GoesOn(c, d)
    BY <1>4, <2>1, <2>2 DEF LeafConfigAt, GoesOn
  <2>4. PassesBy(Types, c, d, kid)
    BY <1>4, <2>1, <2>2, <2>3 DEF LeafConfigAt, PassesBy
  <2>5. StepsTo(Branches, Types, Opening, c, d)
    BY <1>4, <2>2, <2>4 DEF LeafConfigAt, StepsTo
  <2>6. NodeType(kid) \in LeafSkipReasons
    BY <2>1 DEF LeafSkipReasons
  <2>7. Unlimited' => Unlimited
    BY <2>1, <2>2, <2>6, LeafSkipped DEF LeafConfigAt
  <2>8. QED
    BY <1>5, <1>6, <2>2, <2>5, <2>7 DEF LeafConfigAt
<1>10. CASE StopDescent
  <2>1. PICK kid \in Objects :
          /\ AtKid(kid) /\ NodeType(kid) = "Pages" /\ CrossedBound(kid) # Absent
          /\ LeafSkip(kid, CrossedBound(kid))
          /\ frames' = Advanced(frames) /\ leaves' = leaves /\ visited' = visited
    BY <1>10 DEF StopDescent
  <2>2. LeafConfigAt(kid)
    BY <2>1, LeafKidConfig
  <2>3. CrossedBound(kid) \in LeafSkipReasons /\ (CrossedBound(kid) \notin Limits => kid \in visited)
    BY <2>1 DEF CrossedBound, LeafSkipReasons, Bounds, Limits
  <2>4. Unlimited' => Unlimited /\ kid \in visited
    BY <2>1, <2>2, <2>3, LeafSkipped DEF LeafConfigAt
  <2>5. GoesOn(c, d)
    BY <1>4, <2>1, <2>2 DEF LeafConfigAt, GoesOn
  <2>6. kid \in visited => PassesBy(Types, c, d, kid)
    BY <1>4, <2>1, <2>2, <2>5 DEF LeafConfigAt, PassesBy
  <2>7. kid \in visited => StepsTo(Branches, Types, Opening, c, d)
    BY <1>4, <2>2, <2>6 DEF LeafConfigAt, StepsTo
  <2>8. QED
    BY <1>5, <1>6, <2>2, <2>4, <2>7 DEF LeafConfigAt
<1>11. CASE Descend
  <2>1. PICK kid \in Objects :
          /\ AtKid(kid) /\ NodeType(kid) = "Pages" /\ CrossedBound(kid) = Absent /\ Enter(kid)
          /\ IF Expands(kid)
             THEN frames' = Append(Advanced(frames), Frame(kid)) /\ leafSkips' = leafSkips
             ELSE LeafSkip(kid, "NodeExpansionFailed") /\ frames' = Advanced(frames)
          /\ leaves' = leaves
    BY <1>11 DEF Descend
  <2>2. LeafConfigAt(kid)
    BY <2>1, LeafKidConfig
  <2>3. kid \notin visited /\ Len(frames) <= MaxDepth
    <3>1. kid \notin visited /\ ~(Len(frames) > MaxDepth)
      BY <2>1, AbsentIsNoBound DEF CrossedBound, Bounds
    <3>2. QED
      BY <2>2, <3>1, BoundsAreNat DEF LeafConfigAt
  <2>4. visited' = visited \cup {kid}
    BY <2>1 DEF Enter
  <2>5. IF kid \in Opening THEN Opened(frames, frames', kid) ELSE Moved(frames, frames')
    <3>1. CASE Expands(kid)
      <4>1. Frame(kid) \in LeafFrame /\ Frame(kid).node = kid /\ Frame(kid).next = 1
        BY DEF Frame, LeafFrame
      <4>2. Opened(frames, Append(Advanced(frames), Frame(kid)), Frame(kid).node)
        BY <2>2, <4>1, StackOpens DEF LeafConfigAt
      <4>3. Opened(frames, frames', kid)
        BY <2>1, <3>1, <4>1, <4>2
      <4>4. QED
        BY <3>1, <4>3 DEF Opening
    <3>2. CASE ~Expands(kid)
      BY <2>1, <2>2, <3>2 DEF Opening, LeafConfigAt
    <3>3. QED
      BY <3>1, <3>2
  <2>6. GoesInto(Types, Opening, c, d, kid)
    BY <1>4, <2>1, <2>2, <2>3, <2>4, <2>5 DEF LeafConfigAt, GoesInto
  <2>7. StepsTo(Branches, Types, Opening, c, d)
    BY <1>4, <2>2, <2>6 DEF LeafConfigAt, StepsTo
  <2>8. Unlimited' => Unlimited
    <3>1. CASE Expands(kid)
      BY <2>1, <3>1 DEF Unlimited
    <3>2. CASE ~Expands(kid)
      <4>1. "NodeExpansionFailed" \in LeafSkipReasons
        BY DEF LeafSkipReasons
      <4>2. QED
        BY <2>1, <2>2, <3>2, <4>1, LeafSkipped DEF LeafConfigAt
    <3>3. QED
      BY <3>1, <3>2
  <2>9. QED
    BY <1>5, <1>6, <2>2, <2>7, <2>8 DEF LeafConfigAt
<1>12. CASE ReturnFromNode
  <2>1. /\ leafPhase = "walking" /\ Exhausted(frames) /\ frames' = Front(frames)
        /\ leaves' = leaves /\ leafSkips' = leafSkips /\ visited' = visited
    BY <1>12 DEF ReturnFromNode
  <2>2. frames \in Seq(LeafFrame) /\ frames # <<>> /\ Len(frames) \in Nat \ {0}
        /\ frames[Len(frames)].next \in Nat \ {0}
    <3>1. frames \in Seq(LeafFrame) /\ frames # <<>> /\ Len(frames) \in Nat \ {0}
      BY <2>1, EmptySeq DEF LeafBounded
    <3>2. frames[Len(frames)] \in LeafFrame
      BY <3>1, ElementOfSeq
    <3>3. QED
      BY <3>1, <3>2 DEF LeafFrame
  <2>3. ~HasKid(Branches, frames)
    <3>1. tree \in TreeShape /\ AllExpand(frames)
      BY FramesExpand DEF KidsInv
    <3>2. QED
      BY <2>1, <2>2, <3>1, StackAtKid DEF Exhausted, Top
  <2>4. Closed(frames, frames')
    BY <2>1, <2>2, StackCloses
  <2>5. GoesBack(c, d)
    BY <1>4, <2>1, <2>4 DEF GoesBack
  <2>6. StepsTo(Branches, Types, Opening, c, d)
    BY <1>4, <2>3, <2>5 DEF StepsTo
  <2>7. Unlimited' => Unlimited
    BY <2>1 DEF Unlimited
  <2>8. QED
    BY <1>5, <1>6, <2>1, <2>6, <2>7
<1>13. QED
  BY <1>7, <1>8, <1>9, <1>10, <1>11, <1>12 DEF LeafStep

-----------------------------------------------------------------------------
(***************************************************************************)
(* The indexes a box walk has given out, when these are the leaves met.    *)
(***************************************************************************)
Indexed(skips) == {j \in 1..Len(skips) : skips[j].page_index # Absent}

PageNumbers(list) == {<<list[i].page_index, list[i].leaf>> : i \in 1..Len(list)}
SkipNumbers(skips) == {<<skips[i].page_index, skips[i].kid>> : i \in Indexed(skips)}
Numbering(listed) == {<<i - 1, listed[i]>> : i \in 1..Len(listed)}

NumberedBy(list, skips, listed) ==
  /\ PageNumbers(list) \cup SkipNumbers(skips) = Numbering(listed)
  /\ Len(list) + Cardinality(Indexed(skips)) = Len(listed)

(* One more element behind a sequence.                                      *)
OneBehind(s, t, e) ==
  /\ Len(s) \in Nat /\ Len(t) = Len(s) + 1 /\ t[Len(s) + 1] = e /\ \A i \in 1..Len(s) : t[i] = s[i]

LEMMA AppendedOne ==
  ASSUME NEW S, NEW s \in Seq(S), NEW e \in S
  PROVE  OneBehind(s, Append(s, e), e)
BY LenProperties, AppendProperties DEF OneBehind

LEMMA NumberingGrows ==
  ASSUME NEW listed, NEW more, NEW leaf, OneBehind(listed, more, leaf)
  PROVE  \A x : x \in Numbering(more) <=> x \in Numbering(listed) \/ x = <<Len(listed), leaf>>
<1>1. Len(listed) \in Nat /\ Len(more) = Len(listed) + 1 /\ more[Len(listed) + 1] = leaf
      /\ \A i \in 1..Len(listed) : more[i] = listed[i]
  BY DEF OneBehind
<1>2. \A i : i \in 1..Len(more) <=> i \in 1..Len(listed) \/ i = Len(listed) + 1
  BY <1>1
<1>3. (Len(listed) + 1) - 1 = Len(listed)
  BY <1>1
<1>4. ASSUME NEW x
      PROVE  x \in Numbering(more) <=> x \in Numbering(listed) \/ x = <<Len(listed), leaf>>
  <2>1. x \in Numbering(more) <=> \E i \in 1..Len(more) : x = <<i - 1, more[i]>>
    BY Zenon DEF Numbering
  <2>2. x \in Numbering(listed) <=> \E i \in 1..Len(listed) : x = <<i - 1, listed[i]>>
    BY Zenon DEF Numbering
  <2>3. (\E i \in 1..Len(more) : x = <<i - 1, more[i]>>)
          <=> (\E i \in 1..Len(listed) : x = <<i - 1, more[i]>>)
              \/ x = <<(Len(listed) + 1) - 1, more[Len(listed) + 1]>>
    BY <1>2, Zenon
  <2>4. (\E i \in 1..Len(listed) : x = <<i - 1, more[i]>>)
          <=> (\E i \in 1..Len(listed) : x = <<i - 1, listed[i]>>)
    BY <1>1, Zenon
  <2>5. QED
    BY <1>1, <1>3, <2>1, <2>2, <2>3, <2>4
<1>5. QED
  BY <1>4

LEMMA PagesGrow ==
  ASSUME NEW list, NEW more, NEW page, OneBehind(list, more, page)
  PROVE  \A x : x \in PageNumbers(more) <=>
           x \in PageNumbers(list) \/ x = <<page.page_index, page.leaf>>
<1>1. Len(list) \in Nat /\ Len(more) = Len(list) + 1 /\ more[Len(list) + 1] = page
      /\ \A i \in 1..Len(list) : more[i] = list[i]
  BY DEF OneBehind
<1>2. \A i : i \in 1..Len(more) <=> i \in 1..Len(list) \/ i = Len(list) + 1
  BY <1>1
<1>3. ASSUME NEW x
      PROVE  x \in PageNumbers(more) <=> x \in PageNumbers(list) \/ x = <<page.page_index, page.leaf>>
  <2>1. x \in PageNumbers(more) <=> \E i \in 1..Len(more) : x = <<more[i].page_index, more[i].leaf>>
    BY Zenon DEF PageNumbers
  <2>2. x \in PageNumbers(list) <=> \E i \in 1..Len(list) : x = <<list[i].page_index, list[i].leaf>>
    BY Zenon DEF PageNumbers
  <2>3. (\E i \in 1..Len(more) : x = <<more[i].page_index, more[i].leaf>>)
          <=> (\E i \in 1..Len(list) : x = <<more[i].page_index, more[i].leaf>>)
              \/ x = <<more[Len(list) + 1].page_index, more[Len(list) + 1].leaf>>
    BY <1>2, Zenon
  <2>4. (\E i \in 1..Len(list) : x = <<more[i].page_index, more[i].leaf>>)
          <=> (\E i \in 1..Len(list) : x = <<list[i].page_index, list[i].leaf>>)
    BY <1>1, Zenon
  <2>5. QED
    BY <1>1, <2>1, <2>2, <2>3, <2>4
<1>4. QED
  BY <1>3

LEMMA SkipsGrow ==
  ASSUME NEW skips, NEW more, NEW skip, OneBehind(skips, more, skip)
  PROVE  /\ Indexed(more) = Indexed(skips)
              \cup (IF skip.page_index # Absent THEN {Len(skips) + 1} ELSE {})
         /\ \A x : x \in SkipNumbers(more) <=>
              \/ x \in SkipNumbers(skips)
              \/ skip.page_index # Absent /\ x = <<skip.page_index, skip.kid>>
<1>1. Len(skips) \in Nat /\ Len(more) = Len(skips) + 1 /\ more[Len(skips) + 1] = skip
      /\ \A i \in 1..Len(skips) : more[i] = skips[i]
  BY DEF OneBehind
<1>2. \A i : i \in 1..Len(more) <=> i \in 1..Len(skips) \/ i = Len(skips) + 1
  BY <1>1
<1>3. /\ \A i \in 1..Len(skips) : i \in Indexed(more) <=> i \in Indexed(skips)
      /\ Len(skips) + 1 \in Indexed(more) <=> skip.page_index # Absent
      /\ \A i \in Indexed(more) : i \in 1..Len(skips) \/ i = Len(skips) + 1
      /\ \A i \in Indexed(skips) : i \in 1..Len(skips)
  BY <1>1, <1>2 DEF Indexed
<1>4. Indexed(more) = Indexed(skips) \cup (IF skip.page_index # Absent THEN {Len(skips) + 1} ELSE {})
  BY <1>3
<1>5. ASSUME NEW x
      PROVE  x \in SkipNumbers(more) <=>
               \/ x \in SkipNumbers(skips)
               \/ skip.page_index # Absent /\ x = <<skip.page_index, skip.kid>>
  <2>1. x \in SkipNumbers(more) <=> \E i \in Indexed(more) : x = <<more[i].page_index, more[i].kid>>
    BY Zenon DEF SkipNumbers
  <2>2. x \in SkipNumbers(skips) <=> \E i \in Indexed(skips) : x = <<skips[i].page_index, skips[i].kid>>
    BY Zenon DEF SkipNumbers
  <2>3. (\E i \in Indexed(skips) : x = <<skips[i].page_index, skips[i].kid>>)
          <=> \E i \in Indexed(skips) : x = <<more[i].page_index, more[i].kid>>
    BY <1>1, <1>3, Zenon
  <2>4. (\E i \in Indexed(more) : x = <<more[i].page_index, more[i].kid>>)
          <=> \/ \E i \in Indexed(skips) : x = <<more[i].page_index, more[i].kid>>
              \/ Len(skips) + 1 \in Indexed(more)
                 /\ x = <<more[Len(skips) + 1].page_index, more[Len(skips) + 1].kid>>
    BY <1>3, Zenon
  <2>5. QED
    BY <1>1, <1>3, <2>1, <2>2, <2>3, <2>4
<1>6. QED
  BY <1>4, <1>5

LEMMA NumbersNothing == NumberedBy(<<>>, <<>>, <<>>)
<1>1. 1..Len(<<>>) = {} /\ Len(<<>>) = 0
  OBVIOUS
<1>2. Indexed(<<>>) = {}
  BY <1>1 DEF Indexed
<1>3. PageNumbers(<<>>) = {} /\ SkipNumbers(<<>>) = {} /\ Numbering(<<>>) = {}
  BY <1>1, <1>2 DEF PageNumbers, SkipNumbers, Numbering
<1>4. Cardinality({}) = 0
  BY FS_EmptySet
<1>5. PageNumbers(<<>>) \cup SkipNumbers(<<>>) = Numbering(<<>>)
  BY <1>3
<1>6. Len(<<>>) + Cardinality(Indexed(<<>>)) = Len(<<>>)
  <2>1. Cardinality(Indexed(<<>>)) = 0
    BY <1>2, <1>4
  <2>2. QED
    BY <1>1, <2>1
<1>7. QED
  BY <1>5, <1>6, Zenon DEF NumberedBy

LEMMA NumbersReport ==
  ASSUME NEW list, NEW more, NEW skips, NEW listed, NEW longer, NEW page,
         NumberedBy(list, skips, listed), Len(skips) \in Nat,
         OneBehind(list, more, page), OneBehind(listed, longer, page.leaf), page.page_index = Len(listed)
  PROVE  NumberedBy(more, skips, longer)
<1>1. /\ PageNumbers(list) \cup SkipNumbers(skips) = Numbering(listed)
      /\ Len(list) + Cardinality(Indexed(skips)) = Len(listed)
  BY DEF NumberedBy
<1>2. \A x : x \in PageNumbers(more) <=> x \in PageNumbers(list) \/ x = <<page.page_index, page.leaf>>
  BY PagesGrow
<1>3. \A x : x \in Numbering(longer) <=> x \in Numbering(listed) \/ x = <<Len(listed), page.leaf>>
  BY NumberingGrows
<1>4. \A x : x \in PageNumbers(more) \/ x \in SkipNumbers(skips) <=> x \in Numbering(longer)
  <2>1. \A x : x \in PageNumbers(list) \/ x \in SkipNumbers(skips) <=> x \in Numbering(listed)
    BY <1>1
  <2>2. QED
    BY <1>2, <1>3, <2>1
<1>5. PageNumbers(more) \cup SkipNumbers(skips) = Numbering(longer)
  BY <1>4
<1>6. Cardinality(Indexed(skips)) \in Nat
  <2>1. Indexed(skips) \in SUBSET (1..Len(skips))
    BY DEF Indexed
  <2>2. QED
    BY <2>1, CountOneMore
<1>7. Len(more) = Len(list) + 1 /\ Len(longer) = Len(listed) + 1 /\ Len(list) \in Nat
  BY DEF OneBehind
<1>8. Len(more) + Cardinality(Indexed(skips)) = Len(longer)
  <2> DEFINE count == Cardinality(Indexed(skips))
  <2>1. count \in Nat /\ Len(list) + count = Len(listed)
    BY <1>1, <1>6
  <2> HIDE DEF count
  <2>2. Len(more) + count = Len(longer)
    BY <1>7, <2>1
  <2>3. QED
    BY <2>2 DEF count
<1>9. QED
  BY <1>5, <1>8 DEF NumberedBy

LEMMA NumbersRefusal ==
  ASSUME NEW list, NEW skips, NEW more, NEW listed, NEW longer, NEW skip,
         NumberedBy(list, skips, listed), Len(list) \in Nat,
         OneBehind(skips, more, skip), OneBehind(listed, longer, skip.kid),
         skip.page_index = Len(listed), skip.page_index # Absent
  PROVE  NumberedBy(list, more, longer)
<1>1. /\ PageNumbers(list) \cup SkipNumbers(skips) = Numbering(listed)
      /\ Len(list) + Cardinality(Indexed(skips)) = Len(listed)
  BY DEF NumberedBy
<1>2. Indexed(more) = Indexed(skips) \cup {Len(skips) + 1}
  BY SkipsGrow
<1>3. \A x : x \in SkipNumbers(more) <=> x \in SkipNumbers(skips) \/ x = <<skip.page_index, skip.kid>>
  BY SkipsGrow
<1>4. \A x : x \in Numbering(longer) <=> x \in Numbering(listed) \/ x = <<Len(listed), skip.kid>>
  BY NumberingGrows
<1>5. PageNumbers(list) \cup SkipNumbers(more) = Numbering(longer)
  <2>1. \A x : x \in PageNumbers(list) \/ x \in SkipNumbers(skips) <=> x \in Numbering(listed)
    BY <1>1
  <2>2. \A x : x \in PageNumbers(list) \/ x \in SkipNumbers(more) <=> x \in Numbering(longer)
    BY <1>3, <1>4, <2>1
  <2>3. QED
    BY <2>2
<1>6. Len(skips) \in Nat /\ Len(longer) = Len(listed) + 1
  BY DEF OneBehind
<1>7. /\ Cardinality(Indexed(skips)) \in Nat
      /\ Cardinality(Indexed(skips) \cup {Len(skips) + 1}) = Cardinality(Indexed(skips)) + 1
  <2>1. Indexed(skips) \in SUBSET (1..Len(skips))
    BY DEF Indexed
  <2>2. QED
    BY <1>6, <2>1, CountOneMore
<1>8. Len(list) + Cardinality(Indexed(more)) = Len(longer)
  <2>1. Cardinality(Indexed(more)) = Cardinality(Indexed(skips)) + 1
    BY <1>2, <1>7
  <2> DEFINE count == Cardinality(Indexed(skips))
             counted == Cardinality(Indexed(more))
  <2>2. count \in Nat /\ counted = count + 1 /\ Len(list) + count = Len(listed)
    BY <1>1, <1>7, <2>1
  <2> HIDE DEF count, counted
  <2>3. Len(list) + counted = Len(longer)
    BY <1>6, <2>2
  <2>4. QED
    BY <2>3 DEF counted
<1>9. QED
  BY <1>5, <1>8 DEF NumberedBy

LEMMA NumbersNoIndex ==
  ASSUME NEW list, NEW skips, NEW more, NEW listed, NEW skip,
         NumberedBy(list, skips, listed), OneBehind(skips, more, skip), skip.page_index = Absent
  PROVE  NumberedBy(list, more, listed)
<1>1. Indexed(more) = Indexed(skips)
  BY SkipsGrow
<1>2. SkipNumbers(more) = SkipNumbers(skips)
  <2>1. \A x : x \in SkipNumbers(more) <=> x \in SkipNumbers(skips)
    BY SkipsGrow
  <2>2. QED
    BY <2>1
<1>3. QED
  BY <1>1, <1>2 DEF NumberedBy

-----------------------------------------------------------------------------
(***************************************************************************)
(* The box walk is at a place that the leaf walk has been at.              *)
(***************************************************************************)
SameCalls(s, t) ==
  /\ Len(s) = Len(t)
  /\ \A i \in 1..Len(t) : s[i].node = t[i].node /\ s[i].next = t[i].next

BoxesAt(c) ==
  /\ SameCalls(boxFrames, c.stack) /\ boxVisited = c.seen
  /\ page_index = Len(c.listed) /\ NumberedBy(pages, boxSkips, c.listed)

BoxRuns ==
  /\ boxPhase = "idle" => boxVisited = {} /\ boxSkips = <<>>
  /\ boxPhase # "idle" => leafPhase = "done"
  /\ boxPhase # "idle" /\ Unlimited =>
       \E run : /\ WalkTo(Branches, Types, Opening, run, LeafConfig)
                /\ \E m \in 1..Len(run) : BoxesAt(run[m])

LEMMA SameMoved ==
  ASSUME NEW s, NEW t, NEW c, NEW d, SameCalls(s, c), Moved(s, t), Moved(c, d)
  PROVE  SameCalls(t, d)
<1>1. Len(s) = Len(c) /\ Len(t) = Len(s) /\ Len(d) = Len(c)
  BY DEF SameCalls, Moved
<1>2. \A i \in 1..Len(c) : s[i].node = c[i].node /\ s[i].next = c[i].next
  BY DEF SameCalls
<1>3. \A i \in 1..Len(s) :
        t[i].node = s[i].node /\ t[i].next = IF i = Len(s) THEN s[i].next + 1 ELSE s[i].next
  BY DEF Moved, SameNodes
<1>4. \A i \in 1..Len(c) :
        d[i].node = c[i].node /\ d[i].next = IF i = Len(c) THEN c[i].next + 1 ELSE c[i].next
  BY DEF Moved, SameNodes
<1>5. \A i \in 1..Len(d) : t[i].node = d[i].node /\ t[i].next = d[i].next
  BY <1>1, <1>2, <1>3, <1>4
<1>6. QED
  BY <1>1, <1>5 DEF SameCalls

LEMMA SameOpened ==
  ASSUME NEW s, NEW t, NEW c, NEW d, NEW kid, SameCalls(s, c), Opened(s, t, kid), Opened(c, d, kid)
  PROVE  SameCalls(t, d)
<1>1. Len(s) = Len(c) /\ Len(t) = Len(s) + 1 /\ Len(d) = Len(c) + 1 /\ Len(s) \in Nat
  BY DEF SameCalls, Opened
<1>2. \A i \in 1..Len(c) : s[i].node = c[i].node /\ s[i].next = c[i].next
  BY DEF SameCalls
<1>3. \A i \in 1..Len(s) :
        t[i].node = s[i].node /\ t[i].next = IF i = Len(s) THEN s[i].next + 1 ELSE s[i].next
  BY DEF Opened, SameNodes
<1>4. \A i \in 1..Len(c) :
        d[i].node = c[i].node /\ d[i].next = IF i = Len(c) THEN c[i].next + 1 ELSE c[i].next
  BY DEF Opened, SameNodes
<1>5. /\ t[Len(s) + 1].node = kid /\ t[Len(s) + 1].next = 1
      /\ d[Len(c) + 1].node = kid /\ d[Len(c) + 1].next = 1
  BY DEF Opened
<1>6. \A i \in 1..Len(d) : i \in 1..Len(c) \/ i = Len(c) + 1
  BY <1>1
<1>7. \A i \in 1..Len(d) : t[i].node = d[i].node /\ t[i].next = d[i].next
  BY <1>1, <1>2, <1>3, <1>4, <1>5, <1>6
<1>8. QED
  BY <1>1, <1>7 DEF SameCalls

LEMMA SameClosed ==
  ASSUME NEW s, NEW t, NEW c, NEW d, SameCalls(s, c), Closed(s, t), Closed(c, d)
  PROVE  SameCalls(t, d)
<1>1. Len(s) = Len(c) /\ Len(t) = Len(s) - 1 /\ Len(d) = Len(c) - 1 /\ Len(s) \in Nat \ {0}
  BY DEF SameCalls, Closed
<1>2. \A i \in 1..Len(c) : s[i].node = c[i].node /\ s[i].next = c[i].next
  BY DEF SameCalls
<1>3. \A i \in 1..Len(t) : t[i].node = s[i].node /\ t[i].next = s[i].next
  BY DEF Closed, SameNodes
<1>4. \A i \in 1..Len(d) : d[i].node = c[i].node /\ d[i].next = c[i].next
  BY DEF Closed, SameNodes
<1>5. \A i \in 1..Len(d) : i \in 1..Len(c) /\ i \in 1..Len(t)
  BY <1>1
<1>6. \A i \in 1..Len(d) : t[i].node = d[i].node /\ t[i].next = d[i].next
  BY <1>2, <1>3, <1>4, <1>5
<1>7. QED
  BY <1>1, <1>6 DEF SameCalls

(* A step of the run at hand; nothing is open only when the leaf walk ended. *)
NextConfig(run, m) ==
  /\ m \in 1..Len(run) /\ m + 1 \in 1..Len(run)
  /\ run[m] \in Configs(Opening) /\ run[m + 1] \in Configs(Opening)
  /\ StepsTo(Branches, Types, Opening, run[m], run[m + 1])

LEMMA RunGoesOn ==
  ASSUME NEW run, WalkTo(Branches, Types, Opening, run, LeafConfig), NEW m \in 1..Len(run),
         frames = <<>>, run[m].stack # <<>>
  PROVE  NextConfig(run, m)
<1> DEFINE S == Configs(Opening)
<1>1. /\ run \in Seq(S) /\ Len(run) \in Nat \ {0} /\ run[Len(run)] = LeafConfig
      /\ \A i \in 1..Len(run) : i # Len(run) => StepsTo(Branches, Types, Opening, run[i], run[i + 1])
  BY DEF WalkTo
<1> HIDE DEF S
<1>2. m # Len(run)
  BY <1>1 DEF LeafConfig, Config
<1>3. m \in Nat /\ m + 1 \in 1..Len(run)
  BY <1>1, <1>2
<1>4. run[m] \in S /\ run[m + 1] \in S
  BY <1>1, <1>3, ElementOfSeq
<1>5. QED
  BY <1>1, <1>2, <1>3, <1>4 DEF NextConfig, S

LEMMA RunEnds ==
  ASSUME NEW run, WalkTo(Branches, Types, Opening, run, LeafConfig), NEW m \in 1..Len(run),
         run[m].stack = <<>>
  PROVE  run[m] = LeafConfig
<1>1. /\ Len(run) \in Nat \ {0} /\ run[Len(run)] = LeafConfig
      /\ \A i \in 1..Len(run) : i # Len(run) => StepsTo(Branches, Types, Opening, run[i], run[i + 1])
  BY DEF WalkTo
<1>2. CASE m # Len(run)
  <2>1. StepsTo(Branches, Types, Opening, run[m], run[m + 1])
    BY <1>1, <1>2
  <2>2. Len(run[m].stack) \in Nat \ {0}
    BY <2>1 DEF StepsTo, GoesBack, TakesLeaf, PassesBy, GoesInto, GoesOn, Closed, Moved, Opened
  <2>3. Len(<<>>) = 0
    OBVIOUS
  <2>4. QED
    BY <2>2, <2>3
<1>3. QED
  BY <1>1, <1>2

BoxesIn(run, m) ==
  /\ WalkTo(Branches, Types, Opening, run, LeafConfig) /\ NextConfig(run, m) /\ BoxesAt(run[m])
  /\ tree \in TreeShape /\ boxFrames # <<>> /\ Len(boxFrames) \in Nat \ {0}
  /\ page_index \in Nat /\ pages \in Seq(StatedPages(tree)) /\ boxSkips \in Seq(SkipReport)
  /\ boxFrames \in Seq(BoxFrame(StatedBoxes(tree)))
  /\ AllExpand(run[m].stack) /\ Len(run[m].stack) = Len(boxFrames)
  /\ run[m].stack[Len(boxFrames)].node = boxFrames[Len(boxFrames)].node
  /\ run[m].stack[Len(boxFrames)].next = boxFrames[Len(boxFrames)].next
  /\ run[m].stack[Len(boxFrames)].next \in Nat \ {0}
  /\ run[m].listed \in Seq(Objects)
  /\ Moved(boxFrames, BoxAdvanced) /\ BoxAdvanced \in Seq(BoxFrame(StatedBoxes(tree)))

LEMMA BoxPlace ==
  ASSUME KidsInv, BoxesInv, BoxFollows, BoxRuns, boxPhase = "walking", Unlimited, boxFrames # <<>>
  PROVE  \E run, m : BoxesIn(run, m)
<1>1. PICK run : /\ WalkTo(Branches, Types, Opening, run, LeafConfig)
                 /\ \E m \in 1..Len(run) : BoxesAt(run[m])
  BY DEF BoxRuns
<1>2. PICK m \in 1..Len(run) : BoxesAt(run[m])
  BY <1>1
<1>3. /\ tree \in TreeShape /\ boxFrames \in Seq(BoxFrame(StatedBoxes(tree)))
      /\ page_index \in Nat /\ pages \in Seq(StatedPages(tree)) /\ boxSkips \in Seq(SkipReport)
      /\ Len(boxFrames) \in Nat \ {0} /\ frames = <<>>
  BY EmptySeq DEF BoxesInv, BoxFollows, BoxRuns, KidsInv
<1>4. SameCalls(boxFrames, run[m].stack)
  BY <1>2 DEF BoxesAt
<1>5. Len(run[m].stack) = Len(boxFrames) /\ Len(boxFrames) \in 1..Len(run[m].stack)
      /\ run[m].stack # <<>>
  <2>1. Len(run[m].stack) = Len(boxFrames)
    BY <1>4 DEF SameCalls
  <2>2. Len(<<>>) = 0
    OBVIOUS
  <2>3. QED
    BY <1>3, <2>1, <2>2
<1>6. /\ run[m].stack[Len(boxFrames)].node = boxFrames[Len(boxFrames)].node
      /\ run[m].stack[Len(boxFrames)].next = boxFrames[Len(boxFrames)].next
  BY <1>4, <1>5 DEF SameCalls
<1>7. NextConfig(run, m)
  BY <1>1, <1>3, <1>5, RunGoesOn
<1>8. run[m] \in Configs(Opening)
  BY <1>7 DEF NextConfig
<1>9. run[m].stack \in Seq(OpenFrame(Opening)) /\ run[m].listed \in Seq(Objects)
  BY <1>8 DEF Configs
<1>10. \A i \in 1..Len(run[m].stack) : run[m].stack[i] \in OpenFrame(Opening)
  BY <1>9, ElementOfSeq
<1>11. AllExpand(run[m].stack)
  BY <1>10 DEF OpenFrame, Opening, AllExpand
<1>12. run[m].stack[Len(boxFrames)].next \in Nat \ {0}
  <2>1. run[m].stack[Len(boxFrames)] \in OpenFrame(Opening)
    BY <1>5, <1>10
  <2>2. QED
    BY <2>1 DEF OpenFrame
<1>13. Moved(boxFrames, BoxAdvanced) /\ BoxAdvanced \in Seq(BoxFrame(StatedBoxes(tree)))
  BY <1>3, BoxMoves
<1>14. BoxesIn(run, m)
  BY <1>1, <1>2, <1>3, <1>5, <1>6, <1>7, <1>9, <1>11, <1>12, <1>13 DEF BoxesIn
<1>15. QED
  BY <1>14

(* What the next place is, from a kid.                                      *)
KidStep(run, m, kid) ==
  \/ TakesLeaf(Types, run[m], run[m + 1], kid)
  \/ PassesBy(Types, run[m], run[m + 1], kid)
  \/ GoesInto(Types, Opening, run[m], run[m + 1], kid)

LEMMA BoxTakesKid ==
  ASSUME NEW run, NEW m, BoxesIn(run, m), NEW kid \in Objects, AtBoxKid(kid)
  PROVE  Types[kid] = NodeType(kid) /\ KidStep(run, m, kid)
<1> DEFINE s == run[m].stack
<1>1. /\ tree \in TreeShape /\ AllExpand(s) /\ Len(s) \in Nat \ {0} /\ s[Len(s)].next \in Nat \ {0}
      /\ Len(s) = Len(boxFrames)
      /\ s[Len(s)].node = boxFrames[Len(boxFrames)].node /\ s[Len(s)].next = boxFrames[Len(boxFrames)].next
  BY DEF BoxesIn
<1>2. /\ TopFrame.next <= Len(Kids(TopFrame.node)) /\ kid = Kids(TopFrame.node)[TopFrame.next]
      /\ TopFrame = boxFrames[Len(boxFrames)]
  BY DEF AtBoxKid, TopFrame
<1> HIDE DEF s
<1>3. /\ HasKid(Branches, s) <=> ~(s[Len(s)].next > Len(Kids(s[Len(s)].node)))
      /\ KidAt(Branches, s) = Kids(s[Len(s)].node)[s[Len(s)].next]
  BY <1>1, StackAtKid
<1>4. s[Len(s)].node = TopFrame.node /\ s[Len(s)].next = TopFrame.next
  BY <1>1, <1>2
<1>5. Len(Kids(TopFrame.node)) \in Nat
  <2>1. Len(s) \in 1..Len(s)
    BY <1>1
  <2>2. s[Len(s)].node \in Objects /\ Expands(s[Len(s)].node)
    BY <1>1, <2>1 DEF AllExpand
  <2>3. Kids(s[Len(s)].node) \in Seq(Objects)
    BY <1>1, <2>2, BranchesTyped
  <2>4. QED
    BY <1>4, <2>3, LenProperties
<1>6. HasKid(Branches, s) /\ KidAt(Branches, s) = kid
  BY <1>1, <1>2, <1>3, <1>4, <1>5
<1>7. StepsTo(Branches, Types, Opening, run[m], run[m + 1])
  BY DEF BoxesIn, NextConfig
<1>8. Types[kid] = NodeType(kid)
  BY <1>1, BranchesTyped
<1>9. QED
  BY <1>6, <1>7, <1>8 DEF StepsTo, KidStep, s

LEMMA BoxRunsOn ==
  ASSUME tree' = tree, UNCHANGED leafVars, leafPhase = "done", boxPhase' # "idle",
         Unlimited => \E run : /\ WalkTo(Branches, Types, Opening, run, LeafConfig)
                               /\ \E m \in 1..Len(run) : BoxesAt(run[m])'
  PROVE  BoxRuns'
<1>1. Branches' = Branches /\ Types' = Types /\ Opening' = Opening
  BY OpeningKept
<1>2. LeafConfig' = LeafConfig /\ leafPhase' = "done" /\ (Unlimited' <=> Unlimited)
  BY DEF leafVars, LeafConfig, Config, Unlimited
<1>3. ASSUME Unlimited'
      PROVE  \E run : /\ WalkTo(Branches, Types, Opening, run, LeafConfig)'
                      /\ \E m \in 1..Len(run) : BoxesAt(run[m])'
  <2>1. PICK run : /\ WalkTo(Branches, Types, Opening, run, LeafConfig)
                   /\ \E m \in 1..Len(run) : BoxesAt(run[m])'
    BY <1>2, <1>3
  <2>2. WalkTo(Branches', Types', Opening', run, LeafConfig')
    BY <1>1, <1>2, <2>1
  <2>3. QED
    BY <2>1, <2>2
<1>4. QED
  BY <1>2, <1>3 DEF BoxRuns

(* From one place of the run to the next.                                   *)
LEMMA BoxesGoOn ==
  ASSUME tree' = tree, UNCHANGED leafVars, leafPhase = "done", boxPhase' # "idle",
         Unlimited => \E run, m : BoxesIn(run, m) /\ BoxesAt(run[m + 1])'
  PROVE  BoxRuns'
<1>1. ASSUME Unlimited
      PROVE  \E run : /\ WalkTo(Branches, Types, Opening, run, LeafConfig)
                      /\ \E m \in 1..Len(run) : BoxesAt(run[m])'
  <2>1. PICK run, m : BoxesIn(run, m) /\ BoxesAt(run[m + 1])'
    BY <1>1
  <2>2. m + 1 \in 1..Len(run) /\ WalkTo(Branches, Types, Opening, run, LeafConfig)
    BY <2>1 DEF BoxesIn, NextConfig
  <2>3. QED
    BY <2>1, <2>2
<1>2. QED
  BY <1>1, BoxRunsOn

BoxesReady ==
  KidsInv /\ BoxesInv /\ BoxFollows /\ BoxRuns /\ leafPhase = "done"

LEMMA BoxesAtNext ==
  ASSUME NEW run, NEW m, BoxesIn(run, m),
         Moved(run[m].stack, run[m + 1].stack), boxFrames' = BoxAdvanced
  PROVE  SameCalls(boxFrames', run[m + 1].stack)
<1>1. SameCalls(boxFrames, run[m].stack) /\ Moved(boxFrames, BoxAdvanced)
  BY DEF BoxesIn, BoxesAt
<1>2. QED
  BY <1>1, SameMoved

LEMMA BoxPassesOver ==
  ASSUME BoxesReady, UNCHANGED leafVars, PassOverKid
  PROVE  BoxRuns'
<1>1. PICK kid \in Objects :
        /\ AtBoxKid(kid) /\ NodeType(kid) \in {"Other", "Unresolved"} /\ boxFrames' = BoxAdvanced
        /\ tree' = tree /\ boxPhase' = boxPhase /\ boxVisited' = boxVisited
        /\ page_index' = page_index /\ pages' = pages /\ boxSkips' = boxSkips
  BY DEF PassOverKid
<1>2. boxPhase = "walking" /\ boxFrames # <<>>
  BY <1>1 DEF AtBoxKid
<1>3. ASSUME Unlimited
      PROVE  \E run, m : BoxesIn(run, m) /\ BoxesAt(run[m + 1])'
  <2>1. PICK run, m : BoxesIn(run, m)
    BY <1>2, <1>3, BoxPlace DEF BoxesReady
  <2>2. PassesBy(Types, run[m], run[m + 1], kid)
    BY <1>1, <2>1, BoxTakesKid DEF KidStep, TakesLeaf, GoesInto
  <2>3. /\ Moved(run[m].stack, run[m + 1].stack) /\ run[m + 1].seen = run[m].seen
        /\ run[m + 1].listed = run[m].listed
    BY <2>2 DEF PassesBy, GoesOn
  <2>4. SameCalls(boxFrames', run[m + 1].stack)
    BY <1>1, <2>1, <2>3, BoxesAtNext
  <2>5. BoxesAt(run[m])
    BY <2>1 DEF BoxesIn
  <2>6. BoxesAt(run[m + 1])'
    BY <1>1, <2>3, <2>4, <2>5 DEF BoxesAt
  <2>7. QED
    BY <2>1, <2>6
<1>4. QED
  BY <1>1, <1>2, <1>3, BoxesGoOn DEF BoxesReady

(* At a leaf both walks take it.                                            *)
LeafNext(run, m, leaf) ==
  /\ Moved(run[m].stack, run[m + 1].stack) /\ run[m + 1].seen = run[m].seen
  /\ OneBehind(run[m].listed, run[m + 1].listed, leaf)
  /\ Len(run[m + 1].listed) = Len(run[m].listed) + 1

LEMMA BoxTakesLeaf ==
  ASSUME NEW run, NEW m, BoxesIn(run, m), NEW leaf \in Objects, AtBoxKid(leaf), NodeType(leaf) = "Page"
  PROVE  LeafNext(run, m, leaf)
<1>1. TakesLeaf(Types, run[m], run[m + 1], leaf)
  BY BoxTakesKid DEF KidStep, PassesBy, GoesInto
<1>2. /\ Moved(run[m].stack, run[m + 1].stack) /\ run[m + 1].seen = run[m].seen
      /\ run[m + 1].listed = Append(run[m].listed, leaf)
  BY <1>1 DEF TakesLeaf, GoesOn
<1>3. run[m].listed \in Seq(Objects)
  BY DEF BoxesIn
<1>4. OneBehind(run[m].listed, run[m + 1].listed, leaf)
  BY <1>2, <1>3, AppendedOne
<1>5. QED
  BY <1>2, <1>4 DEF LeafNext, OneBehind

LEMMA BoxIndexesReport ==
  ASSUME BoxesReady, UNCHANGED leafVars, ReportLeaf, BoxesInv'
  PROVE  BoxRuns'
<1>1. PICK leaf \in Objects :
        /\ AtBoxKid(leaf) /\ NodeType(leaf) = "Page"
        /\ LET media == LeafBox(leaf, "MediaBox")
           IN  pages' = Append(pages, [page_index |-> page_index, leaf |-> leaf, media |-> media,
                                       crop |-> CropOrMedia(LeafBox(leaf, "CropBox"), media)])
        /\ page_index' = page_index + 1 /\ boxFrames' = BoxAdvanced
        /\ tree' = tree /\ boxPhase' = boxPhase /\ boxVisited' = boxVisited /\ boxSkips' = boxSkips
  BY DEF ReportLeaf, CountLeaf
<1>2. boxPhase = "walking" /\ boxFrames # <<>>
  BY <1>1 DEF AtBoxKid
<1> DEFINE media == LeafBox(leaf, "MediaBox")
           page == [page_index |-> page_index, leaf |-> leaf, media |-> media,
                    crop |-> CropOrMedia(LeafBox(leaf, "CropBox"), media)]
<1>3. pages' = Append(pages, page) /\ page.page_index = page_index /\ page.leaf = leaf
  BY <1>1
<1> HIDE DEF media, page
<1>4. OneBehind(pages, pages', page)
  <2>1. Len(pages) \in Nat
    BY LenProperties DEF BoxesReady, BoxesInv
  <2> DEFINE more == Append(pages, page)
  <2>2. Len(more) = Len(pages) + 1 /\ more[Len(pages) + 1] = page
        /\ \A i \in 1..Len(pages) : more[i] = pages[i]
    <3>1. pages \in Seq(StatedPages(tree) \cup {page})
      <4>1. pages \in Seq(StatedPages(tree)) /\ StatedPages(tree) \subseteq StatedPages(tree) \cup {page}
        BY DEF BoxesReady, BoxesInv
      <4> DEFINE A == StatedPages(tree)
                 B == StatedPages(tree) \cup {page}
      <4>2. pages \in Seq(A) /\ A \subseteq B
        BY <4>1
      <4> HIDE DEF A, B
      <4>3. pages \in Seq(B)
        BY <4>2
      <4>4. QED
        BY <4>3 DEF B
    <3>2. page \in StatedPages(tree) \cup {page}
      OBVIOUS
    <3> DEFINE B == StatedPages(tree) \cup {page}
    <3> HIDE DEF B
    <3>3. pages \in Seq(B) /\ page \in B
      BY <3>1, <3>2 DEF B
    <3>4. QED
      BY <3>3, AppendProperties
  <2> HIDE DEF more
  <2>3. OneBehind(pages, more, page)
    BY <2>1, <2>2 DEF OneBehind
  <2>4. QED
    BY <1>3, <2>3 DEF more
<1>5. ASSUME Unlimited
      PROVE  \E run, m : BoxesIn(run, m) /\ BoxesAt(run[m + 1])'
  <2>1. PICK run, m : BoxesIn(run, m)
    BY <1>2, <1>5, BoxPlace DEF BoxesReady
  <2>2. LeafNext(run, m, leaf)
    BY <1>1, <2>1, BoxTakesLeaf
  <2>3. SameCalls(boxFrames', run[m + 1].stack)
    BY <1>1, <2>1, <2>2, BoxesAtNext DEF LeafNext
  <2>4. /\ BoxesAt(run[m]) /\ Len(boxSkips) \in Nat
    BY <2>1, LenProperties DEF BoxesIn
  <2>5. page_index = Len(run[m].listed) /\ NumberedBy(pages, boxSkips, run[m].listed)
        /\ boxVisited = run[m].seen
    BY <2>4 DEF BoxesAt
  <2>6. NumberedBy(pages', boxSkips, run[m + 1].listed)
    <3>1. OneBehind(run[m].listed, run[m + 1].listed, page.leaf) /\ page.page_index = Len(run[m].listed)
      BY <1>3, <2>2, <2>5 DEF LeafNext
    <3>2. QED
      BY <1>4, <2>4, <2>5, <3>1, NumbersReport
  <2>7. BoxesAt(run[m + 1])'
    BY <1>1, <2>2, <2>3, <2>5, <2>6 DEF BoxesAt, LeafNext
  <2>8. QED
    BY <2>1, <2>7
<1>6. QED
  BY <1>1, <1>2, <1>5, BoxesGoOn DEF BoxesReady

LEMMA SkipIsOneMore ==
  ASSUME boxSkips \in Seq(SkipReport), NEW index \in Nat \cup {Absent}, NEW kid \in Objects,
         NEW reason \in BoxSkipReasons, BoxSkip(index, kid, reason)
  PROVE  \E skip : OneBehind(boxSkips, boxSkips', skip) /\ skip.page_index = index /\ skip.kid = kid
<1> DEFINE skip == [page_index |-> index, kid |-> kid, reason |-> reason]
<1>1. skip \in SkipReport /\ skip.page_index = index /\ skip.kid = kid
  BY DEF SkipReport
<1>2. boxSkips' = Append(boxSkips, skip)
  BY DEF BoxSkip
<1> HIDE DEF skip
<1>3. OneBehind(boxSkips, boxSkips', skip)
  BY <1>1, <1>2, AppendedOne
<1>4. QED
  BY <1>1, <1>3

LEMMA BoxIndexesRefusal ==
  ASSUME BoxesReady, UNCHANGED leafVars, RefuseLeaf
  PROVE  BoxRuns'
<1>1. PICK leaf \in Objects :
        /\ AtBoxKid(leaf) /\ NodeType(leaf) = "Page" /\ LeafRefusal(leaf) # Absent
        /\ BoxSkip(page_index, leaf, LeafRefusal(leaf))
        /\ page_index' = page_index + 1 /\ boxFrames' = BoxAdvanced
        /\ tree' = tree /\ boxPhase' = boxPhase /\ boxVisited' = boxVisited /\ pages' = pages
  BY DEF RefuseLeaf, CountLeaf
<1>2. boxPhase = "walking" /\ boxFrames # <<>>
  BY <1>1 DEF AtBoxKid
<1>3. LeafRefusal(leaf) \in BoxSkipReasons /\ page_index \in Nat /\ boxSkips \in Seq(SkipReport)
  BY <1>1 DEF LeafRefusal, BoxSkipReasons, BoxesReady, BoxesInv, BoxFollows
<1>4. PICK skip : OneBehind(boxSkips, boxSkips', skip) /\ skip.page_index = page_index /\ skip.kid = leaf
  BY <1>1, <1>3, SkipIsOneMore
<1>5. ASSUME Unlimited
      PROVE  \E run, m : BoxesIn(run, m) /\ BoxesAt(run[m + 1])'
  <2>1. PICK run, m : BoxesIn(run, m)
    BY <1>2, <1>5, BoxPlace DEF BoxesReady
  <2>2. LeafNext(run, m, leaf)
    BY <1>1, <2>1, BoxTakesLeaf
  <2>3. SameCalls(boxFrames', run[m + 1].stack)
    BY <1>1, <2>1, <2>2, BoxesAtNext DEF LeafNext
  <2>4. /\ BoxesAt(run[m]) /\ Len(pages) \in Nat
    BY <2>1, LenProperties DEF BoxesIn
  <2>5. page_index = Len(run[m].listed) /\ NumberedBy(pages, boxSkips, run[m].listed)
        /\ boxVisited = run[m].seen
    BY <2>4 DEF BoxesAt
  <2>6. NumberedBy(pages, boxSkips', run[m + 1].listed)
    <3>1. OneBehind(run[m].listed, run[m + 1].listed, skip.kid) /\ skip.page_index = Len(run[m].listed)
      BY <1>4, <2>2, <2>5 DEF LeafNext
    <3>2. skip.page_index # Absent
      BY <1>3, <1>4, AbsentIsNoIndex
    <3>3. QED
      BY <1>4, <2>4, <2>5, <3>1, <3>2, NumbersRefusal
  <2>7. BoxesAt(run[m + 1])'
    BY <1>1, <2>2, <2>3, <2>5, <2>6 DEF BoxesAt, LeafNext
  <2>8. QED
    BY <2>1, <2>7
<1>6. QED
  BY <1>1, <1>2, <1>5, BoxesGoOn DEF BoxesReady

LEMMA BoxIndexesDescent ==
  ASSUME BoxesReady, UNCHANGED leafVars, DescendBoxes
  PROVE  BoxRuns'
<1>1. PICK kid \in Objects :
        /\ AtBoxKid(kid) /\ NodeType(kid) = "Pages" /\ boxPhase' = boxPhase
        /\ ProcessPagesNode(kid, TopFrame.inherited)
  BY DEF DescendBoxes
<1>2. boxPhase = "walking" /\ boxFrames # <<>> /\ boxSkips \in Seq(SkipReport)
  BY <1>1 DEF AtBoxKid, BoxesReady, BoxFollows
<1>3. tree' = tree /\ page_index' = page_index /\ pages' = pages
      /\ boxVisited' = boxVisited \cup {kid}
  BY <1>1 DEF ProcessPagesNode
<1>4. ASSUME Unlimited
      PROVE  \E run, m : BoxesIn(run, m) /\ BoxesAt(run[m + 1])'
  <2>1. PICK run, m : BoxesIn(run, m)
    BY <1>2, <1>4, BoxPlace DEF BoxesReady
  <2>2. PassesBy(Types, run[m], run[m + 1], kid) \/ GoesInto(Types, Opening, run[m], run[m + 1], kid)
    BY <1>1, <2>1, BoxTakesKid DEF KidStep, TakesLeaf
  <2>3. /\ BoxesAt(run[m]) /\ Len(run[m].stack) = Len(boxFrames) /\ Len(boxFrames) \in Nat
    BY <2>1 DEF BoxesIn
  <2>4. /\ SameCalls(boxFrames, run[m].stack) /\ boxVisited = run[m].seen
        /\ page_index = Len(run[m].listed) /\ NumberedBy(pages, boxSkips, run[m].listed)
    BY <2>3 DEF BoxesAt
  <2>5. run[m + 1].listed = run[m].listed /\ run[m + 1].seen = boxVisited'
    <3>1. CASE PassesBy(Types, run[m], run[m + 1], kid)
      <4>1. kid \in run[m].seen
        BY <1>1, <2>1, <3>1, BoxTakesKid DEF PassesBy
      <4>2. run[m + 1].listed = run[m].listed /\ run[m + 1].seen = run[m].seen
        BY <3>1 DEF PassesBy, GoesOn
      <4>3. QED
        BY <1>3, <2>4, <4>1, <4>2
    <3>2. CASE GoesInto(Types, Opening, run[m], run[m + 1], kid)
      BY <1>3, <2>4, <3>2 DEF GoesInto
    <3>3. QED
      BY <2>2, <3>1, <3>2
  <2>6. ASSUME NEW reason \in BoxSkipReasons, BoxSkip(Absent, kid, reason), boxFrames' = BoxAdvanced,
               Moved(run[m].stack, run[m + 1].stack)
        PROVE  BoxesAt(run[m + 1])'
    <3>1. PICK skip : OneBehind(boxSkips, boxSkips', skip) /\ skip.page_index = Absent
      BY <1>2, <2>6, SkipIsOneMore
    <3>2. NumberedBy(pages, boxSkips', run[m].listed)
      BY <2>4, <3>1, NumbersNoIndex
    <3>3. SameCalls(boxFrames', run[m + 1].stack)
      BY <2>1, <2>6, BoxesAtNext
    <3>4. QED
      BY <1>3, <2>4, <2>5, <3>2, <3>3 DEF BoxesAt
  <2>7. CASE kid \in boxVisited
    <3>1. PassesBy(Types, run[m], run[m + 1], kid)
      BY <2>2, <2>4, <2>7 DEF GoesInto
    <3>2. Moved(run[m].stack, run[m + 1].stack)
      BY <3>1 DEF PassesBy, GoesOn
    <3>3. BoxSkip(Absent, kid, "Cycle") /\ boxFrames' = BoxAdvanced
      BY <1>1, <2>7 DEF ProcessPagesNode
    <3>4. "Cycle" \in BoxSkipReasons
      BY DEF BoxSkipReasons, TruncationReasons
    <3>5. QED
      BY <2>1, <2>6, <3>2, <3>3, <3>4
  <2>8. CASE kid \notin boxVisited
    <3>1. GoesInto(Types, Opening, run[m], run[m + 1], kid)
      BY <1>1, <2>1, <2>2, <2>4, <2>8, BoxTakesKid DEF PassesBy
    <3>2. Len(boxFrames) <= MaxDepth
          /\ IF kid \in Opening THEN Opened(run[m].stack, run[m + 1].stack, kid)
             ELSE Moved(run[m].stack, run[m + 1].stack)
      BY <2>3, <3>1 DEF GoesInto
    <3>3. ~(Len(boxFrames) > MaxDepth)
      BY <2>3, <3>2, BoundsAreNat
    <3>4. CASE ~Expands(kid)
      <4>1. BoxSkip(Absent, kid, "NodeExpansionFailed") /\ boxFrames' = BoxAdvanced
        BY <1>1, <2>8, <3>3, <3>4, Zenon DEF ProcessPagesNode
      <4>2. Moved(run[m].stack, run[m + 1].stack)
        BY <3>2, <3>4 DEF Opening
      <4>3. "NodeExpansionFailed" \in BoxSkipReasons
        BY DEF BoxSkipReasons
      <4>4. QED
        BY <2>1, <2>6, <4>1, <4>2, <4>3
    <3>5. CASE Expands(kid)
      <4>1. /\ boxSkips' = boxSkips
            /\ boxFrames' = Append(BoxAdvanced, [node |-> kid, next |-> 1,
                                                 inherited |-> ApplyInherited(kid, TopFrame.inherited)])
        BY <1>1, <2>8, <3>3, <3>5, Zenon DEF ProcessPagesNode
      <4>2. Opened(run[m].stack, run[m + 1].stack, kid)
        BY <3>2, <3>5 DEF Opening
      <4> DEFINE S == BoxFrame(StatedBoxes(tree))
                 kept == ApplyInherited(kid, TopFrame.inherited)
                 frame == [node |-> kid, next |-> 1, inherited |-> kept]
      <4>3. frame \in S /\ frame.node = kid /\ frame.next = 1
        <5>1. boxFrames \in Seq(S) /\ Len(boxFrames) \in 1..Len(boxFrames)
              /\ TopFrame = boxFrames[Len(boxFrames)] /\ tree \in TreeShape
          BY <2>1 DEF BoxesIn, TopFrame
        <5>2. TopFrame \in S
          BY <5>1, ElementOfSeq
        <5>3. TopFrame.inherited \in StatedBoxes(tree)
          BY <5>2 DEF BoxFrame
        <5>4. kept \in StatedBoxes(tree)
          BY <3>5, <5>1, <5>3, NodeStates
        <5> HIDE DEF kept
        <5>5. QED
          BY <5>4 DEF BoxFrame
      <4>4. boxFrames' = Append(BoxAdvanced, frame)
        BY <4>1
      <4>5. Moved(boxFrames, BoxAdvanced) /\ BoxAdvanced \in Seq(S)
        BY <2>1 DEF BoxesIn
      <4> HIDE DEF S, kept, frame
      <4>6. Opened(boxFrames, boxFrames', kid)
        BY <4>3, <4>4, <4>5, StackOpens
      <4>7. SameCalls(boxFrames', run[m + 1].stack)
        BY <2>4, <4>2, <4>6, SameOpened
      <4>8. NumberedBy(pages, boxSkips', run[m].listed)
        BY <2>4, <4>1
      <4>9. BoxesAt(run[m + 1])'
        BY <1>3, <2>4, <2>5, <4>7, <4>8 DEF BoxesAt
      <4>10. QED
        BY <2>1, <4>9
    <3>6. QED
      BY <3>4, <3>5
  <2>9. QED
    BY <2>7, <2>8
<1>5. QED
  BY <1>1, <1>2, <1>3, <1>4, BoxesGoOn DEF BoxesReady

LEMMA BoxIndexesReturn ==
  ASSUME BoxesReady, UNCHANGED leafVars, ReturnFromTargets
  PROVE  BoxRuns'
<1>1. /\ boxPhase = "walking" /\ boxFrames # <<>> /\ TopFrame.next > Len(Kids(TopFrame.node))
      /\ boxFrames' = Front(boxFrames) /\ tree' = tree /\ boxPhase' = boxPhase
      /\ boxVisited' = boxVisited /\ page_index' = page_index /\ pages' = pages /\ boxSkips' = boxSkips
      /\ TopFrame = boxFrames[Len(boxFrames)]
  BY DEF ReturnFromTargets, TopFrame
<1>2. ASSUME Unlimited
      PROVE  \E run, m : BoxesIn(run, m) /\ BoxesAt(run[m + 1])'
  <2>1. PICK run, m : BoxesIn(run, m)
    BY <1>1, <1>2, BoxPlace DEF BoxesReady
  <2> DEFINE s == run[m].stack
             S == BoxFrame(StatedBoxes(tree))
  <2>2. /\ tree \in TreeShape /\ AllExpand(s) /\ Len(s) \in Nat \ {0} /\ s[Len(s)].next \in Nat \ {0}
        /\ s[Len(s)].node = TopFrame.node /\ s[Len(s)].next = TopFrame.next
        /\ boxFrames \in Seq(S) /\ BoxesAt(run[m])
    BY <1>1, <2>1 DEF BoxesIn
  <2>3. StepsTo(Branches, Types, Opening, run[m], run[m + 1])
    BY <2>1 DEF BoxesIn, NextConfig
  <2> HIDE DEF s, S
  <2>4. ~HasKid(Branches, s)
    BY <1>1, <2>2, StackAtKid
  <2>5. GoesBack(run[m], run[m + 1])
    BY <2>3, <2>4 DEF StepsTo, s
  <2>6. /\ Closed(run[m].stack, run[m + 1].stack) /\ run[m + 1].seen = run[m].seen
        /\ run[m + 1].listed = run[m].listed
    BY <2>5 DEF GoesBack
  <2>7. Closed(boxFrames, boxFrames')
    BY <1>1, <2>2, StackCloses
  <2>8. SameCalls(boxFrames, run[m].stack)
    BY <2>2 DEF BoxesAt
  <2>9. SameCalls(boxFrames', run[m + 1].stack)
    BY <2>6, <2>7, <2>8, SameClosed
  <2>10. BoxesAt(run[m + 1])'
    BY <1>1, <2>2, <2>6, <2>9 DEF BoxesAt
  <2>11. QED
    BY <2>1, <2>10
<1>3. QED
  BY <1>1, <1>2, BoxesGoOn DEF BoxesReady

LEMMA BoxIndexesEnd ==
  ASSUME BoxesReady, UNCHANGED leafVars, FinishBoxes
  PROVE  BoxRuns'
<1>1. /\ boxPhase = "walking" /\ boxPhase' = "done" /\ tree' = tree /\ boxFrames' = boxFrames
      /\ boxVisited' = boxVisited /\ page_index' = page_index /\ pages' = pages /\ boxSkips' = boxSkips
  BY DEF FinishBoxes
<1>2. \A c : BoxesAt(c) => BoxesAt(c)'
  BY <1>1 DEF BoxesAt
<1>3. ASSUME Unlimited
      PROVE  \E run : /\ WalkTo(Branches, Types, Opening, run, LeafConfig)
                      /\ \E m \in 1..Len(run) : BoxesAt(run[m])'
  <2>1. PICK run : /\ WalkTo(Branches, Types, Opening, run, LeafConfig)
                   /\ \E m \in 1..Len(run) : BoxesAt(run[m])
    BY <1>1, <1>3 DEF BoxesReady, BoxRuns
  <2>2. QED
    BY <1>2, <2>1
<1>4. QED
  BY <1>1, <1>3, BoxRunsOn DEF BoxesReady

LEMMA BoxIndexesStart ==
  ASSUME BoxesReady, LeafRuns, UNCHANGED leafVars, StartBoxes
  PROVE  BoxRuns'
<1>1. /\ boxPhase = "idle" /\ boxPhase' = "walking" /\ ProcessPagesNode(Root, NothingInherited)
      /\ boxFrames = <<>> /\ page_index = 0 /\ pages = <<>> /\ boxVisited = {} /\ boxSkips = <<>>
      /\ tree \in TreeShape
  BY DEF StartBoxes, BoxesReady, BoxFollows, BoxesInv, BoxRuns
<1>2. tree' = tree /\ page_index' = 0 /\ pages' = <<>> /\ BoxAdvanced = <<>> /\ boxVisited' = {Root}
  BY <1>1 DEF ProcessPagesNode, BoxAdvanced
<1>3. ASSUME Unlimited
      PROVE  \E run : /\ WalkTo(Branches, Types, Opening, run, LeafConfig)
                      /\ \E m \in 1..Len(run) : BoxesAt(run[m])'
  <2>1. PICK run : WalkTo(Branches, Types, Opening, run, LeafConfig)
    BY <1>3 DEF BoxesReady, LeafRuns
  <2>2. Len(run) \in Nat \ {0} /\ run[1] = FirstConfig /\ run \in Seq(Configs(Opening))
    BY <2>1 DEF WalkTo
  <2>3. 1 \in 1..Len(run)
    BY <2>2
  <2>4. FirstConfig \in Configs(Opening)
    BY <2>2, <2>3, ElementOfSeq
  <2>5. FirstConfig.stack = <<Frame(Root)>> /\ FirstConfig.seen = {Root} /\ FirstConfig.listed = <<>>
    BY DEF FirstConfig, Config
  <2>6. Expands(Root)
    <3>1. FirstConfig.stack \in Seq(OpenFrame(Opening))
      BY <2>4 DEF Configs
    <3>2. Len(FirstConfig.stack) = 1 /\ FirstConfig.stack[1] = Frame(Root)
      BY <2>5
    <3>3. 1 \in 1..Len(FirstConfig.stack)
      BY <3>2
    <3>4. Frame(Root) \in OpenFrame(Opening)
      BY <3>1, <3>2, <3>3, ElementOfSeq
    <3>5. QED
      BY <3>4 DEF OpenFrame, Frame, Opening
  <2>7. ~(Root \in boxVisited) /\ ~(Len(boxFrames) > MaxDepth)
    BY <1>1, BoundsAreNat
  <2>8. /\ boxSkips' = boxSkips
        /\ boxFrames' = Append(BoxAdvanced, [node |-> Root, next |-> 1,
                                             inherited |-> ApplyInherited(Root, NothingInherited)])
    BY <1>1, <2>6, <2>7, Zenon DEF ProcessPagesNode
  <2> DEFINE frame == [node |-> Root, next |-> 1, inherited |-> ApplyInherited(Root, NothingInherited)]
  <2>9. frame.node = Root /\ frame.next = 1
    OBVIOUS
  <2>10. boxFrames' = Append(<<>>, frame)
    BY <1>2, <2>8
  <2> HIDE DEF frame
  <2>11. SameCalls(boxFrames', <<Frame(Root)>>)
    <3> DEFINE first == <<Frame(Root)>>
    <3>1. Len(first) = 1 /\ first[1].node = Root /\ first[1].next = 1
      BY DEF Frame
    <3>2. Len(Append(<<>>, frame)) = 1 /\ Append(<<>>, frame)[1] = frame
      OBVIOUS
    <3>3. Len(boxFrames') = 1 /\ boxFrames'[1] = frame
      BY <2>10, <3>2
    <3> HIDE DEF first
    <3>4. \A i \in 1..Len(first) : i = 1
      BY <3>1
    <3>5. \A i \in 1..Len(first) : boxFrames'[i].node = first[i].node /\ boxFrames'[i].next = first[i].next
      BY <2>9, <3>1, <3>3, <3>4
    <3>6. SameCalls(boxFrames', first)
      BY <3>1, <3>3, <3>5 DEF SameCalls
    <3>7. QED
      BY <3>6 DEF first
  <2>12. NumberedBy(pages', boxSkips', <<>>) /\ page_index' = Len(<<>>)
    <3>1. pages' = <<>> /\ boxSkips' = <<>> /\ page_index' = 0 /\ Len(<<>>) = 0
      BY <1>1, <1>2, <2>8
    <3>2. QED
      BY <3>1, NumbersNothing
  <2>13. BoxesAt(run[1])'
    BY <1>2, <2>2, <2>5, <2>11, <2>12 DEF BoxesAt
  <2>14. QED
    BY <2>1, <2>3, <2>13
<1>4. leafPhase = "done" /\ boxPhase' # "idle"
  BY <1>1 DEF BoxesReady
<1>5. QED
  BY <1>2, <1>3, <1>4, BoxRunsOn

IndexInv == LeafRuns /\ BoxRuns

LEMMA IndexesStay ==
  ASSUME IndexInv, tree' = tree, UNCHANGED <<leafVars, boxVars>>
  PROVE  IndexInv'
<1>1. Branches' = Branches /\ Types' = Types /\ Opening' = Opening
  BY OpeningKept
<1>2. LeafConfig' = LeafConfig /\ leafPhase' = leafPhase /\ (Unlimited' <=> Unlimited)
  BY DEF leafVars, LeafConfig, Config, Unlimited
<1>3. /\ boxPhase' = boxPhase /\ boxFrames' = boxFrames /\ boxVisited' = boxVisited
      /\ page_index' = page_index /\ pages' = pages /\ boxSkips' = boxSkips
  BY DEF boxVars
<1>4. LeafRuns'
  BY <1>1, <1>2 DEF IndexInv, LeafRuns
<1>5. \A c : BoxesAt(c) => BoxesAt(c)'
  BY <1>3 DEF BoxesAt
<1>6. CASE boxPhase = "idle"
  BY <1>3, <1>4, <1>6 DEF IndexInv, BoxRuns
<1>7. CASE boxPhase # "idle"
  <2>1. ASSUME Unlimited
        PROVE  \E run : /\ WalkTo(Branches, Types, Opening, run, LeafConfig)
                        /\ \E m \in 1..Len(run) : BoxesAt(run[m])'
    BY <1>5, <1>7, <2>1 DEF IndexInv, BoxRuns
  <2>2. leafPhase = "done"
    BY <1>7 DEF IndexInv, BoxRuns
  <2>3. BoxRuns'
    BY <1>3, <1>7, <2>1, <2>2, BoxRunsOn
  <2>4. QED
    BY <1>4, <2>3 DEF IndexInv
<1>8. QED
  BY <1>6, <1>7

LEMMA IndexesStep ==
  ASSUME LeafBounded, KidsInv, WalksInv, IndexInv, EnumerateLeaves \/ InspectBoxes,
         LeafBounded', KidsInv', WalksInv'
  PROVE  IndexInv'
<1>1. CASE EnumerateLeaves
  <2>1. LeafStep /\ UNCHANGED boxVars
    BY <1>1 DEF EnumerateLeaves
  <2>2. LeafRuns'
    BY <2>1, LeafStepsRun DEF IndexInv
  <2>3. leafPhase # "done"
    BY <2>1 DEF LeafStep, StartLeaves, EmitLeaf, SkipKid, StopDescent, Descend, ReturnFromNode, AtKid
  <2>4. boxPhase = "idle" /\ boxVisited = {} /\ boxSkips = <<>>
    BY <2>3 DEF IndexInv, BoxRuns
  <2>5. boxPhase' = "idle" /\ boxVisited' = {} /\ boxSkips' = <<>>
    BY <2>1, <2>4 DEF boxVars
  <2>6. BoxRuns'
    BY <2>5 DEF BoxRuns
  <2>7. QED
    BY <2>2, <2>6 DEF IndexInv
<1>2. CASE InspectBoxes
  <2>1. leafPhase = "done" /\ BoxStep /\ UNCHANGED leafVars
    BY <1>2 DEF InspectBoxes
  <2>2. tree' = tree
    BY <2>1 DEF BoxStep, StartBoxes, DescendBoxes, ProcessPagesNode, PassOverKid,
       ReportLeaf, RefuseLeaf, ReturnFromTargets, FinishBoxes
  <2>3. LeafRuns'
    <3>1. Branches' = Branches /\ Types' = Types /\ Opening' = Opening
      BY <2>2, OpeningKept
    <3>2. LeafConfig' = LeafConfig /\ leafPhase' = leafPhase /\ (Unlimited' <=> Unlimited)
      BY <2>1 DEF leafVars, LeafConfig, Config, Unlimited
    <3>3. QED
      BY <3>1, <3>2 DEF IndexInv, LeafRuns
  <2>4. BoxesReady /\ LeafRuns /\ BoxesInv'
    BY <2>1 DEF IndexInv, WalksInv, BoxesReady
  <2>5. BoxRuns'
    BY <2>1, <2>4, BoxIndexesStart, BoxIndexesDescent, BoxPassesOver, BoxIndexesReport,
       BoxIndexesRefusal, BoxIndexesReturn, BoxIndexesEnd DEF BoxStep
  <2>6. QED
    BY <2>3, <2>5 DEF IndexInv
<1>3. QED
  BY <1>1, <1>2

LEMMA IndexedLeaves ==
  ASSUME KidsInv, WalksInv, IndexInv
  PROVE  IndexesNameLeaves
<1>1. ASSUME boxPhase = "done", Unlimited
      PROVE  /\ NumberedLeaves = {<<i - 1, leaves[i]>> : i \in 1..Len(leaves)}
             /\ Len(pages) + Cardinality({j \in 1..Len(boxSkips) : boxSkips[j].page_index # Absent})
                  = Len(leaves)
  <2>1. PICK run : /\ WalkTo(Branches, Types, Opening, run, LeafConfig)
                   /\ \E m \in 1..Len(run) : BoxesAt(run[m])
    BY <1>1 DEF IndexInv, BoxRuns
  <2>2. PICK m \in 1..Len(run) : BoxesAt(run[m])
    BY <2>1
  <2>3. boxFrames = <<>>
    BY <1>1 DEF WalksInv, BoxFollows
  <2>4. run[m] = LeafConfig
    <3>1. run[m].stack = <<>>
      <4>1. Len(run[m].stack) = 0
        BY <2>2, <2>3 DEF BoxesAt, SameCalls
      <4>2. run \in Seq(Configs(Opening))
        BY <2>1 DEF WalkTo
      <4>3. run[m] \in Configs(Opening)
        BY <4>2, ElementOfSeq
      <4>4. run[m].stack \in Seq(OpenFrame(Opening))
        BY <4>3 DEF Configs
      <4>5. QED
        BY <4>1, <4>4, EmptySeq
    <3>2. QED
      BY <2>1, <3>1, RunEnds
  <2>5. run[m].listed = leaves
    BY <2>4 DEF LeafConfig, Config
  <2>6. NumberedBy(pages, boxSkips, leaves)
    BY <2>2, <2>5 DEF BoxesAt
  <2>7. QED
    BY <2>6 DEF NumberedBy, PageNumbers, SkipNumbers, Numbering, Indexed, NumberedLeaves
<1>2. QED
  BY <1>1 DEF IndexesNameLeaves, Unlimited, Limits

-----------------------------------------------------------------------------
(***************************************************************************)
(* In every document whose leaf walk was not cut at a depth or node limit, *)
(* whatever its /Kids graph: the box walk gives out the indexes from 0 up, *)
(* one for each leaf the enumeration lists, and each index to the leaf     *)
(* listed there.                                                           *)
(***************************************************************************)
THEOREM IndexesAlwaysNameLeaves == ReadSpec => []IndexesNameLeaves
<1>1. ReadInit => IndexInv
  BY DEF ReadInit, LeafInit, BoxInit, IndexInv, LeafRuns, BoxRuns
<1>2. ASSUME LeafBounded, KidsInv, WalksInv, IndexInv, [ReadNext]_readVars,
             LeafBounded', KidsInv', WalksInv'
      PROVE  IndexInv'
  <2>1. ASSUME tree' = tree, UNCHANGED <<leafVars, boxVars>>
        PROVE  IndexInv'
    BY <1>2, <2>1, IndexesStay
  <2>2. ASSUME EnumerateLeaves \/ InspectBoxes
        PROVE  IndexInv'
    BY <1>2, <2>2, IndexesStep
  <2>3. CASE InspectPageBoxes
    BY <2>1, <2>2, <2>3 DEF InspectPageBoxes, Next, Answered, vars
  <2>4. CASE OpenForAudit
    BY <2>2, <2>4 DEF OpenForAudit
  <2>5. CASE AuditStep
    <3>1. UNCHANGED <<leafVars, boxVars>>
      BY <2>5 DEF AuditStep, BuildInventory, AuditPage, CheckPage, vars
    <3>2. tree' = tree
      <4>1. PdfStep => tree' = tree
        BY DEF PdfStep, LocateContent, InspectResources, InventoryPage, SkipPage, ResourceStep,
             StartResources, InspectPage, SkipResourceKid, StopResourceDescent, DescendResources,
             ReturnFromResources
      <4>2. QED
        BY <2>5, <4>1 DEF AuditStep, BuildInventory, AuditPage, CheckPage, vars
    <3>3. QED
      BY <2>1, <3>1, <3>2
  <2>6. CASE UNCHANGED readVars
    BY <2>1, <2>6 DEF readVars, vars
  <2>7. QED
    BY <1>2, <2>3, <2>4, <2>5, <2>6 DEF ReadNext, AuditAnswered
<1>3. LeafBounded /\ KidsInv /\ WalksInv /\ IndexInv => IndexesNameLeaves
  BY IndexedLeaves
<1>4. QED
  BY <1>1, <1>2, <1>3, KidsInvariant, WalksInvariant, PTL DEF ReadSpec

-----------------------------------------------------------------------------
(***************************************************************************)
(* The shape of a path: from a node through nodes of type /Pages to a leaf *)
(* of type /Page.                                                          *)
(***************************************************************************)
PathFrom(ty, node) ==
  {path \in Seq(Objects) :
     /\ Len(path) >= 2 /\ path[1] = node
     /\ ty[path[Len(path)]] = "Page"
     /\ \A i \in 2..(Len(path) - 1) : ty[path[i]] = "Pages"}

LEMMA PathPrefixed ==
  ASSUME NEW ty, NEW node \in Objects, NEW kid \in Objects, ty[kid] = "Pages",
         NEW path \in PathFrom(ty, kid)
  PROVE  <<node>> \o path \in PathFrom(ty, node)
<1> DEFINE long == <<node>> \o path
<1>1. /\ path \in Seq(Objects) /\ Len(path) \in Nat /\ Len(path) >= 2 /\ path[1] = kid
      /\ ty[path[Len(path)]] = "Page"
      /\ \A i \in 2..(Len(path) - 1) : ty[path[i]] = "Pages"
  BY LenProperties DEF PathFrom
<1>2. <<node>> \in Seq(Objects) /\ Len(<<node>>) = 1 /\ <<node>>[1] = node
  OBVIOUS
<1>3. /\ long \in Seq(Objects) /\ Len(long) = 1 + Len(path)
      /\ \A i \in 1..(1 + Len(path)) : long[i] = IF i <= 1 THEN <<node>>[i] ELSE path[i - 1]
  <2> DEFINE one == <<node>>
  <2>1. one \in Seq(Objects) /\ Len(one) = 1
    BY <1>2
  <2> HIDE DEF one
  <2>2. /\ one \o path \in Seq(Objects) /\ Len(one \o path) = Len(one) + Len(path)
        /\ \A i \in 1..(Len(one) + Len(path)) :
             (one \o path)[i] = IF i <= Len(one) THEN one[i] ELSE path[i - Len(one)]
    BY <1>1, <2>1, ConcatProperties
  <2>3. QED
    BY <2>1, <2>2 DEF one
<1> HIDE DEF long
<1>4. long[1] = node
  BY <1>1, <1>2, <1>3
<1>5. \A i \in 2..(1 + Len(path)) : long[i] = path[i - 1]
  BY <1>1, <1>3
<1>6. ty[long[Len(long)]] = "Page"
  BY <1>1, <1>3, <1>5
<1>7. ASSUME NEW i \in 2..(Len(long) - 1)
      PROVE  ty[long[i]] = "Pages"
  <2>1. i \in 2..(1 + Len(path)) /\ (i - 1 = 1 \/ i - 1 \in 2..(Len(path) - 1))
    BY <1>1, <1>3
  <2>2. QED
    BY <1>1, <1>5, <2>1
<1>8. Len(long) >= 2
  BY <1>1, <1>3
<1>9. QED
  BY <1>3, <1>4, <1>6, <1>7, <1>8 DEF PathFrom, long

LEMMA ThroughPaths ==
  ASSUME NEW ty, NEW node \in Objects, NEW kid \in Objects, NEW below \in PathSeq,
         below \in Seq(PathFrom(ty, kid))
  PROVE  Through(node, kid, ty[kid], below) \in Seq(PathFrom(ty, node))
<1> DEFINE type == ty[kid]
           Good == PathFrom(ty, node)
<1> HIDE DEF type
<1> DEFINE through == Through(node, kid, type, below)
<1>1. /\ through \in PathSeq
      /\ type = "Page" => through = << <<node, kid>> >>
      /\ type = "Pages" => through = [j \in 1..Len(below) |-> <<node>> \o below[j]]
      /\ type \notin {"Page", "Pages"} => through = <<>>
  BY ThroughTyped
<1> HIDE DEF through
<1>2. CASE type = "Page"
  <2>1. <<node, kid>> \in Good
    BY <1>2 DEF PathFrom, type
  <2> HIDE DEF Good
  <2>2. \A path \in Good : <<path>> \in Seq(Good)
    OBVIOUS
  <2>3. through \in Seq(Good)
    BY <1>1, <1>2, <2>1, <2>2, Zenon
  <2>4. QED
    BY <2>3, Zenon DEF Good, through, type
<1>3. CASE type = "Pages"
  <2>1. PICK n \in Nat : n = Len(below)
    BY LenProperties
  <2>2. \A j \in 1..n : <<node>> \o below[j] \in Good
    <3> TAKE j \in 1..n
    <3>1. below[j] \in PathFrom(ty, kid)
      BY <2>1, ElementOfSeq
    <3>2. QED
      BY <1>3, <3>1, PathPrefixed DEF type
  <2> DEFINE long(j) == <<node>> \o below[j]
  <2>3. \A j \in 1..n : long(j) \in Good
    BY <2>2
  <2>4. through = [j \in 1..n |-> long(j)]
    BY <1>1, <1>3, <2>1
  <2> HIDE DEF Good, long
  <2>5. through \in [1..n -> Good]
    BY <2>3, <2>4
  <2>6. through \in Seq(Good)
    BY <2>1, <2>5
  <2>7. QED
    BY <2>6 DEF Good, through, type
<1>4. CASE type \notin {"Page", "Pages"}
  <2> HIDE DEF Good
  <2>1. through \in Seq(Good)
    BY <1>1, <1>4
  <2>2. QED
    BY <2>1 DEF Good, through, type
<1>5. QED
  BY <1>2, <1>3, <1>4

LEMMA BelowPaths ==
  ASSUME NEW br \in [Objects -> Seq(Objects)], NEW ty, NEW d \in 0..(MaxDepth + 1),
         NEW node \in Objects
  PROVE  Below(br, ty)[d][node] \in Seq(PathFrom(ty, node))
<1> DEFINE f == Below(br, ty)
           Bad == {m \in 0..(MaxDepth + 1) : \E o \in Objects : f[m][o] \notin Seq(PathFrom(ty, o))}
<1>1. \A m \in 0..(MaxDepth + 1) :
        f[m] = IF m = 0 THEN [o \in Objects |-> <<>>] ELSE PathsThrough(br, ty, f[m - 1])
  BY BelowSolves
<1>8. \A m \in 0..(MaxDepth + 1) : \A o \in Objects : f[m][o] \in PathSeq
  BY BelowTyped
<1> HIDE DEF f
<1> SUFFICES ASSUME Bad # {} PROVE FALSE
  BY DEF f
<1>2. PICK m \in Bad : \A k \in Bad : m <= k
  <2>1. Bad \in SUBSET Nat
    BY BoundsAreNat
  <2> HIDE DEF Bad
  <2>2. QED
    BY <2>1, LeastElement
<1>3. m \in 0..(MaxDepth + 1)
  OBVIOUS
<1>4. PICK o \in Objects : f[m][o] \notin Seq(PathFrom(ty, o))
  OBVIOUS
<1>5. CASE m = 0
  <2>1. f[m][o] = <<>>
    BY <1>1, <1>3, <1>5
  <2>2. QED
    BY <1>4, <2>1
<1>6. CASE m # 0
  <2>1. m - 1 \in 0..(MaxDepth + 1) /\ ~(m <= m - 1)
    BY <1>3, <1>6, BoundsAreNat
  <2>2. \A x \in Objects : f[m - 1][x] \in PathSeq /\ f[m - 1][x] \in Seq(PathFrom(ty, x))
    <3>1. m - 1 \notin Bad
      <4> HIDE DEF Bad
      <4>1. QED
        BY <1>2, <2>1
    <3>2. QED
      BY <1>8, <2>1, <3>1
  <2>3. br[o] \in Seq(Objects) /\ Len(br[o]) \in Nat
    BY LenProperties
  <2> DEFINE through(i) == Through(o, br[o][i], ty[br[o][i]], f[m - 1][br[o][i]])
             seqs == [i \in 1..Len(br[o]) |-> through(i)]
             Good == PathFrom(ty, o)
  <2>4. f[m][o] = FlattenSeq(seqs)
    BY <1>1, <1>3, <1>6 DEF PathsThrough
  <2>5. \A i \in 1..Len(br[o]) : through(i) \in Seq(Good)
    <3> TAKE i \in 1..Len(br[o])
    <3>1. br[o][i] \in Objects
      BY <2>3, ElementOfSeq
    <3>2. QED
      BY <2>2, <3>1, ThroughPaths
  <2> HIDE DEF through, Good
  <2>6. FlattenSeq(seqs) \in Seq(Good)
    <3>1. PICK n \in Nat : n = Len(br[o])
      BY <2>3
    <3>2. seqs \in [1..n -> Seq(Good)]
      BY <2>5, <3>1
    <3>3. Len(seqs) = n
      <4>1. seqs \in Seq(Seq(Good))
        BY <3>2
      <4>2. DOMAIN seqs = 1..n /\ DOMAIN seqs = 1..Len(seqs) /\ Len(seqs) \in Nat
        BY <3>2, <4>1, LenProperties
      <4>3. QED
        BY <4>2
    <3> HIDE DEF seqs
    <3>4. QED
      BY <3>2, <3>3, FlattenAny
  <2>7. QED
    BY <1>4, <2>4, <2>6 DEF Good
<1>7. QED
  BY <1>5, <1>6

LEMMA PathShape ==
  ASSUME NEW br \in [Objects -> Seq(Objects)], NEW ty, NEW k \in 1..Len(PathsOf(br, ty))
  PROVE  PathsOf(br, ty)[k] \in PathFrom(ty, Root)
<1>1. MaxDepth + 1 \in 0..(MaxDepth + 1)
  BY BoundsAreNat
<1>2. Below(br, ty)[MaxDepth + 1][Root] \in Seq(PathFrom(ty, Root))
  BY <1>1, RootIsObject, BelowPaths
<1>3. PathsOf(br, ty) \in Seq(PathFrom(ty, Root))
  BY <1>2, BelowSolves
<1>4. QED
  BY <1>3, ElementOfSeq

-----------------------------------------------------------------------------
(***************************************************************************)
(* The box walk over a tree always goes the same way: each place it comes  *)
(* to, the open calls with the kid each is at, the nodes remembered and    *)
(* the paths of the leaves met, follows from the place before and from     *)
(* what the tree branches into.  Cycles and the depth bound included.      *)
(***************************************************************************)
CallsOf(s) == [i \in 1..Len(s) |-> [node |-> s[i].node, next |-> s[i].next]]

Beyond(s) ==
  [i \in 1..Len(s) |-> [node |-> s[i].node, next |-> IF i = Len(s) THEN s[i].next + 1 ELSE s[i].next]]

Into(s, kid) ==
  [i \in 1..(Len(s) + 1) |-> IF i = Len(s) + 1 THEN [node |-> kid, next |-> 1] ELSE Beyond(s)[i]]

Back(s) == [i \in 1..(Len(s) - 1) |-> s[i]]

Spot(stack, seen, trail) == [stack |-> stack, seen |-> seen, trail |-> trail]

(* The place after the kid the top call is at, if it is at one.             *)
PastKid(ty, open, c, kid) ==
  IF ty[kid] = "Page" THEN Spot(Beyond(c.stack), c.seen, Append(c.trail, PathTo(c.stack, kid)))
  ELSE IF ty[kid] # "Pages" THEN Spot(Beyond(c.stack), c.seen, c.trail)
  ELSE IF kid \notin c.seen /\ Len(c.stack) <= MaxDepth /\ kid \in open
  THEN Spot(Into(c.stack, kid), c.seen \cup {kid}, c.trail)
  ELSE Spot(Beyond(c.stack), c.seen \cup {kid}, c.trail)

NextSpot(br, ty, open, c) ==
  IF HasKid(br, c.stack) THEN PastKid(ty, open, c, KidAt(br, c.stack))
  ELSE Spot(Back(c.stack), c.seen, c.trail)

FirstSpot(open) ==
  Spot(IF Root \in open THEN [i \in 1..1 |-> [node |-> Root, next |-> 1]] ELSE CallsOf(<<>>), {Root}, <<>>)

Trip(br, ty, open, run, n, c) ==
  /\ n \in Nat \ {0} /\ run[1] = FirstSpot(open) /\ run[n] = c
  /\ \A i \in 1..n : i # n => /\ Len(run[i].stack) # 0
                              /\ run[i + 1] = NextSpot(br, ty, open, run[i])

HasTrip(br, ty, open, c) == \E run, n : Trip(br, ty, open, run, n, c)

LEMMA TripStarts ==
  ASSUME NEW br, NEW ty, NEW open
  PROVE  HasTrip(br, ty, open, FirstSpot(open))
<1> DEFINE first == FirstSpot(open)
<1> HIDE DEF first
<1>1. PICK run : run[1] = first
  <2>1. [i \in 1..1 |-> first][1] = first
    OBVIOUS
  <2>2. QED
    BY <2>1
<1>2. Trip(br, ty, open, run, 1, first)
  BY <1>1 DEF Trip, first
<1>3. QED
  BY <1>2 DEF HasTrip, first

LEMMA TripGrows ==
  ASSUME NEW br, NEW ty, NEW open, NEW c, HasTrip(br, ty, open, c), Len(c.stack) # 0,
         NEW d, d = NextSpot(br, ty, open, c)
  PROVE  HasTrip(br, ty, open, d)
<1>1. PICK run, n : Trip(br, ty, open, run, n, c)
  BY DEF HasTrip
<1>2. /\ n \in Nat \ {0} /\ run[1] = FirstSpot(open) /\ run[n] = c
      /\ \A i \in 1..n : i # n => /\ Len(run[i].stack) # 0
                                  /\ run[i + 1] = NextSpot(br, ty, open, run[i])
  BY <1>1 DEF Trip
<1> DEFINE more == [i \in 1..(n + 1) |-> IF i = n + 1 THEN d ELSE run[i]]
<1>3. more[n + 1] = d /\ \A i \in 1..n : more[i] = run[i]
  BY <1>2
<1> HIDE DEF more
<1>4. ASSUME NEW i \in 1..(n + 1), i # n + 1
      PROVE  Len(more[i].stack) # 0 /\ more[i + 1] = NextSpot(br, ty, open, more[i])
  <2>1. i \in 1..n /\ more[i] = run[i]
    BY <1>2, <1>3, <1>4
  <2>2. CASE i = n
    BY <1>2, <1>3, <2>1, <2>2
  <2>3. CASE i # n
    <3>1. i + 1 \in 1..n
      BY <1>2, <2>1, <2>3
    <3>2. QED
      BY <1>2, <1>3, <2>1, <2>3, <3>1
  <2>4. QED
    BY <2>2, <2>3
<1>5. n + 1 \in Nat \ {0} /\ 1 \in 1..n /\ more[1] = FirstSpot(open)
  BY <1>2, <1>3
<1>6. Trip(br, ty, open, more, n + 1, d)
  BY <1>3, <1>4, <1>5 DEF Trip
<1>7. QED
  BY <1>6 DEF HasTrip

(* Two walks over one tree, once both have ended, are at one place.         *)
LEMMA TripsAgree ==
  ASSUME NEW br, NEW ty, NEW open, NEW run, NEW n, NEW c, Trip(br, ty, open, run, n, c),
         NEW walk, NEW m, NEW d, Trip(br, ty, open, walk, m, d)
  PROVE  \A i \in 1..n : i \in 1..m => run[i] = walk[i]
<1> DEFINE Bad == {i \in 1..n : i \in 1..m /\ run[i] # walk[i]}
<1>1. /\ n \in Nat \ {0} /\ run[1] = FirstSpot(open)
      /\ \A i \in 1..n : i # n => run[i + 1] = NextSpot(br, ty, open, run[i])
  BY DEF Trip
<1>2. /\ m \in Nat \ {0} /\ walk[1] = FirstSpot(open)
      /\ \A i \in 1..m : i # m => walk[i + 1] = NextSpot(br, ty, open, walk[i])
  BY DEF Trip
<1>3. ASSUME Bad # {}
      PROVE  FALSE
  <2>1. Bad \in SUBSET Nat
    BY <1>1
  <2>2. PICK k \in Bad : \A i \in Bad : k <= i
    BY <1>3, <2>1, LeastElement
  <2>3. k \in 1..n /\ k \in 1..m /\ run[k] # walk[k]
    BY <2>2
  <2>4. k # 1
    BY <1>1, <1>2, <2>3
  <2>5. k - 1 \in 1..n /\ k - 1 \in 1..m /\ k - 1 # n /\ k - 1 # m /\ (k - 1) + 1 = k /\ ~(k <= k - 1)
    BY <1>1, <1>2, <2>3, <2>4
  <2>6. k - 1 \notin Bad
    BY <2>2, <2>5
  <2>7. run[k - 1] = walk[k - 1]
    BY <2>5, <2>6
  <2>8. run[(k - 1) + 1] = NextSpot(br, ty, open, run[k - 1])
        /\ walk[(k - 1) + 1] = NextSpot(br, ty, open, walk[k - 1])
    BY <1>1, <1>2, <2>5
  <2>9. QED
    BY <2>3, <2>5, <2>7, <2>8
<1>4. QED
  BY <1>3

LEMMA TripsEndAlike ==
  ASSUME NEW br, NEW ty, NEW open, NEW c, NEW d, HasTrip(br, ty, open, c), HasTrip(br, ty, open, d),
         Len(c.stack) = 0, Len(d.stack) = 0
  PROVE  c = d
<1>1. PICK run, n : Trip(br, ty, open, run, n, c)
  BY DEF HasTrip
<1>2. PICK walk, m : Trip(br, ty, open, walk, m, d)
  BY DEF HasTrip
<1>3. /\ n \in Nat \ {0} /\ run[n] = c
      /\ \A i \in 1..n : i # n => Len(run[i].stack) # 0
  BY <1>1 DEF Trip
<1>4. /\ m \in Nat \ {0} /\ walk[m] = d
      /\ \A i \in 1..m : i # m => Len(walk[i].stack) # 0
  BY <1>2 DEF Trip
<1>5. \A i \in 1..n : i \in 1..m => run[i] = walk[i]
  BY <1>1, <1>2, TripsAgree
<1>6. CASE n <= m
  <2>1. n \in 1..n /\ n \in 1..m
    BY <1>3, <1>4, <1>6
  <2>2. walk[n] = c
    BY <1>3, <1>5, <2>1
  <2>3. n = m
    BY <1>4, <2>1, <2>2
  <2>4. QED
    BY <1>4, <2>2, <2>3
<1>7. CASE m < n
  <2>1. m \in 1..n /\ m \in 1..m /\ m # n
    BY <1>3, <1>4, <1>7
  <2>2. run[m] = d
    BY <1>4, <1>5, <2>1
  <2>3. QED
    BY <1>3, <2>1, <2>2
<1>8. QED
  BY <1>3, <1>4, <1>6, <1>7

-----------------------------------------------------------------------------
(* What of the open calls the next place depends on.                        *)
LEMMA CallsSame ==
  ASSUME NEW s, Len(s) \in Nat
  PROVE  /\ Len(CallsOf(s)) = Len(s)
         /\ \A i \in 1..Len(s) : CallsOf(s)[i].node = s[i].node /\ CallsOf(s)[i].next = s[i].next
<1>1. PICK n \in Nat : n = Len(s)
  OBVIOUS
<1>2. CallsOf(s) = [i \in 1..n |-> [node |-> s[i].node, next |-> s[i].next]]
  BY <1>1 DEF CallsOf
<1>3. Len(CallsOf(s)) = n /\ \A i \in 1..n : CallsOf(s)[i] = [node |-> s[i].node, next |-> s[i].next]
  BY <1>2
<1>4. ASSUME NEW i \in 1..n
      PROVE  CallsOf(s)[i].node = s[i].node /\ CallsOf(s)[i].next = s[i].next
  <2>1. PICK there : there = [node |-> s[i].node, next |-> s[i].next]
    OBVIOUS
  <2>2. CallsOf(s)[i] = there
    BY <1>3, <2>1
  <2>3. there.node = s[i].node /\ there.next = s[i].next
    BY <2>1
  <2>4. QED
    BY <2>2, <2>3
<1>5. QED
  BY <1>1, <1>3, <1>4

LEMMA CallsKid ==
  ASSUME NEW s, Len(s) \in Nat \ {0}
  PROVE  /\ \A br : (HasKid(br, CallsOf(s)) <=> HasKid(br, s)) /\ KidAt(br, CallsOf(s)) = KidAt(br, s)
         /\ \A kid : PathTo(CallsOf(s), kid) = PathTo(s, kid)
<1> DEFINE t == CallsOf(s)
<1>1. Len(t) = Len(s) /\ Len(s) \in 1..Len(s) /\ \A i \in 1..Len(s) : t[i].node = s[i].node /\ t[i].next = s[i].next
  BY CallsSame
<1> HIDE DEF t
<1>2. \A br : (HasKid(br, t) <=> HasKid(br, s)) /\ KidAt(br, t) = KidAt(br, s)
  BY <1>1 DEF HasKid, KidAt
<1>3. ASSUME NEW kid
      PROVE  PathTo(t, kid) = PathTo(s, kid)
  <2>1. \A k \in 1..(Len(s) + 1) : k <= Len(s) => k \in 1..Len(s)
    OBVIOUS
  <2>2. \A k \in 1..(Len(s) + 1) : (IF k <= Len(t) THEN t[k].node ELSE kid) = (IF k <= Len(s) THEN s[k].node ELSE kid)
    BY <1>1, <2>1
  <2>3. QED
    BY <1>1, <2>2 DEF PathTo
<1>4. QED
  BY <1>2, <1>3 DEF t

LEMMA CallsMove ==
  ASSUME NEW s, NEW t, Moved(s, t)
  PROVE  CallsOf(t) = Beyond(CallsOf(s))
<1> DEFINE u == CallsOf(s)
<1>1. /\ Len(s) \in Nat \ {0} /\ Len(t) = Len(s)
      /\ \A i \in 1..Len(s) :
           t[i].node = s[i].node /\ t[i].next = IF i = Len(s) THEN s[i].next + 1 ELSE s[i].next
  BY DEF Moved, SameNodes
<1>2. Len(u) = Len(s) /\ \A i \in 1..Len(s) : u[i].node = s[i].node /\ u[i].next = s[i].next
  BY <1>1, CallsSame
<1> HIDE DEF u
<1>3. \A i \in 1..Len(s) :
        [node |-> t[i].node, next |-> t[i].next]
          = [node |-> u[i].node, next |-> IF i = Len(u) THEN u[i].next + 1 ELSE u[i].next]
  BY <1>1, <1>2
<1>4. CallsOf(t) = Beyond(u)
  BY <1>1, <1>2, <1>3, Zenon DEF CallsOf, Beyond
<1>5. QED
  BY <1>4 DEF u

LEMMA CallsOpen ==
  ASSUME NEW s, NEW t, NEW kid, Opened(s, t, kid)
  PROVE  CallsOf(t) = Into(CallsOf(s), kid)
<1> DEFINE u == CallsOf(s)
<1>1. /\ Len(s) \in Nat \ {0} /\ Len(t) = Len(s) + 1
      /\ \A i \in 1..Len(s) :
           t[i].node = s[i].node /\ t[i].next = IF i = Len(s) THEN s[i].next + 1 ELSE s[i].next
      /\ t[Len(s) + 1].node = kid /\ t[Len(s) + 1].next = 1
  BY DEF Opened, SameNodes
<1>2. Len(u) = Len(s) /\ \A i \in 1..Len(s) : u[i].node = s[i].node /\ u[i].next = s[i].next
  BY <1>1, CallsSame
<1> HIDE DEF u
<1>3. \A i \in 1..Len(s) :
        Beyond(u)[i] = [node |-> u[i].node, next |-> IF i = Len(u) THEN u[i].next + 1 ELSE u[i].next]
  BY <1>2, Zenon DEF Beyond
<1>4. \A i \in 1..(Len(s) + 1) :
        [node |-> t[i].node, next |-> t[i].next]
          = IF i = Len(u) + 1 THEN [node |-> kid, next |-> 1] ELSE Beyond(u)[i]
  <2>1. \A i \in 1..(Len(s) + 1) : i = Len(s) + 1 \/ (i \in 1..Len(s) /\ i # Len(s) + 1)
    BY <1>1
  <2>2. QED
    BY <1>1, <1>2, <1>3, <2>1
<1>5. CallsOf(t) = Into(u, kid)
  BY <1>1, <1>2, <1>4, Zenon DEF CallsOf, Into
<1>6. QED
  BY <1>5 DEF u

LEMMA CallsClose ==
  ASSUME NEW s, NEW t, Closed(s, t)
  PROVE  CallsOf(t) = Back(CallsOf(s))
<1> DEFINE u == CallsOf(s)
<1>1. /\ Len(s) \in Nat \ {0} /\ Len(t) = Len(s) - 1
      /\ \A i \in 1..Len(t) : t[i].node = s[i].node /\ t[i].next = s[i].next
  BY DEF Closed, SameNodes
<1>2. Len(u) = Len(s) /\ \A i \in 1..Len(s) : u[i] = [node |-> s[i].node, next |-> s[i].next]
  BY <1>1, CallsSame DEF CallsOf
<1> HIDE DEF u
<1>3. \A i \in 1..(Len(s) - 1) : i \in 1..Len(s) /\ i \in 1..Len(t)
  BY <1>1
<1>4. \A i \in 1..(Len(s) - 1) : [node |-> t[i].node, next |-> t[i].next] = u[i]
  BY <1>1, <1>2, <1>3
<1>5. CallsOf(t) = Back(u)
  BY <1>1, <1>2, <1>4, Zenon DEF CallsOf, Back
<1>6. QED
  BY <1>5 DEF u

-----------------------------------------------------------------------------
(***************************************************************************)
(* The box walk of a call, bounds or none: it is at a place of that way,   *)
(* and has reported what the paths it met give.                            *)
(***************************************************************************)
Rooted(ty, s) ==
  \A i \in 1..Len(s) : IF i = 1 THEN s[i].node = Root ELSE ty[s[i].node] = "Pages"

Counting(s) == \A i \in 1..Len(s) : s[i].next \in Nat \ {0}

Stacked(s) == AllExpand(s) /\ Carries(s) /\ Rooted(Types, s) /\ Counting(s)

Arrives(s, seen, trail) == HasTrip(Branches, Types, Opening, Spot(CallsOf(s), seen, trail))

(* No index is reported twice.                                             *)
Apart(list) ==
  \A i, j \in 1..Len(list) : list[i].page_index = list[j].page_index => i = j

BoxTrip(trail) ==
  /\ Arrives(boxFrames, boxVisited, trail) /\ trail \in Seq(PathFrom(Types, Root))
  /\ page_index = Len(trail) /\ Reported(pages, trail)

BoxTrips ==
  /\ boxPhase = "idle" => boxFrames = <<>> /\ boxVisited = {} /\ page_index = 0 /\ pages = <<>>
  /\ boxPhase = "done" => boxFrames = <<>>
  /\ Apart(pages)
  /\ boxPhase # "idle" => Stacked(boxFrames) /\ \E trail : BoxTrip(trail)

LEMMA StackKept ==
  ASSUME tree' = tree
  PROVE  /\ \A s : Stacked(s) => Stacked(s)'
         /\ \A s, seen, trail : Arrives(s, seen, trail) => Arrives(s, seen, trail)'
         /\ Branches' = Branches /\ Types' = Types /\ Opening' = Opening
<1>1. Branches' = Branches /\ Types' = Types /\ Opening' = Opening
  BY TreeKept, OpeningKept
<1>2. \A s : AllExpand(s) => AllExpand(s)'
  <2>1. \A node : Expands(node)' <=> Expands(node)
    BY DEF Expands, Kids
  <2>2. QED
    BY <2>1 DEF AllExpand
<1>3. \A s : Carries(s) => Carries(s)'
  BY DEF Carries, NearestBox, States
<1>4. \A s : Rooted(Types, s) => Rooted(Types, s)'
  BY <1>1 DEF Rooted
<1>5. \A s : Counting(s) => Counting(s)'
  BY DEF Counting
<1>6. \A s : Stacked(s) => Stacked(s)'
  BY <1>2, <1>3, <1>4, <1>5 DEF Stacked
<1>7. \A s, seen, trail : Arrives(s, seen, trail) => Arrives(s, seen, trail)'
  BY <1>1 DEF Arrives
<1>8. QED
  BY <1>1, <1>6, <1>7

LEMMA TripGoesOn ==
  ASSUME tree' = tree, boxPhase' \in {"walking", "done"}, boxPhase' = "done" => boxFrames' = <<>>,
         Apart(pages'), Stacked(boxFrames'), NEW more, Arrives(boxFrames', boxVisited', more),
         more \in Seq(PathFrom(Types, Root)), page_index' = Len(more), Reported(pages', more)
  PROVE  BoxTrips'
<1>1. Types' = Types
  BY TreeKept
<1>2. Stacked(boxFrames)'
  <2>1. AllExpand(boxFrames)' /\ Carries(boxFrames)'
    <3>1. \A node : Expands(node)' <=> Expands(node)
      BY DEF Expands, Kids
    <3>2. \A node, kind : States(node, kind)' = States(node, kind)
      BY DEF States
    <3>3. AllExpand(boxFrames') /\ Carries(boxFrames')
      BY DEF Stacked
    <3>4. AllExpand(boxFrames)'
      BY <3>1, <3>3 DEF AllExpand
    <3>5. Carries(boxFrames)'
      BY <3>2, <3>3 DEF Carries, NearestBox
    <3>6. QED
      BY <3>4, <3>5
  <2>2. Rooted(Types, boxFrames)' /\ Counting(boxFrames)'
    BY <1>1 DEF Stacked, Rooted, Counting
  <2>3. QED
    BY <2>1, <2>2 DEF Stacked
<1>3. BoxTrip(more)'
  <2>1. Branches' = Branches /\ Opening' = Opening
    BY TreeKept, OpeningKept
  <2>2. Arrives(boxFrames, boxVisited, more)'
    BY <1>1, <2>1 DEF Arrives
  <2>3. Reported(pages, more)'
    <3>1. \A path, k : PageFor(path, k)' = PageFor(path, k) /\ Editable(path)' = Editable(path)
      BY ReportsKept
    <3>2. QED
      BY <3>1 DEF Reported, Slots
  <2>4. QED
    BY <1>1, <2>2, <2>3 DEF BoxTrip
<1>4. Apart(pages)'
  BY DEF Apart
<1>5. (boxPhase \in {"walking", "done"})' /\ (boxPhase = "done" => boxFrames = <<>>)'
  OBVIOUS
<1>6. QED
  BY <1>2, <1>3, <1>4, <1>5 DEF BoxTrips

(* The walk at a kid of the top call.                                       *)
TripAt(kid, trail) ==
  /\ BoxTrip(trail) /\ Stacked(boxFrames) /\ Apart(pages) /\ tree \in TreeShape
  /\ Len(boxFrames) \in Nat \ {0} /\ boxFrames # <<>> /\ kid \in Objects
  /\ HasKid(Branches, boxFrames) /\ KidAt(Branches, boxFrames) = kid
  /\ Types[kid] = NodeType(kid) /\ TopFrame = boxFrames[Len(boxFrames)]
  /\ boxFrames \in Seq(BoxFrame(StatedBoxes(tree)))
  /\ Moved(boxFrames, BoxAdvanced) /\ BoxAdvanced \in Seq(BoxFrame(StatedBoxes(tree)))
  /\ Stacked(BoxAdvanced)

LEMMA TripAtKid ==
  ASSUME BoxesInv, BoxTrips, NEW kid \in Objects, AtBoxKid(kid)
  PROVE  \E trail : TripAt(kid, trail)
<1>1. /\ boxPhase = "walking" /\ boxFrames # <<>>
      /\ TopFrame.next <= Len(Kids(TopFrame.node)) /\ kid = Kids(TopFrame.node)[TopFrame.next]
      /\ TopFrame = boxFrames[Len(boxFrames)]
  BY DEF AtBoxKid, TopFrame
<1>2. tree \in TreeShape /\ boxFrames \in Seq(BoxFrame(StatedBoxes(tree)))
  BY DEF BoxesInv
<1>3. Stacked(boxFrames) /\ Apart(pages)
  BY <1>1 DEF BoxTrips
<1>4. PICK trail : BoxTrip(trail)
  BY <1>1 DEF BoxTrips
<1>5. AllExpand(boxFrames) /\ Carries(boxFrames) /\ Rooted(Types, boxFrames) /\ Counting(boxFrames)
  BY <1>3 DEF Stacked
<1>6. Len(boxFrames) \in Nat \ {0} /\ Len(boxFrames) \in 1..Len(boxFrames)
  BY <1>1, <1>2, EmptySeq
<1>7. boxFrames[Len(boxFrames)].next \in Nat \ {0}
  BY <1>5, <1>6 DEF Counting
<1>8. HasKid(Branches, boxFrames) /\ KidAt(Branches, boxFrames) = kid
  <2>1. /\ HasKid(Branches, boxFrames) <=> ~(TopFrame.next > Len(Kids(TopFrame.node)))
        /\ KidAt(Branches, boxFrames) = kid
    BY <1>1, <1>2, <1>5, <1>6, <1>7, StackAtKid
  <2>2. TopFrame.next \in Nat /\ Len(Kids(TopFrame.node)) \in Nat
    <3>1. TopFrame.node \in Objects /\ Expands(TopFrame.node)
      BY <1>1, <1>5, <1>6 DEF AllExpand
    <3>2. Kids(TopFrame.node) \in Seq(Objects)
      BY <1>2, <3>1, BranchesTyped
    <3>3. QED
      BY <1>1, <1>7, <3>2, LenProperties
  <2>3. QED
    BY <1>1, <2>1, <2>2
<1>9. /\ Moved(boxFrames, BoxAdvanced) /\ BoxAdvanced \in Seq(BoxFrame(StatedBoxes(tree)))
      /\ \A i \in 1..Len(boxFrames) : BoxAdvanced[i].inherited = boxFrames[i].inherited
  BY <1>1, <1>2, BoxMoves
<1>10. /\ Len(BoxAdvanced) = Len(boxFrames) /\ SameNodes(boxFrames, BoxAdvanced, Len(boxFrames))
       /\ \A i \in 1..Len(boxFrames) :
            BoxAdvanced[i].next = IF i = Len(boxFrames) THEN boxFrames[i].next + 1 ELSE boxFrames[i].next
  BY <1>9 DEF Moved
<1>11. Stacked(BoxAdvanced)
  <2>1. AllExpand(BoxAdvanced)
    BY <1>5, <1>9, MovedExpands
  <2>2. Carries(BoxAdvanced)
    BY <1>5, <1>6, <1>9, <1>10, CarriedOn
  <2>3. Rooted(Types, BoxAdvanced)
    BY <1>5, <1>10 DEF Rooted, SameNodes
  <2>4. Counting(BoxAdvanced)
    <3>1. \A i \in 1..Len(boxFrames) : boxFrames[i].next \in Nat \ {0}
      BY <1>5 DEF Counting
    <3>2. \A i \in 1..Len(boxFrames) : BoxAdvanced[i].next \in Nat \ {0}
      BY <1>10, <3>1
    <3>3. QED
      BY <1>10, <3>2 DEF Counting
  <2>5. QED
    BY <2>1, <2>2, <2>3, <2>4 DEF Stacked
<1>12. Types[kid] = NodeType(kid)
  BY <1>2, BranchesTyped
<1>13. TripAt(kid, trail)
  BY <1>1, <1>2, <1>3, <1>4, <1>6, <1>8, <1>9, <1>11, <1>12 DEF TripAt
<1>14. QED
  BY <1>13

(* The place past that kid.                                                 *)
LEMMA TripPast ==
  ASSUME NEW kid, NEW trail, TripAt(kid, trail)
  PROVE  /\ NodeType(kid) = "Page" =>
              Arrives(BoxAdvanced, boxVisited, Append(trail, PathTo(boxFrames, kid)))
         /\ NodeType(kid) \notin {"Page", "Pages"} => Arrives(BoxAdvanced, boxVisited, trail)
         /\ NodeType(kid) = "Pages" /\ ~(kid \notin boxVisited /\ Len(boxFrames) <= MaxDepth /\ Expands(kid)) =>
              Arrives(BoxAdvanced, boxVisited \cup {kid}, trail)
         /\ NodeType(kid) = "Pages" /\ kid \notin boxVisited /\ Len(boxFrames) <= MaxDepth /\ Expands(kid) =>
              \A t : Opened(boxFrames, t, kid) => Arrives(t, boxVisited \cup {kid}, trail)
<1> DEFINE calls_ == CallsOf(boxFrames)
           path == PathTo(boxFrames, kid)
           here == Spot(calls_, boxVisited, trail)
           next == PastKid(Types, Opening, here, kid)
           longer == Append(trail, path)
           met == boxVisited \cup {kid}
<1>1. /\ HasTrip(Branches, Types, Opening, here) /\ Len(boxFrames) \in Nat \ {0}
      /\ HasKid(Branches, boxFrames) /\ KidAt(Branches, boxFrames) = kid
      /\ Types[kid] = NodeType(kid) /\ Moved(boxFrames, BoxAdvanced) /\ kid \in Objects
  BY DEF TripAt, BoxTrip, Arrives
<1>2. Len(calls_) = Len(boxFrames)
      /\ (HasKid(Branches, calls_) <=> HasKid(Branches, boxFrames))
      /\ KidAt(Branches, calls_) = KidAt(Branches, boxFrames)
      /\ PathTo(calls_, kid) = path
  BY <1>1, CallsSame, CallsKid
<1>3. Beyond(calls_) = CallsOf(BoxAdvanced) /\ \A t : Opened(boxFrames, t, kid) => CallsOf(t) = Into(calls_, kid)
  BY <1>1, CallsMove, CallsOpen
<1>4. kid \in Opening <=> Expands(kid)
  BY <1>1 DEF Opening
<1> HIDE DEF calls_, path, longer, met
<1>5. here.stack = calls_ /\ here.seen = boxVisited /\ here.trail = trail
  BY DEF Spot
<1>6. next = IF NodeType(kid) = "Page" THEN Spot(CallsOf(BoxAdvanced), boxVisited, longer)
             ELSE IF NodeType(kid) # "Pages" THEN Spot(CallsOf(BoxAdvanced), boxVisited, trail)
             ELSE IF kid \notin boxVisited /\ Len(boxFrames) <= MaxDepth /\ Expands(kid)
             THEN Spot(Into(calls_, kid), met, trail)
             ELSE Spot(CallsOf(BoxAdvanced), met, trail)
  <2> HIDE DEF here
  <2>1. next = IF NodeType(kid) = "Page" THEN Spot(Beyond(calls_), boxVisited, Append(trail, PathTo(calls_, kid)))
               ELSE IF NodeType(kid) # "Pages" THEN Spot(Beyond(calls_), boxVisited, trail)
               ELSE IF kid \notin boxVisited /\ Len(calls_) <= MaxDepth /\ kid \in Opening
               THEN Spot(Into(calls_, kid), boxVisited \cup {kid}, trail)
               ELSE Spot(Beyond(calls_), boxVisited \cup {kid}, trail)
    BY <1>1, <1>5, Zenon DEF PastKid
  <2>2. QED
    BY <1>2, <1>3, <1>4, <2>1, Zenon DEF longer, met
<1>7. HasTrip(Branches, Types, Opening, next)
  <2>1. Len(here.stack) # 0
    BY <1>1, <1>2, <1>5
  <2>2. next = NextSpot(Branches, Types, Opening, here)
    BY <1>1, <1>2, <1>5 DEF NextSpot
  <2> HIDE DEF next, here
  <2>3. QED
    BY <1>1, <2>1, <2>2, TripGrows
<1> HIDE DEF next, here
<1>8. NodeType(kid) = "Page" => Arrives(BoxAdvanced, boxVisited, longer)
  BY <1>6, <1>7 DEF Arrives
<1>9. NodeType(kid) \notin {"Page", "Pages"} => Arrives(BoxAdvanced, boxVisited, trail)
  BY <1>6, <1>7 DEF Arrives
<1>10. NodeType(kid) = "Pages" /\ ~(kid \notin boxVisited /\ Len(boxFrames) <= MaxDepth /\ Expands(kid)) =>
         Arrives(BoxAdvanced, met, trail)
  BY <1>6, <1>7 DEF Arrives
<1>11. ASSUME NodeType(kid) = "Pages", kid \notin boxVisited, Len(boxFrames) <= MaxDepth, Expands(kid),
              NEW t, Opened(boxFrames, t, kid)
       PROVE  Arrives(t, met, trail)
  <2>1. next = Spot(CallsOf(t), met, trail)
    BY <1>3, <1>6, <1>11
  <2>2. QED
    BY <1>7, <2>1 DEF Arrives
<1>12. QED
  BY <1>8, <1>9, <1>10, <1>11 DEF longer, met, path

LEMMA LeafPathIs ==
  ASSUME NEW kid, NEW trail, TripAt(kid, trail), NodeType(kid) = "Page"
  PROVE  PathTo(boxFrames, kid) \in PathFrom(Types, Root)
<1> DEFINE path == PathTo(boxFrames, kid)
<1>1. PICK n \in Nat \ {0} : n = Len(boxFrames)
  BY DEF TripAt
<1>2. /\ \A i \in 1..n : boxFrames[i].node \in Objects
      /\ \A i \in 1..n : IF i = 1 THEN boxFrames[i].node = Root ELSE Types[boxFrames[i].node] = "Pages"
      /\ kid \in Objects /\ Types[kid] = "Page"
  BY <1>1 DEF TripAt, Stacked, AllExpand, Rooted
<1>3. path = [k \in 1..(n + 1) |-> IF k <= n THEN boxFrames[k].node ELSE kid]
  BY <1>1 DEF PathTo
<1>4. \A k \in 1..(n + 1) : k <= n => k \in 1..n
  OBVIOUS
<1>5. path \in [1..(n + 1) -> Objects]
  BY <1>2, <1>3, <1>4
<1>6. path[n + 1] = kid /\ \A k \in 1..n : path[k] = boxFrames[k].node
  <2>1. n + 1 \in 1..(n + 1) /\ ~(n + 1 <= n) /\ \A k \in 1..n : k \in 1..(n + 1) /\ k <= n
    OBVIOUS
  <2>2. QED
    BY <1>3, <2>1
<1> HIDE DEF path
<1>7. path \in Seq(Objects) /\ Len(path) = n + 1
  <2>1. n + 1 \in Nat
    OBVIOUS
  <2>2. path \in Seq(Objects)
    BY <1>5, <2>1
  <2>3. DOMAIN path = 1..(n + 1) /\ DOMAIN path = 1..Len(path) /\ Len(path) \in Nat
    BY <1>5, <2>2, LenProperties
  <2>4. QED
    BY <2>1, <2>2, <2>3
<1>8. 1 \in 1..n /\ \A i \in 2..((n + 1) - 1) : i \in 1..n /\ i # 1
  OBVIOUS
<1>9. path[1] = Root /\ Types[path[n + 1]] = "Page" /\ \A i \in 2..((n + 1) - 1) : Types[path[i]] = "Pages"
  BY <1>2, <1>6, <1>8
<1>10. n + 1 >= 2
  OBVIOUS
<1>11. path \in PathFrom(Types, Root)
  BY <1>7, <1>9, <1>10 DEF PathFrom
<1>12. QED
  BY <1>11 DEF path

(* Beyond a kid that is no leaf to number.                                    *)
LEMMA TripPasses ==
  ASSUME NEW kid, NEW trail, TripAt(kid, trail), tree' = tree, boxPhase' = "walking",
         boxFrames' = BoxAdvanced, UNCHANGED <<page_index, pages>>,
         Arrives(BoxAdvanced, boxVisited', trail)
  PROVE  BoxTrips'
<1>1. /\ Apart(pages') /\ Stacked(boxFrames') /\ Arrives(boxFrames', boxVisited', trail)
      /\ trail \in Seq(PathFrom(Types, Root)) /\ page_index' = Len(trail) /\ Reported(pages', trail)
  BY DEF TripAt, BoxTrip
<1>2. boxPhase' \in {"walking", "done"} /\ (boxPhase' = "done" => boxFrames' = <<>>)
  OBVIOUS
<1>3. QED
  BY <1>1, <1>2, TripGoesOn

LEMMA TripPassesOver ==
  ASSUME BoxesInv, BoxTrips, PassOverKid
  PROVE  BoxTrips'
<1>1. PICK kid \in Objects :
        /\ AtBoxKid(kid) /\ NodeType(kid) \in {"Other", "Unresolved"} /\ boxFrames' = BoxAdvanced
        /\ tree' = tree /\ boxPhase' = boxPhase /\ UNCHANGED <<page_index, pages>>
        /\ boxVisited' = boxVisited
  BY DEF PassOverKid
<1>2. PICK trail : TripAt(kid, trail)
  BY <1>1, TripAtKid
<1>3. boxPhase' = "walking"
  BY <1>1 DEF AtBoxKid
<1>4. Arrives(BoxAdvanced, boxVisited', trail)
  BY <1>1, <1>2, TripPast
<1>5. QED
  BY <1>1, <1>2, <1>3, <1>4, TripPasses

LEMMA TripReports ==
  ASSUME BoxesInv, BoxTrips, ReportLeaf
  PROVE  BoxTrips'
<1>1. PICK leaf \in Objects :
        /\ AtBoxKid(leaf) /\ NodeType(leaf) = "Page" /\ LeafRefusal(leaf) = Absent
        /\ LET media == LeafBox(leaf, "MediaBox")
           IN  pages' = Append(pages, [page_index |-> page_index, leaf |-> leaf, media |-> media,
                                       crop |-> CropOrMedia(LeafBox(leaf, "CropBox"), media)])
        /\ page_index' = page_index + 1 /\ boxFrames' = BoxAdvanced
        /\ tree' = tree /\ boxPhase' = boxPhase /\ boxVisited' = boxVisited
  BY DEF ReportLeaf, CountLeaf
<1>2. PICK trail : TripAt(leaf, trail)
  BY <1>1, TripAtKid
<1> DEFINE media == LeafBox(leaf, "MediaBox")
           page == [page_index |-> page_index, leaf |-> leaf, media |-> media,
                    crop |-> CropOrMedia(LeafBox(leaf, "CropBox"), media)]
           path == PathTo(boxFrames, leaf)
           more == Append(trail, path)
<1>3. /\ page_index = Len(trail) /\ Reported(pages, trail) /\ trail \in Seq(PathFrom(Types, Root))
      /\ tree \in TreeShape /\ Len(boxFrames) \in Nat \ {0} /\ AllExpand(boxFrames) /\ Carries(boxFrames)
      /\ TopFrame = boxFrames[Len(boxFrames)] /\ Stacked(BoxAdvanced) /\ Apart(pages)
  BY <1>2 DEF TripAt, BoxTrip, Stacked
<1>4. trail \in PathSeq
  BY <1>3 DEF Reported
<1>5. Longer(trail, path, more) /\ Editable(path) /\ PageFor(path, page_index) = page
  BY <1>1, <1>3, <1>4, LeafReportIs
<1>6. page \in PageReport /\ page.page_index = page_index
  <2>1. page \in StatedPages(tree)
    BY <1>1, LeafStates
  <2>2. page.page_index = page_index
    OBVIOUS
  <2> HIDE DEF page
  <2>3. QED
    BY <2>1, <2>2 DEF StatedPages
<1>7. path \in PathFrom(Types, Root)
  BY <1>1, <1>2, LeafPathIs
<1>8. Arrives(BoxAdvanced, boxVisited, more)
  BY <1>1, <1>2, TripPast
<1>9. pages' = Append(pages, page)
  BY <1>1
<1> HIDE DEF page, path
<1>10. more \in Seq(PathFrom(Types, Root)) /\ Len(more) = Len(trail) + 1
  BY <1>3, <1>7, AppendProperties
<1> HIDE DEF more
<1>11. Reported(pages', more)
  BY <1>3, <1>5, <1>6, <1>9, ReportedMore
<1>12. Apart(pages')
  <2>1. \A i \in 1..Len(pages) : pages[i].page_index \in Nat /\ pages[i].page_index # page_index
    <3>1. \A i \in 1..Len(pages) : pages[i].page_index \in Nat /\ pages[i].page_index < Len(trail)
      BY <1>3 DEF Reported
    <3>2. Len(trail) \in Nat
      BY <1>3, LenProperties
    <3>3. QED
      BY <1>3, <3>1, <3>2
  <2>2. pages \in Seq(PageReport)
    BY <1>3 DEF Reported
  <2>3. /\ Len(pages) \in Nat /\ Len(pages') = Len(pages) + 1 /\ pages'[Len(pages) + 1] = page
        /\ \A i \in 1..Len(pages) : pages'[i] = pages[i]
    BY <1>6, <1>9, <2>2, LenProperties, AppendProperties
  <2>4. \A i \in 1..Len(pages') : i \in 1..Len(pages) \/ i = Len(pages) + 1
    BY <2>3
  <2>5. \A i, j \in 1..Len(pages') : pages'[i].page_index = pages'[j].page_index => i = j
    <3>1. \A i, j \in 1..Len(pages) : pages[i].page_index = pages[j].page_index => i = j
      BY <1>3 DEF Apart
    <3>2. QED
      BY <1>6, <2>1, <2>3, <2>4, <3>1
  <2>6. QED
    BY <2>5 DEF Apart
<1>13. /\ page_index' = Len(more) /\ boxPhase' = "walking" /\ Stacked(boxFrames')
       /\ Arrives(boxFrames', boxVisited', more)
  BY <1>1, <1>3, <1>8, <1>10 DEF AtBoxKid
<1>14. boxPhase' \in {"walking", "done"} /\ (boxPhase' = "done" => boxFrames' = <<>>)
  BY <1>13
<1>15. QED
  BY <1>1, <1>10, <1>11, <1>12, <1>13, <1>14, TripGoesOn

LEMMA TripRefuses ==
  ASSUME BoxesInv, BoxTrips, RefuseLeaf
  PROVE  BoxTrips'
<1>1. PICK leaf \in Objects :
        /\ AtBoxKid(leaf) /\ NodeType(leaf) = "Page" /\ LeafRefusal(leaf) # Absent
        /\ page_index' = page_index + 1 /\ boxFrames' = BoxAdvanced
        /\ tree' = tree /\ boxPhase' = boxPhase /\ pages' = pages /\ boxVisited' = boxVisited
  BY DEF RefuseLeaf, CountLeaf
<1>2. PICK trail : TripAt(leaf, trail)
  BY <1>1, TripAtKid
<1> DEFINE path == PathTo(boxFrames, leaf)
           more == Append(trail, path)
<1>3. /\ page_index = Len(trail) /\ Reported(pages, trail) /\ trail \in Seq(PathFrom(Types, Root))
      /\ tree \in TreeShape /\ Len(boxFrames) \in Nat \ {0} /\ AllExpand(boxFrames) /\ Carries(boxFrames)
      /\ TopFrame = boxFrames[Len(boxFrames)] /\ Stacked(BoxAdvanced) /\ Apart(pages)
  BY <1>2 DEF TripAt, BoxTrip, Stacked
<1>4. trail \in PathSeq
  BY <1>3 DEF Reported
<1>5. Longer(trail, path, more) /\ ~Editable(path)
  BY <1>1, <1>3, <1>4, LeafReportIs
<1>6. path \in PathFrom(Types, Root)
  BY <1>1, <1>2, LeafPathIs
<1>7. Arrives(BoxAdvanced, boxVisited, more)
  BY <1>1, <1>2, TripPast
<1> HIDE DEF path
<1>8. more \in Seq(PathFrom(Types, Root)) /\ Len(more) = Len(trail) + 1
  BY <1>3, <1>6, AppendProperties
<1> HIDE DEF more
<1>9. Reported(pages', more) /\ Apart(pages')
  BY <1>1, <1>3, <1>5, ReportedRefused
<1>10. /\ page_index' = Len(more) /\ boxPhase' = "walking" /\ Stacked(boxFrames')
       /\ Arrives(boxFrames', boxVisited', more)
  BY <1>1, <1>3, <1>7, <1>8 DEF AtBoxKid
<1>11. boxPhase' \in {"walking", "done"} /\ (boxPhase' = "done" => boxFrames' = <<>>)
  BY <1>10
<1>12. QED
  BY <1>1, <1>8, <1>9, <1>10, <1>11, TripGoesOn

(* Into a node: the calls open then are rooted and count from one.          *)
LEMMA StackedMore ==
  ASSUME tree \in TreeShape, NEW S, NEW moved \in Seq(S), Stacked(moved),
         NEW node \in Objects, Expands(node), NEW inherited,
         IF moved = <<>> THEN inherited = NothingInherited
                         ELSE inherited = moved[Len(moved)].inherited,
         IF moved = <<>> THEN node = Root ELSE Types[node] = "Pages",
         NEW frame \in S, frame.node = node, frame.next = 1, frame.inherited = ApplyInherited(node, inherited)
  PROVE  Stacked(Append(moved, frame))
<1> DEFINE more == Append(moved, frame)
           n == Len(moved)
<1>1. AllExpand(moved) /\ Carries(moved) /\ Rooted(Types, moved) /\ Counting(moved)
  BY DEF Stacked
<1>2. AllExpand(more) /\ Carries(more)
  BY <1>1, CarriesMore
<1>3. /\ n \in Nat /\ Len(more) = n + 1 /\ more[n + 1] = frame /\ \A i \in 1..n : more[i] = moved[i]
  BY LenProperties, AppendProperties
<1>4. n = 0 <=> moved = <<>>
  BY EmptySeq
<1> HIDE DEF more
<1>5. \A i \in 1..Len(more) : i \in 1..n \/ i = n + 1
  BY <1>3
<1>6. Rooted(Types, more)
  <2>1. \A i \in 1..n : IF i = 1 THEN moved[i].node = Root ELSE Types[moved[i].node] = "Pages"
    BY <1>1 DEF Rooted
  <2>2. IF n + 1 = 1 THEN frame.node = Root ELSE Types[frame.node] = "Pages"
    BY <1>3, <1>4
  <2>3. \A i \in 1..Len(more) : IF i = 1 THEN more[i].node = Root ELSE Types[more[i].node] = "Pages"
    BY <1>3, <1>5, <2>1, <2>2
  <2>4. QED
    BY <2>3 DEF Rooted
<1>7. Counting(more)
  <2>1. \A i \in 1..n : moved[i].next \in Nat \ {0}
    BY <1>1 DEF Counting
  <2>2. \A i \in 1..Len(more) : more[i].next \in Nat \ {0}
    BY <1>3, <1>5, <2>1
  <2>3. QED
    BY <2>2 DEF Counting
<1>8. Stacked(more)
  BY <1>2, <1>6, <1>7 DEF Stacked
<1>9. QED
  BY <1>8 DEF more

LEMMA TripDescends ==
  ASSUME BoxesInv, BoxTrips, DescendBoxes
  PROVE  BoxTrips'
<1>1. PICK kid \in Objects :
        /\ AtBoxKid(kid) /\ NodeType(kid) = "Pages" /\ boxPhase' = boxPhase
        /\ ProcessPagesNode(kid, TopFrame.inherited)
  BY DEF DescendBoxes
<1>2. /\ tree' = tree /\ page_index' = page_index /\ pages' = pages
      /\ boxVisited' = boxVisited \cup {kid} /\ boxPhase' = "walking"
  BY <1>1 DEF ProcessPagesNode, AtBoxKid
<1>3. PICK trail : TripAt(kid, trail)
  BY <1>1, TripAtKid
<1>4. /\ tree \in TreeShape /\ Len(boxFrames) \in Nat \ {0} /\ Types[kid] = "Pages"
      /\ TopFrame = boxFrames[Len(boxFrames)] /\ Stacked(BoxAdvanced) /\ Apart(pages)
      /\ boxFrames \in Seq(BoxFrame(StatedBoxes(tree))) /\ boxFrames # <<>>
      /\ Moved(boxFrames, BoxAdvanced) /\ BoxAdvanced \in Seq(BoxFrame(StatedBoxes(tree)))
      /\ BoxTrip(trail)
  BY <1>1, <1>3 DEF TripAt
<1> DEFINE met == boxVisited \cup {kid}
           kept == ApplyInherited(kid, TopFrame.inherited)
           frame == [node |-> kid, next |-> 1, inherited |-> kept]
<1>5. \/ /\ ~(kid \notin boxVisited /\ Len(boxFrames) <= MaxDepth /\ Expands(kid))
         /\ boxFrames' = BoxAdvanced
      \/ /\ kid \notin boxVisited /\ Len(boxFrames) <= MaxDepth /\ Expands(kid)
         /\ boxFrames' = Append(BoxAdvanced, frame)
  <2>1. \/ kid \in boxVisited /\ boxFrames' = BoxAdvanced
        \/ Len(boxFrames) > MaxDepth /\ boxFrames' = BoxAdvanced
        \/ ~Expands(kid) /\ boxFrames' = BoxAdvanced
        \/ /\ kid \notin boxVisited /\ Len(boxFrames) <= MaxDepth /\ Expands(kid)
           /\ boxFrames' = Append(BoxAdvanced, frame)
    BY <1>1, Zenon DEF ProcessPagesNode
  <2>2. Len(boxFrames) > MaxDepth => ~(Len(boxFrames) <= MaxDepth)
    BY <1>4, BoundsAreNat
  <2>3. QED
    BY <2>1, <2>2, Zenon
<1>6. /\ ~(kid \notin boxVisited /\ Len(boxFrames) <= MaxDepth /\ Expands(kid)) =>
           Arrives(BoxAdvanced, met, trail)
      /\ kid \notin boxVisited /\ Len(boxFrames) <= MaxDepth /\ Expands(kid) =>
           \A t : Opened(boxFrames, t, kid) => Arrives(t, met, trail)
  BY <1>1, <1>3, TripPast
<1>7. boxVisited' = met
  BY <1>2
<1> HIDE DEF met
<1>8. CASE /\ ~(kid \notin boxVisited /\ Len(boxFrames) <= MaxDepth /\ Expands(kid))
           /\ boxFrames' = BoxAdvanced
  <2>1. Arrives(BoxAdvanced, boxVisited', trail)
    BY <1>6, <1>7, <1>8
  <2>2. QED
    BY <1>2, <1>3, <1>8, <2>1, TripPasses
<1>9. CASE /\ kid \notin boxVisited /\ Len(boxFrames) <= MaxDepth /\ Expands(kid)
           /\ boxFrames' = Append(BoxAdvanced, frame)
  <2> DEFINE S == BoxFrame(StatedBoxes(tree))
  <2>1. frame \in S /\ frame.node = kid /\ frame.next = 1 /\ frame.inherited = kept
    <3>1. Len(boxFrames) \in 1..Len(boxFrames)
      BY <1>4
    <3>2. TopFrame \in S
      BY <1>4, <3>1, ElementOfSeq
    <3>3. TopFrame.inherited \in StatedBoxes(tree)
      BY <3>2 DEF BoxFrame
    <3>4. kept \in StatedBoxes(tree)
      BY <1>4, <1>9, <3>3, NodeStates
    <3> HIDE DEF kept
    <3>5. QED
      BY <3>4 DEF BoxFrame
  <2>2. BoxAdvanced # <<>> /\ BoxAdvanced[Len(BoxAdvanced)].inherited = TopFrame.inherited
    <3>1. Len(BoxAdvanced) = Len(boxFrames)
      BY <1>4 DEF Moved
    <3>2. \A i \in 1..Len(boxFrames) : BoxAdvanced[i].inherited = boxFrames[i].inherited
      BY <1>4, BoxMoves
    <3>3. Len(boxFrames) \in 1..Len(boxFrames) /\ Len(<<>>) = 0
      BY <1>4
    <3>4. QED
      BY <1>4, <3>1, <3>2, <3>3
  <2>3. frame.inherited = ApplyInherited(kid, TopFrame.inherited) /\ BoxAdvanced \in Seq(S)
    BY <1>4, <2>1
  <2> HIDE DEF frame, kept, S
  <2>4. Opened(boxFrames, boxFrames', kid)
    BY <1>4, <1>9, <2>1, <2>3, StackOpens
  <2>5. IF BoxAdvanced = <<>> THEN TopFrame.inherited = NothingInherited
                              ELSE TopFrame.inherited = BoxAdvanced[Len(BoxAdvanced)].inherited
    BY <2>2
  <2>6. IF BoxAdvanced = <<>> THEN kid = Root ELSE Types[kid] = "Pages"
    BY <1>4, <2>2
  <2>7. Stacked(Append(BoxAdvanced, frame))
    BY <1>4, <1>9, <2>1, <2>3, <2>5, <2>6, StackedMore
  <2>8. Stacked(boxFrames') /\ Arrives(boxFrames', boxVisited', trail)
    BY <1>6, <1>7, <1>9, <2>4, <2>7
  <2>9. /\ Apart(pages') /\ trail \in Seq(PathFrom(Types, Root)) /\ page_index' = Len(trail)
        /\ Reported(pages', trail)
    BY <1>2, <1>4 DEF BoxTrip
  <2>10. boxPhase' \in {"walking", "done"} /\ (boxPhase' = "done" => boxFrames' = <<>>)
    BY <1>2
  <2>11. QED
    BY <1>2, <2>8, <2>9, <2>10, TripGoesOn
<1>10. QED
  BY <1>5, <1>8, <1>9

LEMMA TripBegins ==
  ASSUME BoxesInv, BoxTrips, StartBoxes
  PROVE  BoxTrips'
<1>1. /\ boxPhase = "idle" /\ boxPhase' = "walking" /\ ProcessPagesNode(Root, NothingInherited)
      /\ boxFrames = <<>> /\ boxVisited = {} /\ page_index = 0 /\ pages = <<>> /\ tree \in TreeShape
  BY DEF StartBoxes, BoxTrips, BoxesInv
<1>2. /\ tree' = tree /\ page_index' = 0 /\ pages' = <<>> /\ BoxAdvanced = <<>>
      /\ boxVisited' = {} \cup {Root}
  BY <1>1 DEF ProcessPagesNode, BoxAdvanced
<1>3. Reported(<<>>, <<>>) /\ Len(<<>>) = 0 /\ 1..Len(<<>>) = {} /\ <<>> \in Seq(PathFrom(Types, Root))
  BY ReportedNothing
<1>4. Stacked(<<>>) /\ Apart(<<>>)
  BY <1>3 DEF Stacked, AllExpand, Carries, Rooted, Counting, Apart
<1> DEFINE kept == ApplyInherited(Root, NothingInherited)
           frame == [node |-> Root, next |-> 1, inherited |-> kept]
           S == BoxFrame(StatedBoxes(tree))
<1>5. \/ ~Expands(Root) /\ boxFrames' = <<>>
      \/ Expands(Root) /\ boxFrames' = Append(<<>>, frame)
  <2>1. \/ Root \in boxVisited \/ Len(boxFrames) > MaxDepth
        \/ ~Expands(Root) /\ boxFrames' = BoxAdvanced
        \/ Expands(Root) /\ boxFrames' = Append(BoxAdvanced, frame)
    BY <1>1, Zenon DEF ProcessPagesNode
  <2>2. ~(Len(boxFrames) > MaxDepth) /\ Root \notin boxVisited
    BY <1>1, <1>3, BoundsAreNat
  <2>3. QED
    BY <1>2, <2>1, <2>2
<1>6. boxVisited' = {Root} /\ HasTrip(Branches, Types, Opening, FirstSpot(Opening))
  BY <1>2, TripStarts
<1>7. Root \in Opening <=> Expands(Root)
  BY RootIsObject DEF Opening
<1>8. Stacked(boxFrames') /\ Arrives(boxFrames', boxVisited', <<>>)
  <2>1. CASE ~Expands(Root) /\ boxFrames' = <<>>
    <3>1. FirstSpot(Opening) = Spot(CallsOf(boxFrames'), boxVisited', <<>>)
      BY <1>6, <1>7, <2>1 DEF FirstSpot
    <3>2. Arrives(boxFrames', boxVisited', <<>>)
      BY <1>6, <3>1, Zenon DEF Arrives
    <3>3. QED
      BY <1>4, <2>1, <3>2
  <2>2. CASE Expands(Root) /\ boxFrames' = Append(<<>>, frame)
    <3>1. kept \in StatedBoxes(tree)
      BY <1>1, <2>2, RootIsObject, NodeStates
    <3> HIDE DEF kept
    <3>2. frame \in S /\ frame.node = Root /\ frame.next = 1 /\ frame.inherited = kept
      BY <3>1, RootIsObject DEF BoxFrame
    <3> HIDE DEF S, frame
    <3>3. PICK none \in Seq(S) : none = <<>>
      <4>1. <<>> \in Seq(S)
        OBVIOUS
      <4>2. QED
        BY <4>1
    <3>4. Stacked(none)
      BY <1>4, <3>3
    <3>5. IF none = <<>> THEN NothingInherited = NothingInherited
                         ELSE NothingInherited = none[Len(none)].inherited
      BY <3>3
    <3>6. frame.inherited = ApplyInherited(Root, NothingInherited)
      BY <3>2 DEF kept
    <3>7. IF none = <<>> THEN Root = Root ELSE Types[Root] = "Pages"
      BY <3>3
    <3>8. Stacked(Append(none, frame))
      BY <1>1, <2>2, <3>2, <3>4, <3>5, <3>6, <3>7, RootIsObject, StackedMore
    <3>9. Len(boxFrames') = 1 /\ boxFrames'[1] = frame
      <4>1. Len(Append(<<>>, frame)) = 1 /\ Append(<<>>, frame)[1] = frame
        OBVIOUS
      <4>2. QED
        BY <2>2, <4>1
    <3>10. CallsOf(boxFrames') = [i \in 1..1 |-> [node |-> Root, next |-> 1]]
      <4>1. PICK one : one = 1
        OBVIOUS
      <4>2. CallsOf(boxFrames') = [i \in 1..one |-> [node |-> boxFrames'[i].node, next |-> boxFrames'[i].next]]
        BY <3>9, <4>1, Zenon DEF CallsOf
      <4>3. \A i \in 1..one : i = 1
        BY <4>1
      <4>4. \A i \in 1..one : [node |-> boxFrames'[i].node, next |-> boxFrames'[i].next] = [node |-> Root, next |-> 1]
        BY <3>2, <3>9, <4>3
      <4>5. CallsOf(boxFrames') = [i \in 1..one |-> [node |-> Root, next |-> 1]]
        BY <4>2, <4>4, Zenon
      <4>6. QED
        BY <4>1, <4>5
    <3>11. FirstSpot(Opening) = Spot(CallsOf(boxFrames'), boxVisited', <<>>)
      BY <1>6, <1>7, <2>2, <3>10, Zenon DEF FirstSpot
    <3>12. Arrives(boxFrames', boxVisited', <<>>)
      BY <1>6, <3>11, Zenon DEF Arrives
    <3>13. Stacked(boxFrames')
      BY <2>2, <3>3, <3>8
    <3>14. QED
      BY <3>12, <3>13
  <2>3. QED
    BY <1>5, <2>1, <2>2
<1>9. PICK trail : trail = <<>>
  OBVIOUS
<1>10. /\ Apart(pages') /\ trail \in Seq(PathFrom(Types, Root)) /\ page_index' = Len(trail)
       /\ Reported(pages', trail) /\ Arrives(boxFrames', boxVisited', trail)
  BY <1>2, <1>3, <1>4, <1>8, <1>9
<1>11. boxPhase' \in {"walking", "done"} /\ (boxPhase' = "done" => boxFrames' = <<>>)
  BY <1>1
<1>12. QED
  BY <1>2, <1>8, <1>10, <1>11, TripGoesOn

LEMMA TripReturns ==
  ASSUME BoxesInv, BoxTrips, ReturnFromTargets
  PROVE  BoxTrips'
<1>1. /\ boxPhase = "walking" /\ boxFrames # <<>> /\ TopFrame.next > Len(Kids(TopFrame.node))
      /\ boxFrames' = Front(boxFrames) /\ tree' = tree /\ boxPhase' = "walking"
      /\ page_index' = page_index /\ pages' = pages /\ boxVisited' = boxVisited
      /\ TopFrame = boxFrames[Len(boxFrames)]
  BY DEF ReturnFromTargets, TopFrame
<1>2. /\ tree \in TreeShape /\ boxFrames \in Seq(BoxFrame(StatedBoxes(tree)))
      /\ Len(boxFrames) \in Nat \ {0} /\ Len(boxFrames) \in 1..Len(boxFrames)
  BY <1>1, EmptySeq DEF BoxesInv
<1>3. Stacked(boxFrames) /\ Apart(pages)
  BY <1>1 DEF BoxTrips
<1>4. PICK trail : BoxTrip(trail)
  BY <1>1 DEF BoxTrips
<1>5. AllExpand(boxFrames) /\ Carries(boxFrames) /\ Rooted(Types, boxFrames) /\ Counting(boxFrames)
  BY <1>3 DEF Stacked
<1>6. Closed(boxFrames, boxFrames')
      /\ \A k \in 1..Len(boxFrames') : boxFrames'[k] = boxFrames[k]
  <2> DEFINE S == BoxFrame(StatedBoxes(tree))
  <2>1. boxFrames \in Seq(S)
    BY <1>2
  <2> HIDE DEF S
  <2>2. Closed(boxFrames, Front(boxFrames))
    BY <1>1, <2>1, StackCloses
  <2>3. \A k \in 1..Len(Front(boxFrames)) : Front(boxFrames)[k] = boxFrames[k]
    BY <1>1, <2>1, Popped DEF Front
  <2>4. QED
    BY <1>1, <2>2, <2>3
<1>7. ~HasKid(Branches, boxFrames)
  <2>1. boxFrames[Len(boxFrames)].next \in Nat \ {0}
    BY <1>2, <1>5 DEF Counting
  <2>2. QED
    BY <1>1, <1>2, <1>5, <2>1, StackAtKid
<1>8. Len(boxFrames') = Len(boxFrames) - 1 /\ Len(boxFrames') \in Nat
      /\ SameNodes(boxFrames, boxFrames', Len(boxFrames'))
      /\ \A k \in 1..Len(boxFrames') : k \in 1..Len(boxFrames) /\ boxFrames'[k] = boxFrames[k]
  BY <1>2, <1>6 DEF Closed
<1>9. Stacked(boxFrames')
  <2>1. AllExpand(boxFrames')
    BY <1>5, <1>8 DEF AllExpand
  <2>2. Carries(boxFrames')
    BY <1>2, <1>5, <1>8, CarriedOn
  <2>3. Rooted(Types, boxFrames') /\ Counting(boxFrames')
    BY <1>5, <1>8 DEF Rooted, Counting
  <2>4. QED
    BY <2>1, <2>2, <2>3 DEF Stacked
<1>10. Arrives(boxFrames', boxVisited', trail)
  <2> DEFINE calls_ == CallsOf(boxFrames)
             here == Spot(calls_, boxVisited, trail)
             next == Spot(Back(calls_), boxVisited, trail)
  <2>1. HasTrip(Branches, Types, Opening, here)
    BY <1>4 DEF BoxTrip, Arrives
  <2>2. Len(calls_) = Len(boxFrames) /\ ~HasKid(Branches, calls_) /\ CallsOf(boxFrames') = Back(calls_)
    BY <1>2, <1>6, <1>7, CallsSame, CallsKid, CallsClose
  <2> HIDE DEF calls_
  <2>3. here.stack = calls_ /\ here.seen = boxVisited /\ here.trail = trail
    BY DEF Spot
  <2>4. Len(here.stack) # 0
    BY <1>2, <2>2, <2>3
  <2>5. next = NextSpot(Branches, Types, Opening, here)
    BY <2>2, <2>3 DEF NextSpot
  <2>6. Spot(CallsOf(boxFrames'), boxVisited', trail) = next
    BY <1>1, <2>2
  <2> HIDE DEF here, next
  <2>7. HasTrip(Branches, Types, Opening, next)
    BY <2>1, <2>4, <2>5, TripGrows
  <2>8. QED
    BY <2>6, <2>7 DEF Arrives
<1>11. /\ Apart(pages') /\ trail \in Seq(PathFrom(Types, Root)) /\ page_index' = Len(trail)
       /\ Reported(pages', trail)
  BY <1>1, <1>3, <1>4 DEF BoxTrip
<1>12. boxPhase' \in {"walking", "done"} /\ (boxPhase' = "done" => boxFrames' = <<>>)
  BY <1>1
<1>13. QED
  BY <1>1, <1>9, <1>10, <1>11, <1>12, TripGoesOn

LEMMA TripFinishes ==
  ASSUME BoxesInv, BoxTrips, FinishBoxes
  PROVE  BoxTrips'
<1>1. /\ boxPhase = "walking" /\ boxFrames = <<>> /\ boxPhase' = "done" /\ tree' = tree
      /\ boxFrames' = boxFrames /\ page_index' = page_index /\ pages' = pages
      /\ boxVisited' = boxVisited
  BY DEF FinishBoxes
<1>2. PICK trail : BoxTrip(trail)
  BY <1>1 DEF BoxTrips
<1>3. Stacked(boxFrames') /\ Apart(pages')
  BY <1>1 DEF BoxTrips
<1>4. /\ trail \in Seq(PathFrom(Types, Root)) /\ page_index' = Len(trail)
      /\ Reported(pages', trail) /\ Arrives(boxFrames', boxVisited', trail)
  BY <1>1, <1>2 DEF BoxTrip
<1>5. boxPhase' \in {"walking", "done"} /\ (boxPhase' = "done" => boxFrames' = <<>>)
  BY <1>1
<1>6. QED
  BY <1>1, <1>3, <1>4, <1>5, TripGoesOn

LEMMA TripStepsGoOn ==
  ASSUME BoxesInv, BoxTrips, BoxStep
  PROVE  BoxTrips'
BY TripBegins, TripDescends, TripPassesOver, TripReports, TripRefuses, TripReturns, TripFinishes DEF BoxStep

LEMMA TripStays ==
  ASSUME BoxTrips, tree' = tree, UNCHANGED boxVars
  PROVE  BoxTrips'
<1>1. /\ boxPhase' = boxPhase /\ boxFrames' = boxFrames /\ page_index' = page_index
      /\ pages' = pages /\ boxVisited' = boxVisited
  BY DEF boxVars
<1>2. CASE boxPhase = "idle"
  BY <1>1, <1>2 DEF BoxTrips, Apart
<1>3. CASE boxPhase # "idle"
  <2>1. PICK trail : BoxTrip(trail)
    BY <1>3 DEF BoxTrips
  <2>2. Stacked(boxFrames)' /\ BoxTrip(trail)'
    <3>1. Stacked(boxFrames') /\ Arrives(boxFrames', boxVisited', trail)
      BY <1>1, <1>3, <2>1 DEF BoxTrips, BoxTrip
    <3>2. \A path, k : PageFor(path, k)' = PageFor(path, k) /\ Editable(path)' = Editable(path)
      BY ReportsKept
    <3>3. Reported(pages, trail)'
      <4>1. Reported(pages', trail)
        BY <1>1, <2>1 DEF BoxTrip
      <4>2. QED
        BY <3>2, <4>1 DEF Reported, Slots
    <3>4. Types' = Types /\ Branches' = Branches /\ Opening' = Opening
      BY TreeKept, OpeningKept
    <3>5. Arrives(boxFrames, boxVisited, trail)'
      BY <3>1, <3>4 DEF Arrives
    <3>6. Stacked(boxFrames)'
      <4>1. \A node : Expands(node)' <=> Expands(node)
        BY DEF Expands, Kids
      <4>2. \A node, kind : States(node, kind)' = States(node, kind)
        BY DEF States
      <4>3. AllExpand(boxFrames)'
        BY <3>1, <4>1 DEF Stacked, AllExpand
      <4>4. Carries(boxFrames)'
        BY <3>1, <4>2 DEF Stacked, Carries, NearestBox
      <4>5. QED
        BY <3>1, <3>4, <4>3, <4>4 DEF Stacked, Rooted, Counting
    <3>7. QED
      BY <1>1, <2>1, <3>3, <3>4, <3>5, <3>6 DEF BoxTrip
  <2>3. QED
    BY <1>1, <2>2 DEF BoxTrips, Apart
<1>4. QED
  BY <1>2, <1>3

=============================================================================
