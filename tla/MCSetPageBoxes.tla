--------------------------- MODULE MCSetPageBoxes ---------------------------
(***************************************************************************)
(* Small documents for TLC: two leaves under the root or an inner node,    *)
(* once or twice, with the boxes at every place of the leaf dictionary;    *)
(* requests that edit one or both, swap corners, and fail in each way.     *)
(***************************************************************************)
EXTENDS SetPageBoxes

CONSTANTS r, a, p, q

MCObjects == {r, a, p, q}
MCRects == (0..3) \X (0..3)

Media(rect) == <<Key("MediaBox"), Value(rect)>>
Crop(rect) == <<Key("CropBox"), Value(rect)>>

Node(kids, dict) ==
  [type |-> "Pages", kids |-> kids, parent |-> Absent, compressed |-> FALSE, dict |-> dict]
Leaf(parent, compressed, dict) ==
  [type |-> "Page", kids |-> Absent, parent |-> parent, compressed |-> compressed,
   dict |-> dict]

Document(rNode, aNode, pLeaf, qLeaf) ==
  [o \in MCObjects |->
     CASE o = r -> rNode [] o = a -> aNode [] o = p -> pLeaf [] o = q -> qLeaf]

LeafDicts ==
  {<<Rest>>, <<Gap>> \o Media(<<0, 3>>) \o <<Rest>>, Media(<<0, 2>>) \o <<Rest>>,
   Crop(<<1, 2>>) \o <<Rest>> \o Media(<<0, 2>>), <<Rest>> \o Crop(<<2, 1>>),
   Media(<<0, 3>>) \o Crop(<<0, 3>>) \o <<Rest>>, Crop(Malformed)}

(* Every placement of boxes in one leaf.                                    *)
LeafPlacements ==
  {Document(Node(<<p, a>>, rd), Node(<<q>>, <<Rest>>),
            Leaf(parent, FALSE, pd), Leaf(a, qz, <<Rest>>)) :
     rd \in {<<Rest>>, Media(<<0, 3>>)}, parent \in {r, Absent}, pd \in LeafDicts,
     qz \in BOOLEAN}

(* A leaf in two slots, under nodes that state different boxes.             *)
SharedLeaves ==
  {Document(Node(rk, <<Rest>>), Node(ak, Media(<<0, 3>>)),
            Leaf(a, FALSE, pd), Leaf(a, FALSE, <<Rest>>)) :
     rk \in {<<p, a>>, <<a, a>>, Absent, <<q, a, p>>}, ak \in {<<p>>, <<q, p>>, <<p, p>>},
     pd \in {<<Rest>>, Media(<<1, 3>>)}}

(* A root that is a leaf too, listed by an inner node of its own tree.      *)
RootLeaves ==
  {[Document(Node(<<p, a>>, <<Rest>>), Node(<<r>>, Media(<<0, 3>>)),
             Leaf(r, FALSE, <<Rest>>), Leaf(a, FALSE, <<Rest>>))
      EXCEPT ![r].type = "Page", ![r].parent = a]}

MCDocuments == LeafPlacements \cup SharedLeaves \cup RootLeaves

Edit(index, media, crop) == [page_index |-> index, media |-> media, crop |-> crop]

MCRequests ==
  {<<Edit(0, <<3, 1>>, Absent)>>, <<Edit(0, <<0, 3>>, <<2, 1>>)>>,
   <<Edit(0, Absent, <<0, 2>>)>>,
   <<Edit(1, <<0, 2>>, Absent), Edit(0, <<0, 1>>, <<0, 1>>)>>,
   <<Edit(0, <<0, 2>>, <<1, 3>>)>>,
   <<Edit(0, <<1, 2>>, Absent), Edit(1, <<2, 2>>, Absent)>>,
   <<Edit(2, Absent, NonFinite), Edit(1, Absent, <<1, 2>>)>>,
   <<Edit(0, <<0, 1>>, Absent), Edit(0, Absent, <<0, 1>>)>>,
   <<Edit(0, Absent, Absent)>>, <<Edit(0, NonFinite, Absent)>>}

=============================================================================
