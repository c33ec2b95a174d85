--------------------------- MODULE MCDocumentPages ---------------------------
(***************************************************************************)
(* Small page trees for TLC: up to five /Pages nodes in every arrangement  *)
(* of a few /Kids arrays (trees, shared nodes, cycles, too deep, too       *)
(* many), a few arrangements with every mix of boxes, and one with every   *)
(* mix of /Resources and a few page contents.                              *)
(***************************************************************************)
EXTENDS ColorAudit

CONSTANTS r, a, b, c, p, q, x, n1, n2

MCObjects == {r, a, b, c, p, q, x}
MCRects == {1, 2, 3}
MCNames == {n1, n2}

Box(kind, rect) == <<Key(kind), Value(rect)>>

Node(kids, compressed, dict) ==
  [type |-> "Pages", kids |-> kids, parent |-> Absent, compressed |-> compressed,
   dict |-> dict]
Leaf(compressed, dict) ==
  [type |-> "Page", kids |-> Absent, parent |-> Absent, compressed |-> compressed,
   dict |-> dict]
Dead(type) ==
  [type |-> type, kids |-> Absent, parent |-> Absent, compressed |-> FALSE,
   dict |-> <<Rest>>]

Document(rNode, aNode, bNode, cNode, pLeaf, qLeaf, xNode) ==
  [o \in MCObjects |->
     CASE o = r -> rNode [] o = a -> aNode [] o = b -> bNode [] o = c -> cNode
       [] o = p -> pLeaf [] o = q -> qLeaf [] o = x -> xNode]

(* Every shape of /Kids graph over plain dictionaries.                      *)
Shapes ==
  {Document(Node(rk, FALSE, Box("MediaBox", 1)), Node(ak, FALSE, <<Rest>>),
            Node(bk, FALSE, <<Rest>>), Node(ck, FALSE, <<Rest>>),
            Leaf(FALSE, <<Rest>>), Leaf(FALSE, <<Rest>>), xn) :
     rk \in {<<a, p>>, <<p, a, b, c, x>>, <<a, a>>, <<b, p, a, q>>, Absent},
     ak \in {<<q>>, <<b, q>>, <<r, p>>, <<a>>, <<c, c, p>>, Absent},
     bk \in {<<q, p>>, <<c, q>>, <<a>>, <<x, q>>},
     ck \in {<<p>>, <<b, x>>},
     xn \in {Dead("Other"), Dead("Unresolved"), Node(<<q>>, FALSE, <<Rest>>)}}

(* Boxes stated, repeated or malformed at each level, over three shapes.    *)
NodeBoxes(rect) ==
  {<<Rest>>, Box("MediaBox", rect), <<Gap>> \o Box("CropBox", rect),
   Box("MediaBox", rect) \o <<Rest>> \o Box("MediaBox", rect)}

LeafBoxes ==
  {<<Rest>>, Box("MediaBox", 3) \o <<Rest>>, <<Rest>> \o Box("CropBox", 3),
   Box("CropBox", Malformed)}

BoxMixes ==
  {Document(Node(<<a, p>>, FALSE, rd), Node(ak, az, ad), Node(<<q, p>>, FALSE, <<Rest>>),
            Dead("Other"), Leaf(FALSE, pd), Leaf(qz, <<Rest>>), Dead("Other")) :
     rd \in NodeBoxes(1), ad \in NodeBoxes(2), az \in BOOLEAN, pd \in LeafBoxes,
     ak \in {<<p, q>>, <<b, q>>}, qz \in BOOLEAN}

(***************************************************************************)
(* One tree of two pages, the second below a node of its own.              *)
(***************************************************************************)
TwoPages ==
  Document(Node(<<p, a>>, FALSE, Box("MediaBox", 1)), Node(<<q>>, FALSE, <<Rest>>),
           Dead("Other"), Dead("Other"), Leaf(FALSE, <<Rest>>), Leaf(FALSE, <<Rest>>),
           Dead("Other"))

(* The same with its root in an object stream.                              *)
CompressedRoot == [TwoPages EXCEPT ![r].compressed = TRUE]

MCDocuments == Shapes \cup BoxMixes \cup {TwoPages, CompressedRoot}

Entry(name, target) == [name |-> name, target |-> target]
XObjects(list) == [xobject |-> list]

Plain == XObjects(<<Entry(n1, "Image"), Entry(n2, "Form")>>)
Doubled == XObjects(<<Entry(n1, "OpaqueForm"), Entry(n1, "Image"), Entry(n2, "Image")>>)
Unknown == XObjects(<<Entry(n1, "Unclassified"), Entry(n2, "Form")>>)

Located(items) == [elements |-> <<"located">>, items |-> items]
Listed(elements) == [elements |-> elements, items |-> <<"Process">>]

(* /Resources at r, a and q, and the contents of p and of q.                *)
Filled(document, rRes, aRes, qRes, pContent, qContent) ==
  [tree |-> document,
   resources |-> [o \in MCObjects |->
     CASE o = r -> rRes [] o = a -> aRes [] o = q -> qRes [] OTHER -> Absent],
   contents |-> [o \in MCObjects |->
     CASE o = p -> pContent [] o = q -> qContent [] OTHER -> Absent]]

MCPdfDocuments ==
  {Filled(d, Plain, Doubled, Absent, Located(<<n2>>), Located(<<"Rgb", n1>>)) :
     d \in MCDocuments}
  \cup {Filled(TwoPages, rRes, aRes, qRes, pContent, qContent) :
          rRes \in {Absent, Unusable, Plain}, aRes \in {Absent, Unusable, Doubled},
          qRes \in {Absent, Unusable, Unknown, XObjects(Absent), XObjects(Unusable)},
          pContent \in {Absent, Located(<<"Process", n2>>), Listed(<<"direct", "located">>)},
          qContent \in {Absent, Located(<<n1, "Rgb", n2>>), Located(<<"Process", n1>>),
                        Located(<<"Unmodeled", n1, n1>>),
                        Listed(<<"located", "lost">>), Listed(<<"direct">>), Listed(<<>>)}}

=============================================================================
