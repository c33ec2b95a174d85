------------------------------ MODULE PageTree ------------------------------
(***************************************************************************)
(* The page tree as the walks see it: what resolving and classifying an    *)
(* object reports.  "Unresolved" is an object that does not resolve, with  *)
(* kids Absent, or one without a single name as /Type.  A dictionary is a  *)
(* sequence of keys and values; a "gap" is white space, and "rest" stands  *)
(* for every entry but the page boxes.                                     *)
(***************************************************************************)
EXTENDS Naturals, Sequences

CONSTANTS
  Objects,     \* the object numbers of the document
  Root,        \* the page-tree root the document access spine reports
  Absent,      \* model value: no box, no parent, no usable /Kids, no truncation
  Malformed,   \* model value: a box that is duplicated, not a direct array, or
               \* not four finite numbers
  Rects,       \* page rectangles
  Documents,   \* the page trees that may be opened
  MaxDepth,    \* MAX_PAGE_TREE_DEPTH
  MaxNodes     \* MAX_VISITED_PAGE_TREE_NODES

ASSUME RootIsObject == Root \in Objects
ASSUME MarksAreNoRects == {Absent, Malformed} \cap Rects = {} /\ Absent # Malformed
ASSUME BoundsAreNat == MaxDepth \in Nat /\ MaxNodes \in Nat \ {0}

VARIABLE tree   \* the object each number resolves to

BoxKinds == {"MediaBox", "CropBox"}
Key(kind) == [tag |-> "key", kind |-> kind]
Value(box) == [tag |-> "value", box |-> box]
Gap == [tag |-> "gap"]
Rest == [tag |-> "rest"]

Token == {Key(kind) : kind \in BoxKinds}
           \cup {Value(box) : box \in Rects \cup {Malformed}} \cup {Gap, Rest}

ObjectShape ==
  [type : {"Pages", "Page", "Other", "Unresolved"},
   kids : Seq(Objects) \cup {Absent},    \* the references in /Kids, in order, or
                                         \* Absent: no one direct /Kids and /Count
   parent : Objects \cup {Absent},       \* Absent: not one plain reference
   compressed : BOOLEAN,                 \* lives in an object stream
   dict : Seq(Token)]

TreeShape == [Objects -> ObjectShape]
ASSUME DocumentsAreTrees == Documents \subseteq TreeShape

(***************************************************************************)
(* inspect_dictionary_entries: keys and values alternate.                  *)
(***************************************************************************)
Readable(dict) ==
  \A i \in 1..Len(dict) :
    /\ dict[i].tag = "key" => i < Len(dict) /\ dict[i + 1].tag = "value"
    /\ dict[i].tag = "value" => i > 1 /\ dict[i - 1].tag = "key"

(***************************************************************************)
(* inspect_page_tree_reference_target: how one /Kids entry is classified.  *)
(***************************************************************************)
NodeType(node) ==
  IF Readable(tree[node].dict) THEN tree[node].type ELSE "Unresolved"

Kids(node) == tree[node].kids

(***************************************************************************)
(* inspect_page_tree_kid_targets on a node: its /Kids can be read.  Its    *)
(* /Type is not consulted.                                                 *)
(***************************************************************************)
Expands(node) == Readable(tree[node].dict) /\ Kids(node) # Absent

KeyIndexes(dict, kind) == {i \in 1..Len(dict) : dict[i] = Key(kind)}

(***************************************************************************)
(* resolve_box_from_dictionary: the dictionary's own box of a kind.        *)
(***************************************************************************)
OwnBox(dict, kind) ==
  LET keys == KeyIndexes(dict, kind)
  IN  IF keys = {} THEN Absent
      ELSE IF \E i, j \in keys : i # j THEN Malformed
      ELSE dict[(CHOOSE i \in keys : TRUE) + 1].box

=============================================================================
