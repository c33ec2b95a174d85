--------------------------- MODULE MCStreamDocument ---------------------------
(***************************************************************************)
(* Small documents for TLC: three sections whose /Prev lead anywhere, over *)
(* an object, its later version and two versions of an object stream; and  *)
(* single sections over every mix of readable and damaged object streams.  *)
(***************************************************************************)
EXTENDS StreamDocument

Ref(n, g) == [num |-> n, gen |-> g]
Object(n, g) == [kind |-> "object", header |-> Ref(n, g)]
ObjStm(n, count, first, decoded) ==
  [kind |-> "objstm", header |-> Ref(n, 0), count |-> count, first |-> first,
   decoded |-> decoded]
Xref(widths, index, rows, root, prev) ==
  [kind |-> "xref", header |-> Ref(5, 0), widths |-> widths, size |-> 4, index |-> index,
   root |-> root, prev |-> prev, body |-> rows]
Rows(index, rows, root, prev) == Xref(<<1, 1, 1>>, index, FlattenSeq(rows), root, prev)

Members(a, b) == <<a, 0, b, 1, Word, Word>>

(* Chunks 4 to 10; the sections are chunks 1 to 3, the newest last.         *)
Rest ==
  <<Object(1, 0), ObjStm(2, 2, 4, Members(3, 4)), [kind |-> "table"], [kind |-> "junk"],
    Object(1, 1), ObjStm(2, 2, 4, Members(4, 3)),
    Rows(<<0, 1>>, << <<0, 0, 1>> >>, Ref(1, 0), Absent)>>

(* Object 1 at chunk 4, the object stream at chunk 5, objects 3 and 4 in it. *)
Original(prev) ==
  Rows(<<1, 4>>, << <<1, 4, 0>>, <<1, 5, 0>>, <<2, 2, 0>>, <<2, 2, 1>> >>, Ref(1, 0), prev)
Changes ==
  {[index |-> <<1, 1>>, rows |-> << <<0, 0, 1>> >>],                 \* 1 freed
   [index |-> <<1, 1>>, rows |-> << <<1, 8, 1>> >>],                 \* 1 reused
   [index |-> <<2, 1>>, rows |-> << <<1, 9, 0>> >>],                 \* new object stream
   [index |-> <<3, 1, 2, 1, 3, 1>>,
    rows |-> << <<1, 4, 0>>, <<1, 9, 0>>, <<2, 2, 1>> >>],           \* 3 listed twice
   [index |-> <<0, 1, 5, 1>>, rows |-> << <<3, 7, 7>>, <<1, 3, 0>> >>]} \* five numbers
Revision(change, prev) == Rows(change.index, change.rows, Ref(1, 0), prev)

Revised(p1, c2, p2, c3, p3, root) ==
  [startxref |-> 3,
   file |-> <<Original(p1), Revision(c2, p2), [Revision(c3, p3) EXCEPT !.root = root]>> \o Rest]

Chains ==
  {Revised(p1, c, p2, c, p3, Ref(3, 0)) :
     p1 \in {Absent, 1, 3, 10, Unreadable}, p2 \in {Absent, 1, 2, 3, 6, 7},
     p3 \in {Absent, 2, 3, 4, 99}, c \in Changes}

Revisions ==
  {Revised(Absent, c2, 1, c3, p3, root) :
     c2 \in Changes, c3 \in Changes, p3 \in {1, 2},
     root \in {Ref(1, 0), Ref(1, 1), Ref(3, 0), Ref(4, 0)}}

(* One section: object 1, the container 2, and objects 3 and 4 somewhere.   *)
Single(widths, index, rows, stream) ==
  [startxref |-> 1,
   file |-> <<Xref(widths, index, rows, Ref(1, 0), Absent), Object(1, 0), stream,
              [kind |-> "table"], [kind |-> "junk"]>>]

Streams ==
  {ObjStm(2, count, first, pairs \o cells) :
     count \in {0, 1, 2, Unreadable}, first \in {2, 4, 7, Unreadable},
     pairs \in {<<3, 0, 4, 1>>, <<3, 1, 4, 0>>, <<3, 0, 3, 0>>, <<3, 0, 4, 3>>,
                <<4, 0, Word, 1>>, <<3, 0>>},
     cells \in {<<Word, Word>>, <<ObjectHeader, 1>>}}
   \cup {Object(2, 0), Object(2, 1), ObjStm(2, 1, 2, Unreadable), ObjStm(3, 1, 2, <<3, 0, Word>>)}

MemberCases ==
  {Single(<<1, 1, 1>>, <<1, 4>>,
          <<1, 2, 0>> \o container \o <<2, c3, i3>> \o <<2, 2, 1>>, stream) :
     container \in {<<1, 3, 0>>}, c3 \in {2}, i3 \in {0, 1, 2}, stream \in Streams}
  \cup
  {Single(<<1, 1, 1>>, <<1, 4>>,
          <<1, 2, 0>> \o container \o <<2, c3, 0>> \o <<2, 2, 1>>,
          ObjStm(2, 2, 4, Members(3, 4))) :
     container \in {<<0, 0, 0>>, <<1, 3, 1>>, <<1, 3, 2>>, <<1, 5, 0>>, <<1, 9, 0>>,
                    <<2, 2, 0>>, <<9, 0, 0>>},
     c3 \in {2, 3, 4, 6}}

(* Field widths, /Index and body lengths of a section.                      *)
Encodings ==
  {Single(w, index, body, ObjStm(2, 2, 4, Members(3, 4))) :
     w \in {<<1, 1, 1>>, <<0, 1, 1>>, <<1, 2, 0>>, <<0, 0, 0>>, <<3, 0, 0>>, <<1, 1>>,
            Unreadable},
     index \in {Absent, Unreadable, <<>>, <<1, 2>>, <<1, 1, 1, 1>>, <<1>>, <<301, 1, 1, 1>>},
     body \in {Unreadable, <<>>, <<1, 2, 0, 1, 3, 0>>, <<2, 0, 3, 0>>, <<1, 0, 2, 1, 0, 3>>}}

Starts == {[startxref |-> s, file |-> <<Original(Absent)>>
              \o [Rest EXCEPT ![1] = [kind |-> "junk"]]] : s \in {1, 2, 4, 6, 99}}

MCDocuments == Chains \cup Revisions \cup MemberCases \cup Encodings \cup Starts
MCReferences == {Ref(n, g) : n \in 0..5, g \in 0..1}

=============================================================================
