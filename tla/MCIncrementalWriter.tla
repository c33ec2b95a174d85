------------------------- MODULE MCIncrementalWriter -------------------------
(***************************************************************************)
(* Small classic files for TLC: one to three sections over object numbers  *)
(* 0..4, sound ones, and ones whose /Prev graph, table entries or trailer  *)
(* are each wrong in one way.                                              *)
(***************************************************************************)
EXTENDS IncrementalWriter

CONSTANTS b0, b1, i0

MCBodies == {b0, b1}
MCIdents == {i0}
MCGens == {0, 1}

Obj(n, g) == [kind |-> "object", num |-> n, gen |-> g, body |-> b0]
Used(n, g, o) == [num |-> n, gen |-> g, state |-> "inuse", off |-> o]
Free(n) == [num |-> n, gen |-> 0, state |-> "free", off |-> 0]

Table(entries, prev, size) ==
  [kind |-> "table", entries |-> entries, prev |-> prev, size |-> size,
   root |-> 1, id |-> i0, info |-> Absent, encrypt |-> FALSE, xrefstm |-> FALSE]

File(chunks) == [chunks |-> chunks, startxref |-> Len(chunks)]

Objects == <<Obj(1, 0), Obj(2, 0), Obj(3, 1)>>
Sound == <<Free(0), Used(1, 0, 1), Used(2, 0, 2), Used(3, 1, 3)>>

(* One section whose second object is sound, free, dangling, misdirected    *)
(* or stated twice.                                                         *)
OneSection ==
  {File(Objects \o <<Table(<<Free(0), Used(1, 0, 1)>> \o tail, Absent, 3)>>) :
     tail \in {<<Used(2, 0, 2), Used(3, 1, 3)>>, <<Free(2)>>,
               <<Used(2, 0, 9)>>, <<Used(2, 0, 6)>>, <<Used(2, 0, 1)>>,
               <<Used(2, 1, 2)>>, <<Used(2, 0, 2), Free(2)>>}}

(* A second section that rewrites, frees or leaves alone object 2, or has   *)
(* no readable /Size, over a first one that may state object 2 twice.       *)
TwoSections ==
  {File(Objects \o <<Table(Sound \o dup, Absent, 9), Obj(2, 0),
                     Table(top, 4, size)>>) :
     dup \in {<<>>, <<Used(2, 0, 1)>>},
     top \in {<<>>, <<Used(2, 0, 5)>>, <<Free(2)>>},
     size \in {Absent, 4}}

ThreeSections ==
  {File(Objects \o <<Table(Sound, Absent, 4), Table(<<Free(2)>>, 4, 4), Obj(2, 0),
                     Table(<<Used(2, 0, 6)>>, 5, 4)>>)}

TooManySections ==
  {File(Objects \o <<Table(Sound, Absent, 4), Table(<<>>, 4, 4),
                     Table(<<>>, 5, 4), Table(<<>>, 6, 4)>>)}

(* Five numbers, stated by one section or by two: one more than are merged. *)
TooManyEntries ==
  {File(Objects \o <<Table(Append(Sound, Free(4)), Absent, 5)>>),
   File(Objects \o <<Table(Sound, Absent, 5), Table(<<Free(4)>>, 4, 5)>>)}

(* /Prev graphs that must stop the builder.                                 *)
BadPrev ==
  {File(Objects \o <<[kind |-> "junk"], [kind |-> "badtable"],
                     Table(Sound, prev, 4)>>) :
     prev \in {1, 4, 5, 6, 9, Unreadable}}
  \cup {File(Objects \o <<Table(Sound, 5, 4), Table(<<>>, 4, 4)>>)}

BadHead ==
  {[chunks |-> <<Obj(1, 0)>>, startxref |-> s] : s \in {Absent, 0, 1, 2}}
  \cup {File(<<Obj(1, 0), [kind |-> "badtable"]>>)}
  \cup {File(Objects \o <<[Table(Sound, Absent, 4) EXCEPT !.root = Unreadable]>>),
        File(Objects \o <<[Table(Sound, Absent, 4) EXCEPT !.encrypt = TRUE]>>),
        File(Objects \o <<[Table(Sound, Absent, 4) EXCEPT !.xrefstm = TRUE]>>)}

MCSources == OneSection \cup TwoSections \cup ThreeSections
               \cup TooManySections \cup TooManyEntries \cup BadPrev \cup BadHead

MCRequests ==
  LET D(n, g) == [num |-> n, gen |-> g, body |-> b1]
  IN  {<<>>, <<D(2, 0)>>, <<D(3, 1)>>, <<D(3, 1), D(1, 0)>>,
       <<D(1, 1), D(2, 0)>>, <<D(2, 0), D(2, 0)>>}

=============================================================================
