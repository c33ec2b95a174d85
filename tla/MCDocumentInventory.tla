------------------------- MODULE MCDocumentInventory -------------------------
(***************************************************************************)
(* Small documents for TLC: one page over every invocation graph of three  *)
(* forms, and two pages over streams that fit the byte bound or do not.    *)
(***************************************************************************)
EXTENDS DocumentInventory

CONSTANTS f, g, h

MCForms == {f, g, h}

Raw(size, items) == [state |-> "raw", size |-> size, items |-> items]
Flate(size, items) == [state |-> "flate", size |-> size, items |-> items]
Unusable == [state |-> "unusable", size |-> 0, items |-> <<>>]

Form(content, skips, items) ==
  [content |-> content, coverage_skips |-> skips, items |-> items]

FormsOf(ff, gg, hh) == [x \in MCForms |-> CASE x = f -> ff [] x = g -> gg [] x = h -> hh]

Graphs ==
  {[pages |-> << <<Raw(1, items)>> >>,
    forms |-> FormsOf(Form("read", 0, fi), Form("read", s, gi), Form(r, s, hi))] :
     items \in {<<f>>, <<Paint, f, g>>, <<g, Paint, g, g>>},
     fi \in {<<>>, <<Paint, g>>, <<g, h, g>>, <<f>>},
     gi \in {<<Paint>>, <<h, Paint>>, <<f, h>>},
     hi \in {<<Paint>>, <<f>>, <<g>>}, r \in {"read", "undecodable", "unwalkable"}, s \in {0, 1}}

StreamMixes ==
  {[pages |-> <<first, << Raw(1, <<Paint, f>>) >> >>,
    forms |-> FormsOf(Form("read", 0, <<g, Paint>>), Form("read", 0, <<Paint>>),
                      Form("read", 0, <<>>))] :
     first \in {<<>>, <<Unusable>>, <<Raw(1, <<Paint, Garbled>>)>>, <<Raw(9, <<Paint>>)>>,
                <<Flate(9, <<Paint>>)>>}
                \cup {<<s, t>> : s \in {Raw(1, <<f, Paint>>), Raw(3, <<Paint>>),
                                        Flate(4, <<g>>), Unusable},
                                 t \in {Raw(2, <<Paint>>), Raw(0, <<>>), Flate(1, <<f>>),
                                        Flate(0, <<>>), Raw(3, <<Paint>>)}}}

MCDocuments == Graphs \cup StreamMixes

=============================================================================
