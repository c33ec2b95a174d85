--------------------------- MODULE MCContentReading ---------------------------
(***************************************************************************)
(* Small pages for TLC.  Texts: every short string over one byte of each   *)
(* class, alone and joined, and every short row of tokens.  Streams: what  *)
(* the PNG and TIFF standards make of small images, every form of /Length, *)
(* and every way a stream can be refused.                                  *)
(***************************************************************************)
EXTENDS ContentReading

MCFieldMax == [predictor |-> 300, colors |-> 900, bits_per_component |-> 255, columns |-> 900]

Number(n) == [kind |-> "number", value |-> n]
Reference(n, g) == [kind |-> "reference", ref |-> [num |-> n, gen |-> g]]
Name(name) == [kind |-> "name", name |-> name]
Array(names) == [kind |-> "array", names |-> names]
NullValue == [kind |-> "null"]

NoFile == [lookup |-> "single table", xref |-> <<>>, objects |-> <<>>]

Wrap(bytes) == <<StreamKeyword, LF>> \o bytes \o <<LF, EndstreamKeyword>>

RawStream(bytes) ==
  [body |-> "dictionary", length |-> <<Number(Len(bytes))>>, filter |-> <<>>, parms |-> <<>>,
   cells |-> Wrap(bytes), packed |-> <<>>, plain |-> <<>>, origin |-> bytes, written |-> TRUE]

Page(streams) == [file |-> NoFile, streams |-> streams]

-----------------------------------------------------------------------------
(* Texts                                                                    *)
q == 113
OneOfEach ==
  {q, 49, LF, Percent, ParenOpen, ParenClose, Backslash, Less, Greater, BracketOpen,
   BracketClose, Slash}

Strings(class, n) == UNION {[1..len -> class] : len \in 0..n}

Lexemes ==
  {<<q, 32>>, <<45, 49, 32>>, <<Slash, q, 32>>, <<BracketOpen>>, <<BracketClose>>,
   <<Less, Less>>, <<Greater, Greater>>}
Others ==
  {<<ParenOpen, ParenOpen, ParenClose, Backslash, ParenClose, ParenClose>>,
   <<Less, 52, Greater>>, <<Percent, q, CR>>,
   <<111, 98, 106, 32>>, <<110, 117, 108, 108, LF>>, <<116, 114, 117, 101, 32>>,
   <<46, 53, 32>>, <<45, 32>>, <<49, 46, 46, 32>>, <<123>>}

TokenRows(n) ==
  {FlattenSeq(row) : row \in Strings(Lexemes \ {<<Less, Less>>, <<Greater, Greater>>}, n)}
MixedRows == {FlattenSeq(row) : row \in Strings(Lexemes \cup Others, 2)}
Nested ==
  {<<BracketOpen>> \o FlattenSeq(row) \o <<BracketClose, q>> :
     row \in Strings(Lexemes \ {<<q, 32>>, <<45, 49, 32>>}, 4)}

Texts == Strings(OneOfEach, 3) \cup TokenRows(4) \cup MixedRows \cup Nested

TextPages ==
  {Page(<<RawStream(t)>>) : t \in Texts}
    \cup {Page(<<RawStream(t), RawStream(u)>>) :
            t \in Strings(OneOfEach, 2), u \in Strings(OneOfEach \ {LF, Backslash}, 1)}
    \cup {Page(<<RawStream(t), RawStream(u), RawStream(u)>>) :
            t \in Strings({q, Percent, ParenOpen}, 2), u \in Strings({q, 49, ParenClose}, 1)}

-----------------------------------------------------------------------------
(* The standards' predictors, on whole images.                              *)
ImageByte(rows, r, c) == IF r < 1 \/ c < 1 THEN 0 ELSE rows[r][c]

Nearest(a, b, c) ==
  LET candidates == <<a, b, c>>
      off(i) == Distance(a + b - c, candidates[i])
  IN  candidates[CHOOSE i \in 1..3 : \A j \in 1..3 : off(i) < off(j) \/ (off(i) = off(j) /\ i <= j)]

PngRow(rows, r, type, bpp) ==
  <<type>> \o
    [c \in 1..Len(rows[r]) |->
       LET a == ImageByte(rows, r, c - bpp)
           b == ImageByte(rows, r - 1, c)
           d == ImageByte(rows, r - 1, c - bpp)
       IN  (rows[r][c] - <<0, a, b, (a + b) \div 2, Nearest(a, b, d)>>[type + 1]) % 256]

PngEncode(p, rows, types) ==
  FlattenSeq([r \in 1..Len(rows) |-> PngRow(rows, r, types[r], PngBytesPerPixel(p))])

(* The n-bit numbers of a row, most significant bit first, and back.        *)
Samples(row, bits) ==
  IF bits = 16 THEN [k \in 1..(Len(row) \div 2) |-> 256 * row[2 * k - 1] + row[2 * k]]
  ELSE [k \in 1..((8 * Len(row)) \div bits) |->
          LET first == (k - 1) * bits
          IN  (row[1 + first \div 8] \div 2 ^ (8 - bits - (first % 8))) % 2 ^ bits]

PackedByte(samples, bits, c) ==
  IF bits = 16
  THEN IF c % 2 = 1 THEN samples[(c + 1) \div 2] \div 256 ELSE samples[c \div 2] % 256
  ELSE LET value[i \in 0..(8 \div bits)] ==
             IF i = 0 THEN 0
             ELSE value[i - 1] * 2 ^ bits + samples[(c - 1) * (8 \div bits) + i]
       IN  value[8 \div bits]

(* Padding bits behind the last component are no components.                *)
TiffRow(p, row) ==
  LET samples == Samples(row, p.bits_per_component)
      residuals ==
        [k \in 1..Len(samples) |->
           IF k \in (p.colors + 1)..ComponentCount(p)
           THEN (samples[k] - samples[k - p.colors]) % 2 ^ p.bits_per_component
           ELSE samples[k]]
  IN  [c \in 1..Len(row) |-> PackedByte(residuals, p.bits_per_component, c)]

Geometry(predictor, colors, bits, columns) ==
  [predictor |-> predictor, colors |-> colors, bits_per_component |-> bits, columns |-> columns]

ParmsDictionary(p) ==
  [kind |-> "dictionary",
   entries |-> [key \in ParameterKeys |->
                  IF p[key] = FieldDefault[key] THEN <<>> ELSE <<Number(p[key])>>]]

Packed == <<120, 156>>

FlateStream(p, plain, origin, written) ==
  [RawStream(Packed) EXCEPT !.filter = <<Name("FlateDecode")>>, !.parms = <<ParmsDictionary(p)>>,
     !.packed = Packed, !.plain = plain, !.origin = origin, !.written = written]

Written(p, plain, rows) == FlateStream(p, plain, FlattenSeq(rows), TRUE)

PngImages ==
  {Written(p, PngEncode(p, rows, types), rows) :
     p \in {Geometry(12, 1, 8, 2)}, types \in [1..2 -> PngFilter],
     rows \in [1..2 -> {<<0, 90>>, <<90, 255>>, <<255, 0>>, <<90, 90>>}]}
  \cup
  {Written(p, PngEncode(p, rows, types), rows) :
     p \in {Geometry(10, 3, 8, 1), Geometry(15, 1, 4, 6), Geometry(14, 1, 1, 20)},
     rows \in {<<r1, r2, r1>> : r1 \in {<<1, 128, 255>>, <<7, 7, 0>>},
                                r2 \in {<<250, 2, 130>>, <<0, 0, 255>>, <<9, 200, 1>>}},
     types \in {<<a, b, c>> : a \in {1, 3, 4}, b \in PngFilter, c \in {2, 4}}}
  \cup
  {Written(p, PngEncode(p, rows, types), rows) :
     p \in {Geometry(11, 2, 8, 2), Geometry(15, 1, 16, 2)},
     rows \in {<< <<1, 128, 255, 3>>, <<250, 2, 130, 77>> >>},
     types \in [1..2 -> 0..4]}

TiffRows(p, samples) ==
  LET width == RowBytes(p) IN [1..2 -> {SubSeq(s, 1, width) : s \in samples}]

TiffImages ==
  UNION {
    {Written(p, FlattenSeq([r \in 1..2 |-> TiffRow(p, rows[r])]), rows) :
       rows \in TiffRows(p, {<<1, 2, 250, 7, 255, 0>>, <<255, 0, 129, 54, 66, 9>>,
                             <<170, 85, 0, 255, 128, 1>>})} :
    p \in {Geometry(2, 1, 8, 3), Geometry(2, 2, 8, 2), Geometry(2, 1, 1, 11), Geometry(2, 3, 1, 4),
           Geometry(2, 1, 2, 5), Geometry(2, 3, 4, 2), Geometry(2, 1, 16, 2), Geometry(2, 3, 16, 1),
           Geometry(2, 2, 4, 1)}}

BadImages ==
  {FlateStream(p, plain, <<>>, FALSE) :
     p \in {Geometry(12, 1, 8, 2), Geometry(2, 1, 8, 2), Geometry(3, 1, 8, 2), Geometry(16, 1, 8, 2),
            Geometry(12, 0, 8, 2), Geometry(2, 1, 3, 2), Geometry(2, 1, 8, 0), Geometry(12, 900, 8, 900),
            Geometry(2, 900, 16, 3), Geometry(12, 301, 8, 2), Geometry(301, 1, 8, 1),
            Geometry(1, 1, 8, 901)},
     plain \in {<<1, 9, 9, 5, 1, 1>>, <<1, 9, 9, 1, 1>>, <<>>, [i \in 1..(MaxDecodedBytes + 1) |-> 1]}}
  \cup
  {[FlateStream(Geometry(1, 1, 8, 1), <<q>>, <<q>>, FALSE) EXCEPT !.filter = f, !.parms = d] :
     f \in {<<>>, <<Name("FlateDecode")>>, <<Name("LZWDecode")>>, <<Array(<<>>)>>, <<NullValue>>,
            <<Array(<<"FlateDecode">>)>>, <<Array(<<"FlateDecode", "FlateDecode">>)>>,
            <<Array(<<"not a name">>)>>, <<Name("FlateDecode"), Name("FlateDecode")>>},
     d \in {<<>>, <<NullValue>>, <<Array(<<>>)>>, <<Number(1)>>, <<NullValue, NullValue>>,
            <<[kind |-> "dictionary",
               entries |-> [key \in ParameterKeys |->
                              IF key = "columns" THEN <<Number(1), Number(1)>> ELSE <<>>]]>>,
            <<[kind |-> "dictionary",
               entries |-> [key \in ParameterKeys |->
                              IF key = "colors" THEN <<Number(NotDigits)>> ELSE <<>>]]>>}}

-----------------------------------------------------------------------------
(* /Length in all its forms, over data that ends in a keyword of its own.   *)
LengthData == <<q, LF, EndstreamKeyword, LF, q>>

Object(n, g, v) ==
  [header |-> [num |-> n, gen |-> g], token |-> "number", value |-> v, terminated |-> TRUE]
Entry(n, state, g, offset) == [num |-> n, state |-> state, gen |-> g, offset |-> offset]

LengthFiles ==
  {[lookup |-> lookup, xref |-> xref, objects |-> <<object, Object(7, 0, 5)>>] :
     lookup \in {"none", "single table", "chain"},
     xref \in {<<Entry(8, "in use", 0, 1)>>, <<Entry(8, "free", 0, 1)>>, <<Entry(8, "compressed", 0, 1)>>,
               <<>>, <<Entry(8, "in use", 1, 1)>>, <<Entry(8, "in use", 0, 2)>>, <<Entry(8, "in use", 0, 3)>>},
     object \in {Object(8, 0, 5), Object(8, 1, 5), Object(8, 0, 1), Object(8, 0, NotDigits),
                 [Object(8, 0, 5) EXCEPT !.token = "name"], [Object(8, 0, 5) EXCEPT !.terminated = FALSE],
                 Object(8, 0, UsizeMax + 1), Object(8, 0, UsizeMax)}}
  \cup
  {[lookup |-> "single table", xref |-> <<Entry(8, "in use", 0, 1), Entry(8, "in use", 0, 1)>>,
    objects |-> <<Object(8, 0, 5)>>]}

Good(file) ==
  file.lookup # "none" /\ file.xref = <<Entry(8, "in use", 0, 1)>> /\ file.objects[1] = Object(8, 0, 5)

Heads == {<<StreamKeyword>>, <<LF, Comment, LF, StreamKeyword>>}
Tails == {<<EndstreamKeyword>>, <<EndstreamKeyword, Comment, LF>>, <<EndstreamKeyword, q>>}
BadHeads == {<<>>, <<q, StreamKeyword>>, <<StreamKeyword, q>>}
Eols == {<<LF>>, <<CR, LF>>}
BadEols == {<<CR>>, <<32>>, <<>>}

DataStream(head, eol, eol2, length, written) ==
  [RawStream(LengthData) EXCEPT !.cells = head \o eol \o LengthData \o eol2 \o <<EndstreamKeyword>>,
     !.length = length, !.written = written]

WithTail(s, tail) ==
  [s EXCEPT !.cells = SubSeq(@, 1, Len(@) - 1) \o tail, !.written = Len(tail) # 2]

LengthPages ==
  {[file |-> file, streams |-> <<DataStream(head, eol, eol2, <<Reference(8, 0)>>, Good(file))>>] :
     file \in LengthFiles, head \in Heads, eol \in Eols, eol2 \in Eols}
  \cup
  {Page(<<DataStream(head, eol, eol2, <<Number(n)>>, n = 5)>>) :
     n \in {0, 1, 4, 5, 6, 9, NotDigits, UsizeMax, UsizeMax + 1}, head \in Heads, eol \in Eols,
     eol2 \in Eols}
  \cup
  {[file |-> file, streams |-> <<WithTail(DataStream(<<StreamKeyword>>, <<LF>>, <<LF>>, length, TRUE), tail)>>] :
     file \in {f \in LengthFiles : Good(f)}, tail \in Tails, length \in {<<Number(5)>>, <<Reference(8, 0)>>}}
  \cup
  {Page(<<DataStream(head, eol, eol2, length, FALSE)>>) :
     head \in Heads \cup BadHeads, eol \in Eols \cup BadEols, eol2 \in Eols \cup BadEols,
     length \in {<<>>, <<Number(5), Number(5)>>, <<NullValue>>}}
  \cup
  {Page(<<[DataStream(head, eol, eol2, <<Number(5)>>, FALSE) EXCEPT !.body = body]>>) :
     head \in Heads \cup BadHeads, eol \in Eols \cup BadEols, eol2 \in Eols \cup BadEols,
     body \in {"dictionary", "other"}}

-----------------------------------------------------------------------------
Wide(n) == RawStream([i \in 1..n |-> q])

(* The byte bound, met and passed by the stream, the separator or the two.  *)
BoundPages ==
  {Page(<<Wide(n), Wide(k)>>) :
     n \in {1, MaxDecodedBytes - 1, MaxDecodedBytes}, k \in {0, 1}}
  \cup {Page(<<Wide(MaxDecodedBytes + 1)>>)}
  \cup {Page(<<Wide(n), FlateStream(Geometry(1, 1, 8, 1), <<q, 32>>, <<q, 32>>, TRUE)>>) :
          n \in {2, MaxDecodedBytes - 3, MaxDecodedBytes - 2}}

MCPages ==
  {Page(<<>>)} \cup TextPages \cup LengthPages \cup BoundPages
    \cup {Page(<<s>>) : s \in PngImages \cup TiffImages \cup BadImages}

=============================================================================
