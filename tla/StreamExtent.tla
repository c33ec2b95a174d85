----------------------------- MODULE StreamExtent -----------------------------
(***************************************************************************)
(* Where the data of a content stream lies: behind the stream keyword, for *)
(* as many bytes as a direct or an indirect /Length says, and only if an   *)
(* end of line and endstream follow there.  A stream object is its         *)
(* dictionary entries and the cells behind the dictionary, where a cell is *)
(* a byte, a keyword or a comment.  Places count from 1; 0 is no place.    *)
(***************************************************************************)
EXTENDS PdfBytes, FiniteSets

CONSTANT FieldMax    \* per parameter the greatest value of its field: u16, u32, u8, u32

StreamKeyword == -1
EndstreamKeyword == -2
Comment == -3            \* a comment up to its end of line
NotDigits == -1          \* a number with a sign or a decimal point

Refused == [start |-> 0, end |-> 0]
NoInteger == -1

-----------------------------------------------------------------------------
(* consume_keyword: white space, a delimiter (a comment starts with one) or *)
(* nothing must follow.                                                     *)
KeywordAt(cells, i, word) ==
  /\ i \in 1..Len(cells) /\ cells[i] = word
  /\ i < Len(cells) => cells[i + 1] \in Whitespace \cup Delimiters \cup {Comment}

(* accept_stream_eol: past an LF or a CR LF, never a CR alone.              *)
PastEol(cells, i) ==
  IF i > Len(cells) THEN 0
  ELSE IF cells[i] = LF THEN i + 1
  ELSE IF cells[i] = CR /\ i < Len(cells) /\ cells[i + 1] = LF THEN i + 2
  ELSE 0

(* inspect_content_stream_start.                                            *)
DataStart(s) ==
  LET i == RunEnd(s.cells, 1, Whitespace \cup {Comment})
  IN  IF s.body = "dictionary" /\ KeywordAt(s.cells, i, StreamKeyword)
      THEN PastEol(s.cells, i + 1) ELSE 0

(* validate_endstream                                                       *)
EndstreamFollows(cells, end) ==
  end <= Len(cells) + 1 /\ KeywordAt(cells, PastEol(cells, end), EndstreamKeyword)

(* find_length_entry: the one entry, or none.                               *)
TheOnly(values) == IF Len(values) = 1 THEN values[1] ELSE [kind |-> "none"]

(* parse_direct_length: digits over the whole value.                        *)
DirectLength(value) ==
  IF value.value # NotDigits /\ value.value <= UsizeMax THEN value.value ELSE NoInteger

Ends(start, len) ==
  IF len = NoInteger \/ start + len > UsizeMax THEN 0 ELSE start + len

DirectExtent(s) ==
  LET end == Ends(DataStart(s), DirectLength(TheOnly(s.length)))
  IN  IF end # 0 /\ EndstreamFollows(s.cells, end)
      THEN [start |-> DataStart(s), end |-> end] ELSE Refused

-----------------------------------------------------------------------------
(***************************************************************************)
(* The length object: digits, then white space, a delimiter or endobj.     *)
(* A file is a cross-reference table, a sequence of entries, and the       *)
(* objects at their offsets.                                               *)
(***************************************************************************)
IntegerBody(object) ==
  IF object.token = "number" /\ object.value # NotDigits /\ object.terminated
     /\ object.value <= UsizeMax
  THEN object.value ELSE NoInteger

(* The integer of the object whose header stands at the offset.             *)
IntegerAt(file, offset, ref) ==
  IF offset \in DOMAIN file.objects /\ file.objects[offset].header = ref
  THEN IntegerBody(file.objects[offset]) ELSE NoInteger

EntriesOf(xref, num) == SelectSeq(xref, LAMBDA e : e.num = num)

(* resolve_classic_xref_integer_object: one entry, in use; the generation   *)
(* of the entry is not looked at, that of the header is.                    *)
ClassicInteger(file, ref) ==
  LET found == EntriesOf(file.xref, ref.num)
  IN  IF Len(found) = 1 /\ found[1].state = "in use"
      THEN IntegerAt(file, found[1].offset, ref) ELSE NoInteger

(* resolve_lookup_integer, through resolve_xref_object_offset: the merged   *)
(* entry, uncompressed, of the generation that was asked for.               *)
LookupInteger(file, ref) ==
  LET found == EntriesOf(file.xref, ref.num)
  IN  IF found # <<>> /\ found[1].state = "in use" /\ found[1].gen = ref.gen
      THEN IntegerAt(file, found[1].offset, ref) ELSE NoInteger

(* inspect_indirect_length_content_stream_data_extent                       *)
ClassicExtent(file, s) ==
  LET end == Ends(DataStart(s), ClassicInteger(file, TheOnly(s.length).ref))
  IN  IF end # 0 /\ EndstreamFollows(s.cells, end)
      THEN [start |-> DataStart(s), end |-> end] ELSE Refused

(* validate_lookup_endstream, a second copy of the check.                   *)
LookupEndstreamFollows(cells, end) ==
  \/ end <= Len(cells) /\ cells[end] = LF /\ KeywordAt(cells, end + 1, EndstreamKeyword)
  \/ /\ end < Len(cells) /\ cells[end] = CR /\ cells[end + 1] = LF
     /\ KeywordAt(cells, end + 2, EndstreamKeyword)

(* resolve_indirect_length_via_lookup                                       *)
LookupExtent(file, s) ==
  LET end == Ends(DataStart(s), LookupInteger(file, TheOnly(s.length).ref))
  IN  IF end # 0 /\ LookupEndstreamFollows(s.cells, end)
      THEN [start |-> DataStart(s), end |-> end] ELSE Refused

(* inspect_content_stream_data_extent_with_lookup                           *)
Extent(file, s) ==
  LET length == TheOnly(s.length)
  IN  IF DataStart(s) = 0 THEN Refused
      ELSE IF length.kind = "number" THEN DirectExtent(s)
      ELSE IF length.kind # "reference" \/ file.lookup = "none" THEN Refused
      ELSE IF file.lookup = "single table" THEN ClassicExtent(file, s)
      ELSE LookupExtent(file, s)

(* content_stream_data_slice: an extent inside the source.                  *)
Slice(s, extent) == SubSeq(s.cells, extent.start, extent.end - 1)

-----------------------------------------------------------------------------
(***************************************************************************)
(* What the dictionary says of decoding the data: the filter, and the      *)
(* predictor parameters of /FlateDecode.  A key has as many values as the  *)
(* dictionary has entries of it.                                           *)
(***************************************************************************)
ParameterKeys == {"predictor", "colors", "bits_per_component", "columns"}
ASSUME FieldMaxIsNat == FieldMax \in [ParameterKeys -> Nat]

FieldDefault ==
  [predictor |-> 1, colors |-> 1, bits_per_component |-> 8, columns |-> 1]

(* classify_single_name                                                     *)
NamedFilter(name) == IF name = "FlateDecode" THEN "Flate" ELSE "UnsupportedFilter"

(* classify_filter_array, over the names scan_name_array finds.             *)
FilterChain(names) ==
  IF \E i \in 1..Len(names) : names[i] = "not a name" THEN "malformed"
  ELSE IF names = <<>> THEN "Uncompressed"
  ELSE IF Len(names) = 1 THEN NamedFilter(names[1])
  ELSE "UnsupportedFilterChain"

(* classify_content_stream_filter; a stream start was found before.         *)
FilterOf(s) ==
  CASE s.filter = <<>> -> "Uncompressed"
    [] Len(s.filter) > 1 -> "malformed"
    [] Len(s.filter) = 1 /\ s.filter[1].kind = "name" -> NamedFilter(s.filter[1].name)
    [] Len(s.filter) = 1 /\ s.filter[1].kind = "array" -> FilterChain(s.filter[1].names)
    [] OTHER -> "malformed"

(* resolve_parameter: absent is the default, anything but one plain number  *)
(* that fits its field is refused.                                          *)
Resolves(values, key) ==
  values = <<>>
    \/ /\ Len(values) = 1 /\ values[1].kind = "number"
       /\ values[1].value # NotDigits
       /\ values[1].value <= UsizeMax /\ values[1].value <= FieldMax[key]

ParameterOf(values, key) == IF values = <<>> THEN FieldDefault[key] ELSE values[1].value

(* resolve_flate_decode_parameters: absent and null are the defaults, an    *)
(* array is a skip and everything else an error.                            *)
ParmsResolve(s) ==
  \/ s.parms = <<>>
  \/ Len(s.parms) = 1 /\ s.parms[1].kind = "null"
  \/ /\ Len(s.parms) = 1 /\ s.parms[1].kind = "dictionary"
     /\ \A key \in ParameterKeys : Resolves(s.parms[1].entries[key], key)

ParametersOf(s) ==
  IF s.parms # <<>> /\ s.parms[1].kind = "dictionary"
  THEN [key \in ParameterKeys |-> ParameterOf(s.parms[1].entries[key], key)]
  ELSE FieldDefault

=============================================================================
