---------------------------- MODULE ContentStreams ----------------------------
(***************************************************************************)
(* The bytes of a page's content: page_content_bytes and decode_content    *)
(* over the located streams.  Streams are decoded one after another and    *)
(* joined with a line feed between them; all of it is bounded, but for a   *)
(* raw stream that stands alone.  One stream that cannot be had, and the   *)
(* page has no content.                                                    *)
(***************************************************************************)
EXTENDS StreamExtent, PredictorReversal

CONSTANTS
  Pages,             \* the content streams a page may have, with their file
  MaxDecodedBytes    \* max_decoded_stream_bytes
ASSUME MaxDecodedBytesIsNat == MaxDecodedBytes \in Nat

(* Cells are bytes, keywords and comments; what reads as a number is one.   *)
Cell == Byte \cup {StreamKeyword, EndstreamKeyword, Comment}
Numeric(value) == value.kind = "number" => value.value \in Nat \cup {NotDigits}

ASSUME PagesHoldStreams ==
  \A page \in Pages :
    /\ page.streams \in Seq({page.streams[i] : i \in DOMAIN page.streams})
    /\ \A i \in DOMAIN page.file.objects : page.file.objects[i].value \in Nat \cup {NotDigits}
    /\ \A i \in DOMAIN page.streams :
         LET s == page.streams[i]
         IN  /\ s.cells \in Seq(Cell) /\ s.plain \in Seq(Byte)
             /\ Numeric(TheOnly(s.length))
             /\ s.parms # <<>> /\ s.parms[1].kind = "dictionary" =>
                  \A key \in ParameterKeys :
                    LET values == s.parms[1].entries[key] IN values = <<>> \/ Numeric(values[1])

VARIABLES
  source,    \* the page: its file and its stream objects
  stage,     \* "locate", "join", "inflated", "read" or "skipped"
  extents,   \* what was located
  joined,    \* the content so far
  parts      \* history: what each stream decoded to

streamVars == <<source, stage, extents, joined, parts, reversalVars>>

Streams == source.streams
Alone == Len(Streams) = 1

StreamsInit ==
  /\ source \in Pages
  /\ stage = IF Streams = <<>> THEN "read" ELSE "locate"
  /\ extents = <<>> /\ joined = <<>> /\ parts = <<>>
  /\ ReversalInit

LocateStream ==
  /\ stage = "locate"
  /\ extents' = Append(extents, Extent(source.file, Streams[Len(extents) + 1]))
  /\ stage' = IF Len(extents') = Len(Streams) THEN "join" ELSE "locate"
  /\ UNCHANGED <<source, joined, parts, reversalVars>>

-----------------------------------------------------------------------------
Index == Len(parts) + 1
At == Streams[Index]
Data == Slice(At, extents[Index])

SeparatorSpace == IF Index = 1 THEN <<>> ELSE <<32>>    \* mutant: a space for the line feed

(* push_bounded_separator: none before the first stream.                    *)
Separator == IF Index = 1 THEN <<>> ELSE <<LF>>
SeparatorFits == Index > 1 => Len(joined) # MaxDecodedBytes

Remaining == IF Alone THEN MaxDecodedBytes ELSE MaxDecodedBytes - Len(joined \o Separator)

(* A stream that stands alone is taken as it was decoded.                   *)
Fits(bytes) == Alone \/ Len(bytes) <= Remaining

Join(bytes) ==
  /\ joined' = joined \o Separator \o bytes
  /\ parts' = Append(parts, bytes)
  /\ stage' = IF Index = Len(Streams) THEN "read" ELSE "join"
  /\ UNCHANGED <<source, extents>>

Skip == stage' = "skipped" /\ UNCHANGED <<source, extents, joined, parts, reversalVars>>

(* The inflater is external: the data inflates to what was deflated, and    *)
(* nothing else inflates.                                                   *)
Inflates == Data = At.packed /\ Len(At.plain) <= Remaining

Reachable == extents[Index] # Refused /\ SeparatorFits
Raw == FilterOf(At) = "Uncompressed"
Deflated == FilterOf(At) = "Flate" /\ ParmsResolve(At) /\ Inflates

JoinRaw ==
  /\ stage = "join" /\ Reachable /\ Raw /\ Fits(Data)
  /\ Join(Data)
  /\ UNCHANGED reversalVars

Inflate ==
  /\ stage = "join" /\ Reachable /\ Deflated
  /\ Begin(ParametersOf(At), [offset \in 0..(Len(At.plain) - 1) |-> At.plain[offset + 1]],
           Len(At.plain))
  /\ stage' = "inflated"
  /\ UNCHANGED <<source, extents, joined, parts>>

RefuseStream ==
  /\ stage = "join"
  /\ ~(Reachable /\ ((Raw /\ Fits(Data)) \/ Deflated))
  /\ Skip

ReverseStream == stage = "inflated" /\ ReversalStep /\ UNCHANGED <<source, stage, extents, joined, parts>>

Decoded == [i \in 1..decoded_len |-> decoded[i - 1]]

JoinDecoded ==
  /\ stage = "inflated" /\ reversal = "decoded" /\ Fits(Decoded)
  /\ Join(Decoded)
  /\ UNCHANGED reversalVars

RefuseDecoded ==
  /\ stage = "inflated"
  /\ reversal \in Rejections \/ (reversal = "decoded" /\ ~Fits(Decoded))
  /\ Skip

StreamsNext ==
  \/ LocateStream \/ JoinRaw \/ Inflate \/ RefuseStream
  \/ ReverseStream \/ JoinDecoded \/ RefuseDecoded

-----------------------------------------------------------------------------
(***************************************************************************)
(* A stream that a writer encoded as the standard says, with whatever      *)
(* predictor, /Length form and line ends, reads back as what was encoded;  *)
(* and a page of such streams that fits the bound is not skipped.  A page  *)
(* knows by "origin" what a stream was encoded from, if it was.            *)
(***************************************************************************)
Encoded(s) == s.written
Fitting ==
  LET sizes == [i \in 1..Len(Streams) |-> Len(Streams[i].origin) + Len(Streams[i].plain) + 1]
  IN  \A i \in 1..Len(Streams) : sizes[i] * Len(Streams) <= MaxDecodedBytes

StreamsReadBack ==
  /\ \A i \in 1..Len(parts) : Encoded(Streams[i]) => parts[i] = Streams[i].origin
  /\ stage = "skipped" => ~(Fitting /\ \A i \in 1..Len(Streams) : Encoded(Streams[i]))

=============================================================================
