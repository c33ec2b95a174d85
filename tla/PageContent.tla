----------------------------- MODULE PageContent -----------------------------
(***************************************************************************)
(* page_content_bytes: a page's content streams decoded one after another  *)
(* into one buffer under one byte bound.  A stream is its decoded size and *)
(* the operators it holds; what it holds of a form invocation is the form. *)
(***************************************************************************)
EXTENDS Naturals, Sequences

CONSTANTS
  Forms,            \* the form XObjects of the document
  Paint,            \* model value: an operator that makes an entry of no form
  Garbled,          \* model value: bytes that do not tokenize, assemble or walk
  Documents,        \* the documents that may be inventoried
  MaxDecodedBytes   \* max_decoded_stream_bytes

ASSUME MaxDecodedIsNat == MaxDecodedBytes \in Nat

VARIABLES
  doc,      \* the document: its pages, and the content of its forms
  page,     \* the page under way, from 1
  stage,    \* "content", "expand" or "done"
  stream,   \* the stream page_content_bytes is at
  joined,   \* operators decoded so far
  joined_len

contentVars == <<stream, joined, joined_len>>

Operator == {Paint} \cup Forms

(***************************************************************************)
(* "raw" streams are borrowed, "flate" streams are inflated under a limit; *)
(* "unusable" ones were skipped or failed, or have a filter, /DecodeParms  *)
(* or extent the decoder refuses.  A form is "undecodable" when its stream *)
(* does not decode, tokenize or assemble, "unwalkable" when only the       *)
(* graphics walk fails, after its resources were inspected.                *)
(***************************************************************************)
Stream == [state : {"raw", "flate", "unusable"}, size : Nat, items : Seq(Operator \cup {Garbled})]

FormSource ==
  [content : {"read", "undecodable", "unwalkable"},
   coverage_skips : Nat,    \* unclassifiable entries of its /Resources /XObject
   items : Seq(Operator)]

DocumentShape == [pages : Seq(Seq(Stream)), forms : [Forms -> FormSource]]
ASSUME DocumentsAreShaped == Documents \subseteq DocumentShape

ContentTypeOK ==
  /\ doc \in DocumentShape
  /\ page \in 1..(Len(doc.pages) + 1)
  /\ stage \in {"content", "expand", "done"}
  /\ stream \in Nat \ {0}
  /\ joined \in Seq(Operator \cup {Garbled})
  /\ joined_len \in Nat

Streams == doc.pages[page]

ContentInit == doc \in Documents /\ page = 1 /\ stream = 1 /\ joined = <<>> /\ joined_len = 0

(* The separator is not counted.                                            *)
RemainingUncounted == MaxDecodedBytes - joined_len

(* What is left of the bound for the stream at hand, after its separator.   *)
(* A sole stream has the whole bound.                                       *)
Remaining == MaxDecodedBytes - joined_len - (IF stream > 1 THEN 1 ELSE 0)

(* decode_content: only inflating is bounded here.                          *)
Decodes(s, limit) == s.state = "raw" \/ (s.state = "flate" /\ s.size <= limit)

(* A raw stream is taken without looking at what is left.                   *)
JoinableUnbounded(s) == s.state # "unusable" /\ Decodes(s, Remaining)

Joinable(s) ==
  /\ s.state # "unusable"
  /\ IF Len(Streams) = 1 THEN Decodes(s, MaxDecodedBytes)
     ELSE /\ stream > 1 => joined_len # MaxDecodedBytes
          /\ Decodes(s, Remaining)
          /\ s.size <= Remaining

JoinStream ==
  /\ stage = "content" /\ page <= Len(doc.pages) /\ stream <= Len(Streams)
  /\ Joinable(Streams[stream])
  /\ joined' = joined \o Streams[stream].items
  /\ joined_len' = joined_len + (IF stream > 1 THEN 1 ELSE 0) + Streams[stream].size
  /\ stream' = stream + 1

Joined == Streams # <<>> /\ stream > Len(Streams)
Readable == \A i \in 1..Len(joined) : joined[i] # Garbled

(* No stream at all is a failure too (NoContentStreams); a page whose       *)
(* joined content is garbled fails as a whole.                              *)
ContentFails ==
  \/ Streams = <<>>
  \/ stream <= Len(Streams) /\ ~Joinable(Streams[stream])
  \/ Joined /\ ~Readable

ContentComplete == Joined /\ Readable

=============================================================================
