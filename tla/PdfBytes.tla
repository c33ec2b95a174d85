------------------------------- MODULE PdfBytes -------------------------------
(***************************************************************************)
(* Bytes: the classes of them that PDF syntax tells apart, and, in eight   *)
(* bits, the arithmetic of the PNG row filters.                            *)
(***************************************************************************)
EXTENDS Integers, Sequences

CONSTANT UsizeMax        \* usize::MAX, small enough here to be passed
ASSUME UsizeMaxIsNat == UsizeMax \in Nat

Byte == 0..255

LF == 10
CR == 13
Backslash == 92
Percent == 37
Slash == 47
ParenOpen == 40
ParenClose == 41
Less == 60
Greater == 62
BracketOpen == 91
BracketClose == 93

Whitespace == {0, 9, LF, 12, CR, 32}
Delimiters ==
  {ParenOpen, ParenClose, Less, Greater, BracketOpen, BracketClose, 123, 125, Slash, Percent}
Digits == 48..57

(* The least place from "from" on whose byte is outside a class, or one     *)
(* past the end.  Places count from 1.                                      *)
RunEnd(bytes, from, class) ==
  LET stops == {i \in from..(Len(bytes) + 1) : i = Len(bytes) + 1 \/ bytes[i] \notin class}
  IN  CHOOSE i \in stops : \A j \in stops : i <= j

-----------------------------------------------------------------------------
(* The PNG row filters.                                                     *)
Distance(a, b) == IF a < b THEN b - a ELSE a - b

(* paeth: the neighbour nearest to left + up - up_left; left first on a     *)
(* tie, then up.                                                            *)
Paeth(left, up, up_left) ==
  LET estimate == left + up - up_left
      far == [l |-> Distance(estimate, left), u |-> Distance(estimate, up),
              ul |-> Distance(estimate, up_left)]
  IN  IF far.l <= far.u /\ far.l <= far.ul THEN left
      ELSE IF far.u <= far.ul THEN up
      ELSE up_left

PngFilter == 0..4

PredictedNarrow(filter, left, up, up_left) ==    \* mutant: left + up wraps in eight bits
  CASE filter = 0 -> 0
    [] filter = 1 -> left
    [] filter = 2 -> up
    [] filter = 3 -> ((left + up) % 256) \div 2
    [] filter = 4 -> Paeth(left, up, up_left)
    [] OTHER -> 0

Predicted(filter, left, up, up_left) ==
  CASE filter = 0 -> 0
    [] filter = 1 -> left
    [] filter = 2 -> up
    [] filter = 3 -> (left + up) \div 2
    [] filter = 4 -> Paeth(left, up, up_left)
    [] OTHER -> 0

(* wrapping_add                                                             *)
Reconstructed(filter, raw, left, up, up_left) ==
  (raw + Predicted(filter, left, up, up_left)) % 256

=============================================================================
