----------------------------- MODULE ContentTokens -----------------------------
(***************************************************************************)
(* tokenize: the bytes of a content stream cut into tokens, one token a    *)
(* step; a literal string, whose parentheses nest, one byte a step.        *)
(* Places in the text count from 1, and a token is [start, end) as in the  *)
(* code.                                                                   *)
(***************************************************************************)
EXTENDS PdfBytes

VARIABLES
  text,
  at,        \* offset: where the next token starts
  tokens,
  cursor,    \* offset inside the literal string that starts at "at", or 0
  depth,     \* parentheses open in it
  lexing     \* "off", "on", "done" or the error

tokenVars == <<text, at, tokens, cursor, depth, lexing>>

TokensInit ==
  text = <<>> /\ at = 1 /\ tokens = <<>> /\ cursor = 0 /\ depth = 0 /\ lexing = "off"

Tokenize(bytes) ==
  /\ text' = bytes /\ at' = 1 /\ tokens' = <<>> /\ cursor' = 0 /\ depth' = 0
  /\ lexing' = "on"

Regular == Byte \ (Whitespace \cup Delimiters)

Here(byte) == text[at] = byte
NextIs(byte) == at < Len(text) /\ text[at + 1] = byte

-----------------------------------------------------------------------------
(* classify_regular_token                                                   *)
Booleans == {<<116, 114, 117, 101>>, <<102, 97, 108, 115, 101>>}
Null == <<110, 117, 108, 108>>
Keywords ==
  {<<111, 98, 106>>, <<101, 110, 100, 111, 98, 106>>,
   <<115, 116, 114, 101, 97, 109>>, <<101, 110, 100, 115, 116, 114, 101, 97, 109>>}

Dot == 46
Sign == {43, 45}

IsNumberLexeme(lexeme) ==
  LET digits == IF lexeme[1] \in Sign THEN Tail(lexeme) ELSE lexeme
      places(class) == {i \in 1..Len(digits) : digits[i] \in class}
  IN  /\ places(Digits) # {}
      /\ places(Digits \cup {Dot}) = 1..Len(digits)
      /\ \A i, j \in places({Dot}) : i = j

RegularKind(lexeme) ==
  IF lexeme \in Booleans THEN "boolean"
  ELSE IF lexeme = Null THEN "null"
  ELSE IF lexeme \in Keywords THEN "keyword"
  ELSE IF lexeme[1] = Slash THEN "name"
  ELSE IF IsNumberLexeme(lexeme) THEN "number"
  ELSE "operator"

-----------------------------------------------------------------------------
AtToken == lexing = "on" /\ cursor = 0 /\ at <= Len(text)

Cut(kind, end) ==
  /\ tokens' = Append(tokens, [kind |-> kind, start |-> at, end |-> end])
  /\ at' = end
  /\ UNCHANGED <<text, cursor, depth, lexing>>

Fail(error) == lexing' = error /\ UNCHANGED <<text, at, tokens, cursor, depth>>

CutWhitespace == AtToken /\ text[at] \in Whitespace /\ Cut("whitespace", RunEnd(text, at + 1, Whitespace))

CutComment ==
  AtToken /\ Here(Percent) /\ Cut("comment", RunEnd(text, at + 1, Byte \ {CR, LF}))

CutHexString ==
  /\ AtToken /\ Here(Less) /\ ~NextIs(Less)
  /\ LET close == RunEnd(text, at + 1, Byte \ {Greater})
     IN  IF close <= Len(text) THEN Cut("hexadecimal", close + 1) ELSE Fail("UnterminatedHexString")

CutDelimiter ==
  /\ AtToken
  /\ \/ Here(BracketOpen) /\ Cut("[", at + 1)
     \/ Here(BracketClose) /\ Cut("]", at + 1)
     \/ Here(Less) /\ NextIs(Less) /\ Cut("<<", at + 2)
     \/ Here(Greater) /\ NextIs(Greater) /\ Cut(">>", at + 2)

(* The first byte belongs to the token even if it is a delimiter of no      *)
(* other rule: / before a name, or a > ) { } that stands alone.             *)
StartsRegular ==
  /\ text[at] \notin Whitespace \cup {Percent, ParenOpen, Less, BracketOpen, BracketClose}
  /\ ~(Here(Greater) /\ NextIs(Greater))

CutRegular ==
  /\ AtToken /\ StartsRegular
  /\ LET end == RunEnd(text, at + 1, Regular)
     IN  Cut(RegularKind(SubSeq(text, at, end - 1)), end)

(* scan_literal_string                                                      *)
OpenLiteral ==
  /\ AtToken /\ Here(ParenOpen)
  /\ cursor' = at + 1 /\ depth' = 1
  /\ UNCHANGED <<text, at, tokens, lexing>>

InLiteral == lexing = "on" /\ cursor # 0 /\ cursor <= Len(text)

Move(places, deeper) ==
  /\ cursor' = cursor + places /\ depth' = depth + deeper
  /\ UNCHANGED <<text, at, tokens, lexing>>

LiteralByte ==
  /\ InLiteral
  /\ \/ text[cursor] = Backslash /\ Move(2, 0)
     \/ text[cursor] = ParenOpen /\ Move(1, 1)
     \/ text[cursor] = ParenClose /\ depth > 1 /\ Move(1, -1)
     \/ text[cursor] \notin {Backslash, ParenOpen, ParenClose} /\ Move(1, 0)

CloseLiteralShort ==    \* mutant: the range of the string leaves out the last parenthesis
  /\ InLiteral /\ text[cursor] = ParenClose /\ depth = 1
  /\ tokens' = Append(tokens, [kind |-> "literal", start |-> at, end |-> cursor])
  /\ at' = cursor + 1
  /\ cursor' = 0 /\ depth' = 0
  /\ UNCHANGED <<text, lexing>>

CloseLiteral ==
  /\ InLiteral /\ text[cursor] = ParenClose /\ depth = 1
  /\ tokens' = Append(tokens, [kind |-> "literal", start |-> at, end |-> cursor + 1])
  /\ at' = cursor + 1
  /\ cursor' = 0 /\ depth' = 0
  /\ UNCHANGED <<text, lexing>>

UnterminatedLiteral ==
  lexing = "on" /\ cursor > Len(text) /\ Fail("UnterminatedLiteralString")

TokensDone ==
  /\ lexing = "on" /\ cursor = 0 /\ at = Len(text) + 1
  /\ lexing' = "done"
  /\ UNCHANGED <<text, at, tokens, cursor, depth>>

TokenStep ==
  \/ CutWhitespace \/ CutComment \/ CutHexString \/ CutDelimiter \/ CutRegular
  \/ OpenLiteral \/ LiteralByte \/ CloseLiteral \/ UnterminatedLiteral
  \/ TokensDone

TokenNext == (\E bytes \in Seq(Byte) : Tokenize(bytes)) \/ TokenStep

TokenSpec == TokensInit /\ [][TokenNext]_tokenVars

-----------------------------------------------------------------------------
(* serialize_tokens_unmodified takes tokens that lie end to end in the      *)
(* source, from its first byte to its last, and copies the bytes of each.   *)
Contiguous(cuts) == \A i \in 1..(Len(cuts) - 1) : cuts[i + 1].start = cuts[i].end

Serializes(cuts, bytes) ==
  /\ Contiguous(cuts)
  /\ \A i \in 1..Len(cuts) : cuts[i].start <= cuts[i].end /\ cuts[i].end <= Len(bytes) + 1
  /\ IF cuts = <<>> THEN bytes = <<>>
     ELSE cuts[1].start = 1 /\ cuts[Len(cuts)].end = Len(bytes) + 1

(***************************************************************************)
(* The tokens lie end to end from the first byte to where the scan has     *)
(* come, none of them empty; so a text that was cut to its end serializes  *)
(* to itself, whatever it holds.                                           *)
(***************************************************************************)
TokensTileText ==
  /\ Contiguous(tokens)
  /\ \A i \in 1..Len(tokens) : tokens[i].start < tokens[i].end
  /\ IF tokens = <<>> THEN at = 1 ELSE tokens[1].start = 1 /\ tokens[Len(tokens)].end = at
  /\ lexing = "done" => Serializes(tokens, text)

=============================================================================
