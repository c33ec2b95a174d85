---------------------------- MODULE ContentAssembly ----------------------------
(***************************************************************************)
(* assemble_operators: tokens grouped into operator records, one token a   *)
(* step.  Operands, plain or composite, wait for the operator behind them. *)
(* A reference to a token is its place in "tokens".                        *)
(***************************************************************************)
EXTENDS ContentTokens

VARIABLES
  index,             \* the token at hand
  pending_operands,  \* each the references of its tokens
  pending_trivia,
  composite,         \* references of the array or dictionary being read
  closers,           \* the delimiters that close what is open in it, innermost last
  records,
  stream_trivia,
  assembly           \* "off", "on", "done" or the error

assemblyVars ==
  <<index, pending_operands, pending_trivia, composite, closers, records, stream_trivia, assembly>>

AssemblyEmpty(state) ==
  /\ index = 1
  /\ pending_operands = <<>> /\ pending_trivia = <<>>
  /\ composite = <<>> /\ closers = <<>>
  /\ records = <<>> /\ stream_trivia = <<>>
  /\ assembly = state

Trivia == {"whitespace", "comment"}
Scalars == {"boolean", "null", "number", "literal", "hexadecimal", "name"}
CloserOf == [open \in {"[", "<<"} |-> IF open = "[" THEN "]" ELSE ">>"]

Kind == tokens[index].kind
AtTop == assembly = "on" /\ closers = <<>> /\ index <= Len(tokens)
Inside == assembly = "on" /\ closers # <<>> /\ index <= Len(tokens)

SpanOf(first, last) == [start |-> tokens[first].start, end |-> tokens[last].end]

TakeTrivia ==
  /\ AtTop /\ Kind \in Trivia
  /\ IF pending_operands = <<>>
     THEN stream_trivia' = Append(stream_trivia, index) /\ UNCHANGED pending_trivia
     ELSE pending_trivia' = Append(pending_trivia, index) /\ UNCHANGED stream_trivia
  /\ index' = index + 1
  /\ UNCHANGED <<pending_operands, composite, closers, records, assembly>>

TakeOperatorKeepsTrivia ==    \* mutant: pending_trivia goes on to the next record
  /\ AtTop /\ Kind = "operator"
  /\ LET first == IF pending_operands = <<>> THEN index ELSE pending_operands[1][1]
     IN  records' = Append(records, [operator |-> index, operands |-> pending_operands,
                                     trivia |-> pending_trivia, range |-> SpanOf(first, index)])
  /\ pending_operands' = <<>>
  /\ index' = index + 1
  /\ UNCHANGED <<pending_trivia, composite, closers, stream_trivia, assembly>>

TakeOperator ==
  /\ AtTop /\ Kind = "operator"
  /\ LET first == IF pending_operands = <<>> THEN index ELSE pending_operands[1][1]
     IN  records' = Append(records, [operator |-> index, operands |-> pending_operands,
                                     trivia |-> pending_trivia, range |-> SpanOf(first, index)])
  /\ pending_operands' = <<>> /\ pending_trivia' = <<>>
  /\ index' = index + 1
  /\ UNCHANGED <<composite, closers, stream_trivia, assembly>>

TakeScalar ==
  /\ AtTop /\ Kind \in Scalars
  /\ pending_operands' = Append(pending_operands, <<index>>)
  /\ index' = index + 1
  /\ UNCHANGED <<pending_trivia, composite, closers, records, stream_trivia, assembly>>

(* parse_composite_operand and, inside one, append_composite_operand.       *)
OpenComposite ==
  /\ AtTop \/ Inside
  /\ Kind \in DOMAIN CloserOf
  /\ composite' = Append(composite, index)
  /\ closers' = Append(closers, CloserOf[Kind])
  /\ index' = index + 1
  /\ UNCHANGED <<pending_operands, pending_trivia, records, stream_trivia, assembly>>

TakeInside ==
  /\ Inside /\ Kind \in Trivia \cup Scalars
  /\ composite' = Append(composite, index)
  /\ index' = index + 1
  /\ UNCHANGED <<pending_operands, pending_trivia, closers, records, stream_trivia, assembly>>

CloseComposite ==
  /\ Inside /\ Kind = closers[Len(closers)]
  /\ closers' = SubSeq(closers, 1, Len(closers) - 1)
  /\ IF Len(closers) = 1
     THEN /\ pending_operands' = Append(pending_operands, Append(composite, index))
          /\ composite' = <<>>
     ELSE composite' = Append(composite, index) /\ UNCHANGED pending_operands
  /\ index' = index + 1
  /\ UNCHANGED <<pending_trivia, records, stream_trivia, assembly>>

RefuseToken(error) ==
  /\ assembly' = error
  /\ UNCHANGED <<index, pending_operands, pending_trivia, composite, closers, records, stream_trivia>>

Unassemblable ==
  \/ AtTop /\ Kind \in {"]", ">>"} /\ RefuseToken("UnmatchedClose")
  \/ Inside /\ Kind \in {"]", ">>"} \ {closers[Len(closers)]} /\ RefuseToken("MismatchedDelimiter")
  \/ Inside /\ Kind = "operator" /\ RefuseToken("OperatorInsideCompositeOperand")
  \/ (AtTop \/ Inside) /\ Kind = "keyword" /\ RefuseToken("UnexpectedKeyword")

TokensTaken == assembly = "on" /\ index > Len(tokens)

AssemblyEnds ==
  /\ TokensTaken
  /\ RefuseToken(IF closers # <<>> THEN "UnterminatedCompositeOperand"
                 ELSE IF pending_operands # <<>> THEN "TrailingOperands"
                 ELSE "done")

AssemblyStep ==
  \/ TakeTrivia \/ TakeOperator \/ TakeScalar
  \/ OpenComposite \/ TakeInside \/ CloseComposite
  \/ Unassemblable \/ AssemblyEnds

=============================================================================
