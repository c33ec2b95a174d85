---------------------------- MODULE ContentReading ----------------------------
(***************************************************************************)
(* A page's content from its stream objects to its operator records: the   *)
(* streams are located, decoded and joined (ContentStreams), the bytes are *)
(* cut into tokens (ContentTokens) and the tokens grouped into records     *)
(* (ContentAssembly).  Each stage has the whole result of the one before.  *)
(***************************************************************************)
EXTENDS ContentStreams, ContentAssembly, SequencesExt, FiniteSetsExt

readingVars == <<streamVars, tokenVars, assemblyVars>>

Init == StreamsInit /\ TokensInit /\ AssemblyEmpty("off")

ReadStreams == StreamsNext /\ UNCHANGED <<tokenVars, assemblyVars>>

StartTokens ==
  /\ stage = "read" /\ lexing = "off"
  /\ Tokenize(joined)
  /\ UNCHANGED <<streamVars, assemblyVars>>

CutToken == TokenStep /\ UNCHANGED <<streamVars, assemblyVars>>

StartAssembly ==
  /\ lexing = "done" /\ assembly = "off"
  /\ assembly' = "on"
  /\ UNCHANGED <<streamVars, tokenVars, index, pending_operands, pending_trivia, composite,
                 closers, records, stream_trivia>>

GroupToken == AssemblyStep /\ UNCHANGED <<streamVars, tokenVars>>

(* The caller has an error of one of the stages, or the records.            *)
Returned ==
  /\ \/ stage = "skipped"
     \/ lexing \notin {"off", "on", "done"}
     \/ assembly \notin {"off", "on"}
  /\ UNCHANGED readingVars

Next ==
  ReadStreams \/ StartTokens \/ CutToken \/ StartAssembly \/ GroupToken \/ Returned

Spec == Init /\ [][Next]_readingVars

-----------------------------------------------------------------------------
(* The place in the joined content where the n-th stream starts: behind the *)
(* earlier ones, each with a line feed.                                     *)
Lines(list, n) == [k \in 1..n |-> Append(list[k], LF)]
StartOf(n) == 1 + Len(FlattenSeq(Lines(parts, n - 1)))

(***************************************************************************)
(* Joining streams makes no token of two: none but a string that the       *)
(* earlier stream left open lies across the place where the next begins.   *)
(* An operator or number at the end of a stream stays what it is, and a    *)
(* comment ends with its stream.                                           *)
(***************************************************************************)
NothingFusesAcrossStreams ==
  \A n \in 2..Len(parts) : \A i \in 1..Len(tokens) :
    tokens[i].kind \notin {"literal", "hexadecimal", "whitespace"} =>
      tokens[i].end < StartOf(n) \/ tokens[i].start >= StartOf(n)

-----------------------------------------------------------------------------
(* The tokens of operands and of the trivia between them.                   *)
PartTokens(operands, trivia) ==
  (UNION {ToSet(operands[i]) : i \in 1..Len(operands)}) \cup ToSet(trivia)

TokensOf(record) == PartTokens(record.operands, record.trivia) \cup {record.operator}

FirstOf(record) == IF record.operands = <<>> THEN record.operator ELSE record.operands[1][1]

Ascends(places) == \A i \in 1..(Len(places) - 1) : places[i] < places[i + 1]

(* Operands follow one another, and trivia lie between them.                *)
InOrder(operands, trivia) ==
  /\ Ascends(trivia)
  /\ \A i \in 1..(Len(operands) - 1) : operands[i][Len(operands[i])] < operands[i + 1][1]
  /\ \A i \in 1..Len(operands) : ToSet(operands[i]) \cap ToSet(trivia) = {}

Opens(cut) == cut.kind \in DOMAIN CloserOf
Closes(cut) == cut.kind \in {"]", ">>"}

(* How deep the brackets are, from the first token on, behind the i-th.     *)
Height(cuts, first, i) ==
  Cardinality({j \in first..i : Opens(cuts[j])}) - Cardinality({j \in first..i : Closes(cuts[j])})

Matches(cuts, first, i, j) ==
  /\ Opens(cuts[i]) /\ cuts[j].kind = CloserOf[cuts[i].kind]
  /\ Height(cuts, first, j) = Height(cuts, first, i) - 1
  /\ \A k \in i..(j - 1) : Height(cuts, first, k) >= Height(cuts, first, i)

(* One scalar, or a run of tokens whose brackets pair up inside it, each    *)
(* with its kind, the first of them with the last.                          *)
WellNested(cuts, operand) ==
  LET first == operand[1]
      last == operand[Len(operand)]
  IN  /\ \A i \in 1..Len(operand) : operand[i] = first + i - 1
      /\ IF Len(operand) = 1 THEN cuts[first].kind \in Scalars
         ELSE /\ \A i \in first..last : Height(cuts, first, i) = 0 <=> i = last
              /\ \A j \in first..last :
                   Closes(cuts[j]) => \E i \in first..(j - 1) : Matches(cuts, first, i, j)

(* A record is a run of tokens from its first operand to its operator, and  *)
(* its range is their bytes.                                                *)
RecordHolds(cuts, record) ==
  LET first == FirstOf(record)
  IN  /\ TokensOf(record) = first..record.operator
      /\ record.operator \notin PartTokens(record.operands, record.trivia)
      /\ cuts[record.operator].kind = "operator"
      /\ InOrder(record.operands, record.trivia)
      /\ \A i \in 1..Len(record.operands) : WellNested(cuts, record.operands[i])
      /\ record.range = [start |-> cuts[first].start, end |-> cuts[record.operator].end]

Recorded(run) == UNION {TokensOf(run[i]) : i \in 1..Len(run)}

Follow(run) ==
  \A i \in 1..(Len(run) - 1) :
    /\ run[i].operator < FirstOf(run[i + 1])
    /\ run[i].range.end <= run[i + 1].range.start

(***************************************************************************)
(* Assembled content loses no token and uses none twice: each is in one    *)
(* record or in the trivia between them.  Records follow one another in    *)
(* the order of the text, and composite operands are well nested.          *)
(***************************************************************************)
RecordsAccountForTokens ==
  assembly = "done" =>
    /\ \A i \in 1..Len(records) : RecordHolds(tokens, records[i])
    /\ Follow(records)
    /\ Ascends(stream_trivia)
    /\ ToSet(stream_trivia) \cup Recorded(records) = 1..Len(tokens)
    /\ ToSet(stream_trivia) \cap Recorded(records) = {}

=============================================================================
