---------------------------- MODULE GraphicsWalker ----------------------------
(***************************************************************************)
(* GraphicsStateWalker: operator records in, graphics state out.  Records  *)
(* are numbered from 1 in their stream; a number stands for the record's   *)
(* byte range.                                                             *)
(***************************************************************************)
EXTENDS Integers, Sequences

CONSTANTS
  PageScope,     \* model value: ContentScope::Page
  XObjectNames,  \* resource names; the scope of a form is its name
  Matrices,      \* operands of cm
  Contents       \* sequences of build_inventory calls to make

ASSUME PageScopeIsNoName == PageScope \notin XObjectNames

VARIABLES
  calls,   \* the build_inventory calls of one run
  call,    \* the one under way
  at,      \* the record it is at
  state,   \* GraphicsStateSnapshot
  stack    \* saved snapshots, oldest first

walkVars == <<at, state, stack>>

DeviceSpace == {"DeviceGray", "DeviceRgb", "DeviceCmyk"}
Components == Seq(Nat)
NoSource == 0

(***************************************************************************)
(* Operators with one effect on the walker are one: "S" stands for s, "f"  *)
(* for F and f*, "B" for B*, b and b*, "Tj" for the text-showing four.     *)
(* "other" is gs and every operator outside the walker's slice, colour     *)
(* operators of other spaces (cs, scn, ...) included.  "malformed" is a    *)
(* supported operator with operands it refuses.                            *)
(***************************************************************************)
Record ==
  [op : {"q", "Q", "S", "f", "B", "n", "Tj", "other", "malformed"}]
    \cup [op : {"cm"}, matrix : Matrices]
    \cup [op : {"stroking", "nonstroking"}, space : DeviceSpace, components : Components]
    \cup [op : {"Tr"}, value : Int]
    \cup [op : {"Do"}, name : XObjectNames]

BuildCall ==
  [page : Nat, scope : XObjectNames \cup {PageScope}, records : Seq(Record),
   stream : STRING,   \* which content stream the records are of
   image_names : SUBSET XObjectNames, form_names : SUBSET XObjectNames]

ASSUME ContentsAreCalls == Contents \subseteq Seq(BuildCall)

DeviceColor == [space : DeviceSpace, components : Components, source : Nat]
Mode == {"Fill", "Stroke", "FillThenStroke", "Invisible", "Unsupported"}
Snapshot ==
  [ctm : Seq(Matrices),   \* the matrices multiplied, left to right
   stroking_color : DeviceColor, nonstroking_color : DeviceColor,
   text_rendering_mode : Mode]

WalkTypeOK ==
  /\ calls \in Seq(BuildCall)
  /\ call \in 1..(Len(calls) + 1)
  /\ at \in Nat \ {0}
  /\ state \in Snapshot
  /\ stack \in Seq(Snapshot)

DefaultColor == [space |-> "DeviceGray", components |-> <<0>>, source |-> NoSource]
PageDefault ==
  [ctm |-> <<>>, stroking_color |-> DefaultColor, nonstroking_color |-> DefaultColor,
   text_rendering_mode |-> "Fill"]

WalkInit == at = 1 /\ state = PageDefault /\ stack = <<>>
FreshWalk == at' = 1 /\ state' = PageDefault /\ stack' = <<>>

Records == calls[call].records
Walking == call <= Len(calls) /\ at <= Len(Records)
Op == Records[at]
Is(op) == Walking /\ Op.op = op /\ at' = at + 1

Save ==
  /\ Is("q")
  /\ stack' = Append(stack, state) /\ UNCHANGED state

(* The state is restored and stays on the stack.                            *)
RestoreUnpopped ==
  /\ Is("Q") /\ stack # <<>>
  /\ state' = stack[Len(stack)]
  /\ UNCHANGED stack

Restore ==
  /\ Is("Q") /\ stack # <<>>
  /\ state' = stack[Len(stack)]
  /\ stack' = SubSeq(stack, 1, Len(stack) - 1)

ConcatMatrix ==
  /\ Is("cm")
  /\ state' = [state EXCEPT !.ctm = <<Op.matrix>> \o @] /\ UNCHANGED stack

(* sourced_device_color: the colour carries the record that set it.         *)
SourcedColor == [space |-> Op.space, components |-> Op.components, source |-> at]

SetStrokingColor ==
  /\ Is("stroking")
  /\ state' = [state EXCEPT !.stroking_color = SourcedColor] /\ UNCHANGED stack

SetNonstrokingColor ==
  /\ Is("nonstroking")
  /\ state' = [state EXCEPT !.nonstroking_color = SourcedColor] /\ UNCHANGED stack

FromPdfValue(value) ==
  IF value \in 0..3 THEN <<"Fill", "Stroke", "FillThenStroke", "Invisible">>[value + 1]
  ELSE "Unsupported"

SetTextRenderingMode ==
  /\ Is("Tr")
  /\ state' = [state EXCEPT !.text_rendering_mode = FromPdfValue(Op.value)]
  /\ UNCHANGED stack

ChangeState ==
  \/ Save \/ Restore \/ ConcatMatrix
  \/ SetStrokingColor \/ SetNonstrokingColor \/ SetTextRenderingMode

(* Painting, text, Do and unsupported operators leave the state alone.      *)
Observing ==
  /\ Walking /\ Op.op \in {"S", "f", "B", "n", "Tj", "Do", "other"}
  /\ at' = at + 1
  /\ UNCHANGED <<state, stack>>

WalkFails ==
  Walking /\ (Op.op = "malformed" \/ (Op.op = "Q" /\ stack = <<>>))

=============================================================================
