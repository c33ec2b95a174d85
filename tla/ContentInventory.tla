--------------------------- MODULE ContentInventory ---------------------------
(***************************************************************************)
(* build_inventory: one walk of one stream, an entry for each operator     *)
(* that paints.  The calls are those the document inventory makes: a page, *)
(* then the forms it expands.  A failed call yields no entry.              *)
(***************************************************************************)
EXTENDS GraphicsWalker, FiniteSets

VARIABLES
  built,      \* entries of the call under way
  inventory   \* entries of the calls that succeeded

Capability ==
  {"RewriteColorOperand", "AddTextSpreadStroke", "AdjustStrokeWidth", "ReadOnly"}

ColorObservation ==
  [usage : {"Fill", "Stroke", "Image"}, space : DeviceSpace \cup {"Unknown"},
   components : Components, source : Nat]

(* "call" is not in the code's entry: it tells which call the entry is of.  *)
InventoryEntry ==
  [call : Nat, page : Nat, scope : XObjectNames \cup {PageScope}, range : Nat,
   kind : {"Vector", "Text", "Image", "FormXObject"},
   colors : Seq(ColorObservation), capabilities : SUBSET Capability]

BuildTypeOK ==
  /\ WalkTypeOK
  /\ built \in Seq(InventoryEntry) /\ inventory \in Seq(InventoryEntry)

BuildInit ==
  /\ calls \in Contents /\ call = 1
  /\ WalkInit
  /\ built = <<>> /\ inventory = <<>>

(***************************************************************************)
(* What the operator at hand is an entry of, and with which colours.       *)
(***************************************************************************)
PathUses == [S |-> {"Stroke"}, f |-> {"Fill"}, B |-> {"Stroke", "Fill"}, n |-> {}]
ModeUses ==
  [Fill |-> {"Fill"}, Stroke |-> {"Stroke"}, FillThenStroke |-> {"Stroke", "Fill"},
   Invisible |-> {}, Unsupported |-> {}]

Uses ==
  IF Op.op \in DOMAIN PathUses THEN PathUses[Op.op]
  ELSE IF Op.op = "Tj" THEN ModeUses[state.text_rendering_mode]
  ELSE {}

Observation(usage) ==
  LET color == IF usage = "Stroke" THEN state.stroking_color ELSE state.nonstroking_color
  IN  [usage |-> usage, space |-> color.space, components |-> color.components,
       source |-> color.source]

Observed(usage) == IF usage \in Uses THEN <<Observation(usage)>> ELSE <<>>
Observations == Observed("Stroke") \o Observed("Fill")

ImageColor ==
  [usage |-> "Image", space |-> "Unknown", components |-> <<>>, source |-> NoSource]

Entry(kind, colors, capabilities) ==
  [call |-> call, page |-> calls[call].page, scope |-> calls[call].scope, range |-> at,
   kind |-> kind, colors |-> colors, capabilities |-> capabilities]

(* An image name wins over the same form name.                              *)
Entries ==
  IF Op.op \in DOMAIN PathUses /\ Uses # {} THEN
    <<Entry("Vector", Observations, {"RewriteColorOperand"})>>
  ELSE IF Op.op = "Tj" THEN
    <<Entry("Text", Observations,
            IF Uses = {} THEN {} ELSE {"RewriteColorOperand", "AddTextSpreadStroke"})>>
  ELSE IF Op.op = "Do" /\ Op.name \in calls[call].image_names THEN
    <<Entry("Image", <<ImageColor>>, {"ReadOnly"})>>
  ELSE IF Op.op = "Do" /\ Op.name \in calls[call].form_names THEN
    <<Entry("FormXObject", <<>>, {"ReadOnly"})>>
  ELSE <<>>

StepWithoutEntry == ChangeState /\ UNCHANGED <<calls, call, built, inventory>>

StepObserving ==
  /\ Observing
  /\ built' = built \o Entries
  /\ UNCHANGED <<calls, call, inventory>>

NextCall == call' = call + 1 /\ FreshWalk /\ built' = <<>> /\ UNCHANGED calls

(* What was built before the error is handed over.                          *)
FailKeepingEntries == WalkFails /\ NextCall /\ inventory' = inventory \o built

FailCall == WalkFails /\ NextCall /\ UNCHANGED inventory

FinishCall ==
  /\ call <= Len(calls) /\ at > Len(Records)
  /\ NextCall
  /\ inventory' = inventory \o built

BuildStep == StepWithoutEntry \/ StepObserving \/ FailCall \/ FinishCall

-----------------------------------------------------------------------------
(***************************************************************************)
(* The records in force before record i: those not undone by a Q that      *)
(* closes the q they are under.                                            *)
(***************************************************************************)
Count(records, i, op) == Cardinality({j \in 1..i : records[j].op = op})
Depth(records, i) == Count(records, i, "q") - Count(records, i, "Q")

InForce(records, i) ==
  {j \in 1..(i - 1) : \A k \in j..(i - 1) : Depth(records, k) >= Depth(records, j)}

(* The last record of an operator among those in force, or NoSource.        *)
LastOf(records, inforce, op) ==
  LET setters == {j \in inforce : records[j].op = op}
  IN  IF setters = {} THEN NoSource
      ELSE CHOOSE j \in setters : \A k \in setters : k <= j

LastInForce(records, i, op) == LastOf(records, InForce(records, i), op)

(* The first record at which a walk of these records fails, or past the end.*)
Stops(records) ==
  CHOOSE i \in 1..(Len(records) + 1) :
    /\ i = Len(records) + 1 \/ records[i].op = "malformed" \/ Depth(records, i) < 0
    /\ \A j \in 1..(i - 1) : records[j].op # "malformed" /\ Depth(records, j) >= 0

(* The records of a call that are entries.                                  *)
PaintsOf(c) ==
  {i \in 1..Len(c.records) :
     LET r == c.records[i]
     IN  \/ r.op \in {"S", "f", "B", "Tj"}
         \/ r.op = "Do" /\ r.name \in c.image_names \cup c.form_names}

-----------------------------------------------------------------------------
(***************************************************************************)
(* A snapshot is what the records in force say: each colour and the text   *)
(* mode that of the last setter among them, and the matrix their product,  *)
(* each after all that follow it.                                          *)
(***************************************************************************)
ColorIs(records, inforce, op, color) ==
  LET j == LastOf(records, inforce, op)
  IN  /\ color.source = j
      /\ IF j = NoSource THEN color = DefaultColor
         ELSE color.space = records[j].space /\ color.components = records[j].components

ModeIs(records, inforce, mode) ==
  LET j == LastOf(records, inforce, "Tr")
  IN  mode = IF j = NoSource THEN "Fill" ELSE FromPdfValue(records[j].value)

MatrixIs(records, inforce, ctm) ==
  LET cms == {j \in inforce : records[j].op = "cm"}
  IN  /\ Len(ctm) = Cardinality(cms)
      /\ \A j \in cms : ctm[Cardinality({k \in cms : j <= k})] = records[j].matrix

SnapshotIs(records, inforce, snapshot) ==
  /\ ColorIs(records, inforce, "stroking", snapshot.stroking_color)
  /\ ColorIs(records, inforce, "nonstroking", snapshot.nonstroking_color)
  /\ ModeIs(records, inforce, snapshot.text_rendering_mode)
  /\ MatrixIs(records, inforce, snapshot.ctm)

(***************************************************************************)
(* The walker's state is at every record what the records not undone by a  *)
(* Q say, however saves and restores are nested.                           *)
(***************************************************************************)
WalkerStateIsEnclosing ==
  call <= Len(calls) => SnapshotIs(Records, InForce(Records, at), state)

(***************************************************************************)
(* A stream is inventoried in full and in content order or, if any of its  *)
(* records is refused, also one behind the last painting, not at all.      *)
(***************************************************************************)
StreamsWholeOrAbsent ==
  \A c \in 1..(call - 1) :
    LET mine == {i \in 1..Len(inventory) : inventory[i].call = c}
    IN  /\ \A i, j \in mine : i < j => inventory[i].range < inventory[j].range
        /\ {inventory[i].range : i \in mine} =
             (IF Stops(calls[c].records) <= Len(calls[c].records) THEN {}
              ELSE PaintsOf(calls[c]))

=============================================================================
