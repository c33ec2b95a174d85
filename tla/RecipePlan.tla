------------------------------ MODULE RecipePlan ------------------------------
(***************************************************************************)
(* plan_recipe: each step of a recipe is planned over the whole inventory. *)
(* An entry that the selector matches becomes a target, with a patch for   *)
(* ConvertColor, or a skip with its reason.                                *)
(***************************************************************************)
EXTENDS ContentInventory

CONSTANT Recipes   \* sequences of [select, action]

VARIABLES
  recipe,
  step,     \* the recipe step under way; 0 before planning
  entry,    \* the entry it is at
  steps     \* one ActionPlan per step begun: [targets, patches, skipped]

planVars == <<recipe, step, entry, steps>>
vars == <<calls, call, walkVars, built, inventory, planVars>>

(***************************************************************************)
(* A selector is a tree, here its nodes with children before parents and   *)
(* the root last.  An object is named by its place in the inventory.       *)
(***************************************************************************)
Predicate ==
  [op : {"ObjectKind"}, kind : STRING] \cup [op : {"ColorSpace"}, space : STRING]
    \cup [op : {"Page"}, page : Nat] \cup [op : {"Parity"}, parity : {"Odd", "Even"}]
    \cup [op : {"Range"}, start : Nat, end : Nat]
    \cup [op : {"Pages"}, pages : SUBSET Nat]
    \cup [op : {"Editable"}, capability : Capability]
    \cup [op : {"Scope"}, scope : XObjectNames \cup {PageScope}]
    \cup [op : {"ColorUsage"}, usage : STRING]
    \cup [op : {"ColorComponents"}, space : STRING, usage : STRING,
          components : Components, tolerance : Int]

Selector ==
  Seq([op : {"All", "None"}] \cup [op : {"Not"}, expr : Nat]
        \cup [op : {"And", "Or"}, exprs : SUBSET Nat] \cup Predicate)

Action == {"ConvertColor", "SpreadText", "MinimumStrokeWidth", "SetPageBox"}

ASSUME RecipesAreShaped == Recipes \subseteq Seq([select : Selector, action : Action])

SkipReason ==
  {"UnsupportedCapability", "NonProcessColor", "MissingColorSource", "AmbiguousColorSource"}

Boundary ==
  [page : Nat, scope : XObjectNames \cup {PageScope}, record_range : Nat \ {NoSource}]

ActionPlan ==
  [targets : Seq(Nat), patches : Seq([object : Nat, boundary : Boundary]),
   skipped : Seq([object : Nat, reason : SkipReason])]

TypeOK ==
  /\ BuildTypeOK
  /\ recipe \in Recipes
  /\ step \in 0..(Len(recipe) + 1)
  /\ entry \in 1..(Len(inventory) + 1)
  /\ steps \in Seq(ActionPlan)

Init == BuildInit /\ recipe \in Recipes /\ step = 0 /\ entry = 1 /\ steps = <<>>

Build == step = 0 /\ BuildStep /\ UNCHANGED planVars

-----------------------------------------------------------------------------
AnyTolerance == -1   \* no tolerance: components must be equal
AnyUsage == "any"

Near(expected, actual, tolerance) ==
  IF tolerance = AnyTolerance THEN expected = actual
  ELSE -tolerance <= expected - actual /\ expected - actual <= tolerance

ComponentsMatch(expected, actual, tolerance) ==
  /\ Len(expected) = Len(actual)
  /\ \A i \in 1..Len(expected) : Near(expected[i], actual[i], tolerance)

SomeColor(e, P(_)) == \E i \in 1..Len(e.colors) : P(e.colors[i])

(* Parity is that of the one-based page number.                             *)
MatchesPredicate(p, e) ==
  CASE p.op = "ObjectKind" -> e.kind = p.kind
    [] p.op = "ColorSpace" -> SomeColor(e, LAMBDA c : c.space = p.space)
    [] p.op = "Page" -> e.page = p.page
    [] p.op = "Parity" -> (e.page % 2 = 0) <=> (p.parity = "Odd")
    [] p.op = "Range" -> p.start <= e.page /\ e.page <= p.end
    [] p.op = "Pages" -> e.page \in p.pages
    [] p.op = "Editable" -> p.capability \in e.capabilities
    [] p.op = "Scope" -> e.scope = p.scope
    [] p.op = "ColorUsage" -> SomeColor(e, LAMBDA c : c.usage = p.usage)
    [] p.op = "ColorComponents" ->
         SomeColor(e, LAMBDA c :
           /\ c.space = p.space
           /\ p.usage \in {AnyUsage, c.usage}
           /\ ComponentsMatch(p.components, c.components, p.tolerance))

Matches(select, e) ==
  LET node[k \in 1..Len(select)] ==
        CASE select[k].op = "All" -> TRUE
          [] select[k].op = "None" -> FALSE
          [] select[k].op = "Not" -> ~node[select[k].expr]
          [] select[k].op = "And" -> \A x \in select[k].exprs : node[x]
          [] select[k].op = "Or" -> \E x \in select[k].exprs : node[x]
          [] OTHER -> MatchesPredicate(select[k], e)
  IN  node[Len(select)]

-----------------------------------------------------------------------------
RequiredCapability ==
  [ConvertColor |-> "RewriteColorOperand", SpreadText |-> "AddTextSpreadStroke",
   MinimumStrokeWidth |-> "AdjustStrokeWidth"]

(* Where the process colours of an entry are among its colours.             *)
ProcessColors(e) == {i \in 1..Len(e.colors) : e.colors[i].space \in DeviceSpace}

(* The source of the first sourced colour is taken, whatever follows it.    *)
ConvertRefusalUnambiguous(e) ==
  IF ProcessColors(e) = {} THEN "NonProcessColor"
  ELSE IF \E i \in ProcessColors(e) : e.colors[i].source = NoSource
    THEN "MissingColorSource"
  ELSE "none"

(* convert_color_boundary: why there is no single operator to rewrite.      *)
ConvertRefusal(e) ==
  IF ProcessColors(e) = {} THEN "NonProcessColor"
  ELSE IF \E i \in ProcessColors(e) : e.colors[i].source = NoSource
    THEN "MissingColorSource"
  ELSE IF Cardinality(ProcessColors(e)) > 1 THEN "AmbiguousColorSource"
  ELSE "none"

ConvertBoundary(e) ==
  LET first == CHOOSE i \in ProcessColors(e) : \A j \in ProcessColors(e) : i <= j
  IN  [page |-> e.page, scope |-> e.scope, record_range |-> e.colors[first].source]

(* The capability is tested before what the action asks of the entry.       *)
Refusal(action, e) ==
  IF RequiredCapability[action] \notin e.capabilities THEN "UnsupportedCapability"
  ELSE IF action = "ConvertColor" THEN ConvertRefusal(e)
  ELSE "none"

-----------------------------------------------------------------------------
EmptyPlan == [targets |-> <<>>, patches |-> <<>>, skipped |-> <<>>]

(* The next step, or the end of the recipe.                                 *)
BeginStep ==
  /\ step <= Len(recipe) /\ call > Len(calls)
  /\ step # 0 =>
       entry > Len(inventory) \/ recipe[step].action = "SetPageBox"
  /\ step' = step + 1 /\ entry' = 1
  /\ steps' = IF step < Len(recipe) THEN Append(steps, EmptyPlan) ELSE steps
  /\ UNCHANGED <<calls, call, walkVars, built, inventory, recipe>>

Planning ==
  /\ step \in 1..Len(recipe) /\ recipe[step].action # "SetPageBox"
  /\ entry <= Len(inventory)
  /\ entry' = entry + 1
  /\ UNCHANGED <<calls, call, walkVars, built, inventory, recipe, step>>

Selected == Matches(recipe[step].select, inventory[entry])
Refused == Refusal(recipe[step].action, inventory[entry])

PassOver == Planning /\ ~Selected /\ UNCHANGED steps

(* The loop continues without a record.                                     *)
SkipTargetSilently == Planning /\ Selected /\ Refused # "none" /\ UNCHANGED steps

SkipTarget ==
  /\ Planning /\ Selected /\ Refused # "none"
  /\ steps' = [steps EXCEPT ![step].skipped =
                 Append(@, [object |-> entry, reason |-> Refused])]

TakeTarget ==
  /\ Planning /\ Selected /\ Refused = "none"
  /\ steps' = [steps EXCEPT
       ![step].targets = Append(@, entry),
       ![step].patches =
          IF recipe[step].action = "ConvertColor"
          THEN Append(@, [object |-> entry, boundary |-> ConvertBoundary(inventory[entry])])
          ELSE @]

(* The caller has its plan.                                                 *)
Planned == step > Len(recipe) /\ UNCHANGED vars

Next == Build \/ BeginStep \/ PassOver \/ SkipTarget \/ TakeTarget \/ Planned

Spec == Init /\ [][Next]_vars

-----------------------------------------------------------------------------
Objects(seq) == [i \in 1..Len(seq) |-> seq[i].object]
Increasing(seq) == \A i, j \in 1..Len(seq) : i < j => seq[i] < seq[j]
InRange(seq) == {seq[i] : i \in 1..Len(seq)}

(* A plan answers a selector for the first "seen" entries.                  *)
Answered(select, entries, seen, plan) ==
  LET targets == InRange(plan.targets)
      skipped == InRange(Objects(plan.skipped))
  IN  /\ targets \cap skipped = {}
      /\ targets \cup skipped = {i \in 1..seen : Matches(select, entries[i])}
      /\ Increasing(plan.targets) /\ Increasing(Objects(plan.skipped))

Seen(s) == IF s < step THEN Len(inventory) ELSE entry - 1

(***************************************************************************)
(* After a step has passed an entry, the entry is a target or a skip,      *)
(* never both, exactly if the selector matches it; both lists keep         *)
(* inventory order.                                                        *)
(***************************************************************************)
SelectionAnswered ==
  \A s \in 1..Len(steps) : recipe[s].action # "SetPageBox" =>
    Answered(recipe[s].select, inventory, Seen(s), steps[s])

(***************************************************************************)
(* Each patch of ConvertColor names one record of the target's own stream, *)
(* a device-colour operator that is in force where the target is painted,  *)
(* for a colour the target paints with, and that is all the colour it has. *)
(***************************************************************************)
PatchesServeTheirTarget ==
  \A s \in 1..Len(steps) : \A i \in 1..Len(steps[s].patches) :
    LET patch == steps[s].patches[i]
        e == inventory[patch.object]
        records == calls[e.call].records
        setter == patch.boundary.record_range
        usage == IF records[setter].op = "stroking" THEN "Stroke" ELSE "Fill"
    IN  /\ records[setter].op \in {"stroking", "nonstroking"}
        /\ setter = LastInForce(records, e.range, records[setter].op)
        /\ {e.colors[j].usage : j \in 1..Len(e.colors)} = {usage}
        /\ patch.object \in InRange(steps[s].targets)

=============================================================================
