---------------------------- MODULE FormExpansion ----------------------------
(***************************************************************************)
(* build_page_inventory_with_forms: the entries of a page, each form entry *)
(* followed by the entries of the form's own content, and so on, under a   *)
(* nesting limit and a budget of expansions.  The recursion of expand is a *)
(* stack of frames; the bottom frame is the page.                          *)
(***************************************************************************)
EXTENDS PageContent, SequencesExt, FiniteSets

CONSTANTS
  PageScope,      \* model value: ContentScope::Page
  MaxFormDepth,   \* FormWalkContext::max_depth
  MaxExpansions   \* FormWalkContext::max_expansions, per page

ASSUME FormBoundsAreNat == MaxFormDepth \in Nat /\ MaxExpansions \in Nat
ASSUME PageScopeIsNoForm == PageScope \notin Forms

VARIABLES
  calls,           \* open frames, [scope, items, next]
  expanding,       \* the form about to be expanded, or PageScope
  remaining_expansions,
  next_sequence,   \* sequence of the next form entry
  entries,         \* entries of the page so far: [sequence, scope, form]
  form_skipped     \* SkippedFormInventory: [form, reason]

formVars ==
  <<calls, expanding, remaining_expansions, next_sequence, entries, form_skipped>>

Scope == Forms \cup {PageScope}
Entry == [sequence : Nat, scope : Scope, form : Operator]
SkipReason == {"Cycle", "MaxDepth", "BudgetExhausted", "Content", "Resource"}

FormTypeOK ==
  /\ calls \in Seq([scope : Scope, items : Seq(Operator), next : Nat \ {0}])
  /\ expanding \in Scope
  /\ remaining_expansions \in 0..MaxExpansions
  /\ next_sequence \in Nat
  /\ entries \in Seq(Entry)
  /\ form_skipped \in Seq([form : Forms, reason : SkipReason])

FormInit ==
  /\ calls = <<>> /\ expanding = PageScope
  /\ remaining_expansions = MaxExpansions /\ next_sequence = 0
  /\ entries = <<>> /\ form_skipped = <<>>

Call(scope, items) == [scope |-> scope, items |-> items, next |-> 1]

(* The page's own entries are numbered from 0 before any form is expanded.  *)
StartExpansion(items) ==
  /\ calls' = <<Call(PageScope, items)>>
  /\ next_sequence' = Len(items)
  /\ expanding' = PageScope
  /\ remaining_expansions' = MaxExpansions
  /\ entries' = <<>> /\ form_skipped' = <<>>

Current == calls[Len(calls)]
MovedOn == [calls EXCEPT ![Len(calls)].next = @ + 1]
AtItem == expanding = PageScope /\ calls # <<>> /\ Current.next <= Len(Current.items)

(* Form entries keep the sequence of their own stream.                      *)
NumberingLocal == Current.next - 1

(* Form entries are rebased behind the page's own.                          *)
Numbering ==
  IF Current.scope = PageScope THEN Current.next - 1 ELSE next_sequence

(***************************************************************************)
(* Push the entry of one operator; a form entry is then expanded.          *)
(***************************************************************************)
EmitEntry ==
  /\ AtItem
  /\ LET item == Current.items[Current.next]
     IN  /\ entries' = Append(entries, [sequence |-> Numbering, scope |-> Current.scope,
                                        form |-> item])
         /\ expanding' = IF item \in Forms THEN item ELSE PageScope
  /\ next_sequence' = IF Current.scope = PageScope THEN next_sequence ELSE next_sequence + 1
  /\ calls' = MovedOn
  /\ UNCHANGED <<remaining_expansions, form_skipped>>

(* Forms stay marked after they have been walked.                           *)
ActiveEver == {entries[i].scope : i \in 1..Len(entries)} \ {PageScope}

(***************************************************************************)
(* expand: the forms on the active path are the scopes of the open calls,  *)
(* and how many there are is the depth.                                    *)
(***************************************************************************)
Active == {calls[i].scope : i \in 2..Len(calls)}

(* Nesting is not limited.                                                  *)
ExpansionRefusalDepthless ==
  IF expanding \in Active THEN "Cycle"
  ELSE IF remaining_expansions = 0 THEN "BudgetExhausted"
  ELSE "none"

(* The reason expand refuses the form at hand, in the order tested.         *)
ExpansionRefusal ==
  IF expanding \in Active THEN "Cycle"
  ELSE IF Cardinality(Active) >= MaxFormDepth THEN "MaxDepth"
  ELSE IF remaining_expansions = 0 THEN "BudgetExhausted"
  ELSE "none"

RefuseExpansion ==
  /\ expanding # PageScope /\ ExpansionRefusal # "none"
  /\ form_skipped' = Append(form_skipped, [form |-> expanding, reason |-> ExpansionRefusal])
  /\ expanding' = PageScope
  /\ UNCHANGED <<calls, remaining_expansions, next_sequence, entries>>

(* The budget is spent before the form is known to be readable.             *)
SpendExpansion == remaining_expansions' = remaining_expansions - 1

CoverageSkips ==
  [i \in 1..doc.forms[expanding].coverage_skips |-> [form |-> expanding, reason |-> "Resource"]]

SkipUnreadableForm ==
  /\ expanding # PageScope /\ ExpansionRefusal = "none"
  /\ doc.forms[expanding].content # "read"
  /\ SpendExpansion
  /\ form_skipped' = form_skipped
       \o (IF doc.forms[expanding].content = "unwalkable" THEN CoverageSkips ELSE <<>>)
       \o << [form |-> expanding, reason |-> "Content"] >>
  /\ expanding' = PageScope
  /\ UNCHANGED <<calls, next_sequence, entries>>

DescendIntoForm ==
  /\ expanding # PageScope /\ ExpansionRefusal = "none"
  /\ doc.forms[expanding].content = "read"
  /\ SpendExpansion
  /\ form_skipped' = form_skipped \o CoverageSkips
  /\ calls' = Append(calls, Call(expanding, doc.forms[expanding].items))
  /\ expanding' = PageScope
  /\ UNCHANGED <<next_sequence, entries>>

(* visited.remove: the form leaves the active path.                         *)
ReturnFromForm ==
  /\ expanding = PageScope /\ Len(calls) > 1 /\ Current.next > Len(Current.items)
  /\ calls' = Front(calls)
  /\ UNCHANGED <<expanding, remaining_expansions, next_sequence, entries, form_skipped>>

ExpandStep ==
  EmitEntry \/ RefuseExpansion \/ SkipUnreadableForm \/ DescendIntoForm \/ ReturnFromForm

PageExpanded ==
  expanding = PageScope /\ Len(calls) = 1 /\ Current.next > Len(Current.items)

=============================================================================
