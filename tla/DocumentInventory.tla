-------------------------- MODULE DocumentInventory --------------------------
(***************************************************************************)
(* build_classic_pdf_inventory: page after page, decode and join the       *)
(* content, expand the forms, and add the page's entries to the document's *)
(* or record why there are none.  Each page has a fresh FormWalkContext.   *)
(***************************************************************************)
EXTENDS FormExpansion

VARIABLES
  inventory,   \* the document's entries: [page, entry]
  results      \* one per page done: [state, entry_count, form_skipped]

vars == <<doc, page, stage, contentVars, formVars, inventory, results>>

TypeOK ==
  /\ ContentTypeOK /\ FormTypeOK
  /\ inventory \in Seq([page : Nat, entry : Entry])
  /\ results \in Seq([state : {"Inventoried", "Skipped"}, entry_count : Nat,
                      form_skipped : Seq([form : Forms, reason : SkipReason])])

Init ==
  /\ ContentInit /\ FormInit
  /\ stage = "content" /\ inventory = <<>> /\ results = <<>>

Join == JoinStream /\ UNCHANGED <<doc, page, stage, formVars, inventory, results>>

StartPage ==
  /\ stage = "content" /\ page <= Len(doc.pages) /\ ContentComplete
  /\ stage' = "expand"
  /\ StartExpansion(joined)
  /\ UNCHANGED <<doc, page, contentVars, inventory, results>>

NextPage ==
  /\ page' = page + 1 /\ stage' = "content"
  /\ stream' = 1 /\ joined' = <<>> /\ joined_len' = 0
  /\ UNCHANGED doc

SkipPage ==
  /\ stage = "content" /\ page <= Len(doc.pages) /\ ContentFails
  /\ results' = Append(results, [state |-> "Skipped", entry_count |-> 0,
                                 form_skipped |-> <<>>])
  /\ NextPage
  /\ UNCHANGED <<formVars, inventory>>

Expand == stage = "expand" /\ ExpandStep
            /\ UNCHANGED <<doc, page, stage, contentVars, inventory, results>>

FinishPage ==
  /\ stage = "expand" /\ PageExpanded
  /\ inventory' = inventory \o
       [i \in 1..Len(entries) |-> [page |-> page, entry |-> entries[i]]]
  /\ results' = Append(results, [state |-> "Inventoried", entry_count |-> Len(entries),
                                 form_skipped |-> form_skipped])
  /\ NextPage
  /\ UNCHANGED formVars

Finish ==
  /\ stage = "content" /\ page > Len(doc.pages)
  /\ stage' = "done"
  /\ UNCHANGED <<doc, page, contentVars, formVars, inventory, results>>

(* The caller has its report.                                               *)
Answered == stage = "done" /\ UNCHANGED vars

Next == Join \/ StartPage \/ SkipPage \/ Expand \/ FinishPage \/ Finish \/ Answered

Spec == Init /\ [][Next]_vars

-----------------------------------------------------------------------------
FormItems(items) == {items[i] : i \in 1..Len(items)} \cap Forms

(***************************************************************************)
(* What a fully expanded scope with these operators holds: each of them,   *)
(* and behind an invocation what is below its form.                        *)
(***************************************************************************)
Held(scope, items, below) ==
  FlattenSeq([i \in 1..Len(items) |->
    << <<scope, items[i]>> >> \o (IF items[i] \in Forms THEN below[items[i]] ELSE <<>>)])

(* What each form holds, by how many forms deep; a form not readable holds  *)
(* nothing.                                                                 *)
FormContent(forms) ==
  LET content[d \in 0..MaxFormDepth] ==
        [form \in Forms |->
          IF d = 0 \/ forms[form].content # "read" THEN <<>>
          ELSE Held(form, forms[form].items, content[d - 1])]
  IN  content

FullContent(items) == Held(PageScope, items, FormContent(doc.forms)[MaxFormDepth])

Invokes(form, other) ==
  doc.forms[form].content = "read" /\ other \in FormItems(doc.forms[form].items)

(* No invocation is nested deeper than the limit; so there is no cycle.     *)
Shallow(items) ==
  ~\E chain \in [0..MaxFormDepth -> Forms] :
     /\ chain[0] \in FormItems(items)
     /\ \A k \in 1..MaxFormDepth : Invokes(chain[k - 1], chain[k])

Invocations(pairs) == Cardinality({i \in 1..Len(pairs) : pairs[i][2] \in Forms})

Skips(reasons) ==
  Cardinality({i \in 1..Len(form_skipped) : form_skipped[i].reason \in reasons})

-----------------------------------------------------------------------------
(***************************************************************************)
(* Whatever its forms invoke, a page never expands a form inside itself    *)
(* nor deeper than the limit, and each of its invocations was attempted    *)
(* and paid for from its budget, or there is a record of why not.          *)
(***************************************************************************)
ExpansionStaysBounded ==
  /\ \A i, j \in 1..Len(calls) : calls[i].scope = calls[j].scope => i = j
  /\ Len(calls) <= MaxFormDepth + 1
  /\ remaining_expansions \in 0..MaxExpansions
  /\ stage = "expand" /\ PageExpanded =>
       Cardinality({i \in 1..Len(entries) : entries[i].form \in Forms})
         = (MaxExpansions - remaining_expansions)
             + Skips({"Cycle", "MaxDepth", "BudgetExhausted"})

(***************************************************************************)
(* A page whose forms nest within the limit and the budget is inventoried  *)
(* in full and in content order: a form invoked twice, or from two forms,  *)
(* is expanded each time and never taken for a cycle.                      *)
(***************************************************************************)
ShallowPagesAreComplete ==
  stage = "expand" /\ PageExpanded
    /\ Shallow(joined) /\ Invocations(FullContent(joined)) <= MaxExpansions
  => /\ [i \in 1..Len(entries) |-> <<entries[i].scope, entries[i].form>>]
          = FullContent(joined)
     /\ Skips({"Cycle", "MaxDepth", "BudgetExhausted"}) = 0

(***************************************************************************)
(* The entries of a page have the sequences 0, 1, 2, ... each once; the    *)
(* page's own keep the order of its content, as do those of its forms.     *)
(***************************************************************************)
SequencesIdentifyEntries ==
  stage = "expand" /\ PageExpanded =>
    /\ {entries[i].sequence : i \in 1..Len(entries)} = 0..(Len(entries) - 1)
    /\ \A i, j \in 1..Len(entries) :
         i < j /\ (entries[i].scope = PageScope <=> entries[j].scope = PageScope)
           => entries[i].sequence < entries[j].sequence

(***************************************************************************)
(* A page is inventoried with every operator of every one of its streams,  *)
(* in their order and numbered as they stand, or is reported as skipped    *)
(* and adds nothing; joined content never exceeds the byte bound, and      *)
(* pages do not disturb one another's entries.                             *)
(***************************************************************************)
PagesAreWholeOrSkipped ==
  /\ Len(results) = page - 1
  /\ \A n \in 1..Len(results) :
       LET mine == {i \in 1..Len(inventory) : inventory[i].page = n}
           own == {i \in mine : inventory[i].entry.scope = PageScope}
           place(i) == inventory[i].entry.sequence + 1
           all == FlattenSeq([i \in 1..Len(doc.pages[n]) |-> doc.pages[n][i].items])
       IN  /\ Cardinality(mine) = results[n].entry_count
           /\ IF results[n].state = "Inventoried"
              THEN /\ {place(i) : i \in own} = 1..Len(all)
                   /\ \A i \in own : inventory[i].entry.form = all[place(i)]
                   /\ \A i, j \in own : i < j => place(i) < place(j)
              ELSE mine = {}
  /\ stage = "content" /\ page <= Len(doc.pages) /\ Len(doc.pages[page]) > 1
       => joined_len <= MaxDecodedBytes

=============================================================================
