------------------------ MODULE DocumentInventory_proof ------------------------
(***************************************************************************)
(* The expansion of forms, for any documents and bounds.  Open calls are   *)
(* the page and then forms of pairwise different scopes, so their number   *)
(* is what the nesting limit is tested against; every form entry was       *)
(* expanded, refused with a record, or is the one about to be expanded;    *)
(* and the sequences given out so far are two runs of numbers, those of    *)
(* the page's own entries and those behind all of the page's.              *)
(*                                                                         *)
(* Of a page that fits the limits, what is emitted, what is ahead and what *)
(* is left in the open calls make up its full content at every step; each  *)
(* open form was invoked by the one below, so none is refused.             *)
(***************************************************************************)
EXTENDS DocumentInventory, ProofFacts

CallsNest ==
  /\ \A i \in 1..Len(calls) : calls[i].scope = PageScope <=> i = 1
  /\ \A i, j \in 1..Len(calls) : calls[i].scope = calls[j].scope => i = j
  /\ Len(calls) <= MaxFormDepth + 1
  /\ stage = "expand" => calls # <<>> /\ page <= Len(doc.pages)

BudgetReasons == {"Cycle", "MaxDepth", "BudgetExhausted"}
FormEntries(seq) == {i \in 1..Len(seq) : seq[i].form \in Forms}
Refusals(seq) == {i \in 1..Len(seq) : seq[i].reason \in BudgetReasons}

(* Every form entry is accounted for.                                       *)
InvocationsPaid ==
  Cardinality(FormEntries(entries)) =
    (MaxExpansions - remaining_expansions) + Cardinality(Refusals(form_skipped))
      + (IF expanding = PageScope THEN 0 ELSE 1)

PageEntries(seq) == {i \in 1..Len(seq) : seq[i].scope = PageScope}
Sequences(seq, indexes) == {seq[i].sequence : i \in indexes}

(* The sequences given out: below "own" to the page, from n to the forms.   *)
Numbered(seq, own, n, next) ==
  /\ own \in 0..n /\ next \in Nat /\ n <= next
  /\ Len(seq) = own + (next - n)
  /\ Sequences(seq, PageEntries(seq)) = 0..(own - 1)
  /\ Sequences(seq, (1..Len(seq)) \ PageEntries(seq)) = n..(next - 1)
  /\ \A i, j \in 1..Len(seq) :
       i < j /\ (seq[i].scope = PageScope <=> seq[j].scope = PageScope)
         => seq[i].sequence < seq[j].sequence

SequencesGiven ==
  calls # <<>> =>
    Numbered(entries, calls[1].next - 1, Len(calls[1].items), next_sequence)

IInv == TypeOK /\ CallsNest /\ InvocationsPaid /\ SequencesGiven

-----------------------------------------------------------------------------
LEMMA FormEntriesAppend ==
  ASSUME NEW seq \in Seq(Entry), NEW e \in Entry
  PROVE  /\ Cardinality(FormEntries(seq)) \in Nat
         /\ Cardinality(FormEntries(Append(seq, e))) =
              Cardinality(FormEntries(seq)) + (IF e.form \in Forms THEN 1 ELSE 0)
<1> DEFINE more == Append(seq, e)
<1>1. /\ Len(seq) \in Nat /\ Len(more) = Len(seq) + 1 /\ more[Len(seq) + 1] = e
      /\ \A i \in 1..Len(seq) : more[i] = seq[i]
  OBVIOUS
<1> HIDE DEF more
<1>2. FormEntries(seq) \in SUBSET (1..Len(seq))
  BY DEF FormEntries
<1>3. FormEntries(more) =
        IF e.form \in Forms THEN FormEntries(seq) \cup {Len(seq) + 1} ELSE FormEntries(seq)
  BY <1>1 DEF FormEntries
<1>4. /\ Cardinality(FormEntries(seq)) \in Nat
      /\ Cardinality(FormEntries(seq) \cup {Len(seq) + 1}) = Cardinality(FormEntries(seq)) + 1
  BY <1>1, <1>2, CountOneMore
<1>5. QED
  BY <1>3, <1>4 DEF more

Skip == [form : Forms, reason : SkipReason]

LEMMA RefusalsAppend ==
  ASSUME NEW seq \in Seq(Skip), NEW x \in Skip
  PROVE  /\ Cardinality(Refusals(seq)) \in Nat
         /\ Cardinality(Refusals(Append(seq, x))) =
              Cardinality(Refusals(seq)) + (IF x.reason \in BudgetReasons THEN 1 ELSE 0)
<1> DEFINE more == Append(seq, x)
<1>1. /\ Len(seq) \in Nat /\ Len(more) = Len(seq) + 1 /\ more[Len(seq) + 1] = x
      /\ \A i \in 1..Len(seq) : more[i] = seq[i]
  OBVIOUS
<1> HIDE DEF more
<1>2. Refusals(seq) \in SUBSET (1..Len(seq))
  BY DEF Refusals
<1>3. Refusals(more) =
        IF x.reason \in BudgetReasons THEN Refusals(seq) \cup {Len(seq) + 1} ELSE Refusals(seq)
  BY <1>1 DEF Refusals
<1>4. /\ Cardinality(Refusals(seq)) \in Nat
      /\ Cardinality(Refusals(seq) \cup {Len(seq) + 1}) = Cardinality(Refusals(seq)) + 1
  BY <1>1, <1>2, CountOneMore
<1>5. QED
  BY <1>3, <1>4 DEF more

LEMMA RefusalsCounted ==
  ASSUME NEW seq \in Seq(Skip)
  PROVE  Cardinality(Refusals(seq)) \in Nat
<1>1. Refusals(seq) \in SUBSET (1..Len(seq)) /\ Len(seq) \in Nat
  BY DEF Refusals
<1>2. QED
  BY <1>1, CountOneMore, FS_CardinalityType

(* Records that are no refusals change no count.                            *)
LEMMA RefusalsKept ==
  ASSUME NEW seq \in Seq(Skip), NEW more \in Seq(Skip),
         \A i \in 1..Len(more) : more[i].reason \notin BudgetReasons
  PROVE  Refusals(seq \o more) = Refusals(seq)
<1> DEFINE all == seq \o more
<1>1. /\ Len(seq) \in Nat /\ Len(more) \in Nat /\ Len(all) = Len(seq) + Len(more)
      /\ \A i \in 1..Len(seq) : all[i] = seq[i]
      /\ \A i \in 1..Len(all) :
           i \in 1..Len(seq) \/ (i - Len(seq) \in 1..Len(more) /\ all[i] = more[i - Len(seq)])
  <2>1. /\ Len(seq) \in Nat /\ Len(more) \in Nat /\ Len(all) = Len(seq) + Len(more)
        /\ \A i \in 1..(Len(seq) + Len(more)) :
             all[i] = IF i <= Len(seq) THEN seq[i] ELSE more[i - Len(seq)]
    BY ConcatProperties, LenProperties
  <2> HIDE DEF all
  <2>2. QED
    BY <2>1
<1> HIDE DEF all
<1>2. \A i \in 1..Len(all) : all[i].reason \in BudgetReasons => i \in 1..Len(seq)
  BY <1>1
<1>3. QED
  BY <1>1, <1>2 DEF Refusals, all

-----------------------------------------------------------------------------
(* The number of open forms is the number of their scopes.                  *)
LEMMA ActiveCount ==
  ASSUME FormTypeOK, CallsNest, calls # <<>>
  PROVE  /\ IsFiniteSet(Active) /\ Cardinality(Active) = Len(calls) - 1
         /\ Len(calls) \in Nat \ {0}
<1>1. Len(calls) \in Nat \ {0}
  BY EmptySeq DEF FormTypeOK
<1> DEFINE f == [i \in 2..Len(calls) |-> calls[i].scope]
<1>2. f \in [2..Len(calls) -> Active] /\ \A s \in Active : \E i \in 2..Len(calls) : f[i] = s
  BY DEF Active
<1>3. \A i, j \in 2..Len(calls) : f[i] = f[j] => i = j
  <2>1. \A i \in 2..Len(calls) : i \in 1..Len(calls) /\ f[i] = calls[i].scope
    BY <1>1
  <2>2. QED
    BY <2>1 DEF CallsNest
<1>4. IsFiniteSet(2..Len(calls)) /\ Cardinality(2..Len(calls)) = Len(calls) - 1
  <2>1. 2 \in Int /\ Len(calls) \in Int
    BY <1>1
  <2>2. /\ IsFiniteSet(2..Len(calls))
        /\ Cardinality(2..Len(calls)) = IF 2 > Len(calls) THEN 0 ELSE Len(calls) - 2 + 1
    BY <2>1, FS_Interval
  <2>3. QED
    BY <2>2, <1>1
<1> HIDE DEF f
<1>5. IsFiniteSet(Active) /\ Cardinality(Active) = Cardinality(2..Len(calls))
  <2>1. f \in Surjection(2..Len(calls), Active) /\ f \in Injection(2..Len(calls), Active)
    BY <1>2, <1>3 DEF Surjection, Injection, IsInjective
  <2>2. QED
    BY <2>1, <1>4, FS_Surjection
<1>6. QED
  BY <1>1, <1>4, <1>5

-----------------------------------------------------------------------------
(* What an open call and the form at hand are.                              *)
LEMMA CurrentType ==
  ASSUME FormTypeOK, calls # <<>>
  PROVE  /\ Len(calls) \in Nat \ {0} /\ Len(calls) \in 1..Len(calls)
         /\ Current \in [scope : Scope, items : Seq(Operator), next : Nat \ {0}]
         /\ Current = calls[Len(calls)]
         /\ Len(Current.items) \in Nat
         /\ Current.next <= Len(Current.items) => Current.items[Current.next] \in Operator
<1>1. Len(calls) \in Nat \ {0} /\ Len(calls) \in 1..Len(calls)
  BY EmptySeq DEF FormTypeOK
<1>2. Current \in [scope : Scope, items : Seq(Operator), next : Nat \ {0}]
  BY <1>1, ElementOfSeq DEF FormTypeOK, Current
<1>3. Current.items \in Seq(Operator) /\ Current.next \in Nat \ {0}
  BY <1>2
<1>4. Len(Current.items) \in Nat
  BY <1>3, LenProperties
<1>5. Current.next <= Len(Current.items) => Current.items[Current.next] \in Operator
  BY <1>3, <1>4, ElementOfSeq
<1>6. QED
  BY <1>1, <1>2, <1>4, <1>5 DEF Current

LEMMA FormType ==
  ASSUME ContentTypeOK, FormTypeOK, expanding # PageScope
  PROVE  /\ expanding \in Forms
         /\ doc.forms[expanding].items \in Seq(Operator)
         /\ doc.forms[expanding].coverage_skips \in Nat
         /\ CoverageSkips \in Seq(Skip)
         /\ \A i \in 1..Len(CoverageSkips) : CoverageSkips[i].reason = "Resource"
<1>1. expanding \in Forms
  BY DEF FormTypeOK, Scope
<1>2. doc.forms[expanding] \in FormSource
  BY <1>1 DEF ContentTypeOK, DocumentShape
<1>3. doc.forms[expanding].items \in Seq(Operator) /\ doc.forms[expanding].coverage_skips \in Nat
  BY <1>2 DEF FormSource
<1>4. [form |-> expanding, reason |-> "Resource"] \in Skip
  BY <1>1 DEF Skip, SkipReason
<1>5. CoverageSkips \in Seq(Skip) /\ \A i \in 1..Len(CoverageSkips) : CoverageSkips[i].reason = "Resource"
  BY <1>3, <1>4 DEF CoverageSkips
<1>6. QED
  BY <1>1, <1>3, <1>5

(* Moving on in the last call.                                              *)
LEMMA MovedOnIs ==
  ASSUME FormTypeOK, calls # <<>>
  PROVE  /\ MovedOn \in Seq([scope : Scope, items : Seq(Operator), next : Nat \ {0}])
         /\ Len(MovedOn) = Len(calls)
         /\ \A i \in 1..Len(calls) : /\ MovedOn[i].scope = calls[i].scope
                                     /\ MovedOn[i].items = calls[i].items
                                     /\ MovedOn[i].next =
                                          IF i = Len(calls) THEN calls[i].next + 1
                                          ELSE calls[i].next
<1> DEFINE Frame == [scope : Scope, items : Seq(Operator), next : Nat \ {0}]
           top == [calls[Len(calls)] EXCEPT !.next = @ + 1]
<1>1. /\ Len(calls) \in Nat \ {0} /\ Len(calls) \in 1..Len(calls)
      /\ calls \in Seq(Frame) /\ calls[Len(calls)] \in Frame
  BY CurrentType DEF FormTypeOK
<1>2. /\ top \in Frame /\ top.scope = calls[Len(calls)].scope
      /\ top.items = calls[Len(calls)].items /\ top.next = calls[Len(calls)].next + 1
  <2> DEFINE c == calls[Len(calls)]
  <2>1. c \in Frame
    BY <1>1
  <2>2. top = [c EXCEPT !.next = @ + 1]
    OBVIOUS
  <2> HIDE DEF c, top
  <2>3. c.next + 1 \in Nat \ {0}
    BY <2>1
  <2>4. QED
    BY <2>1, <2>2, <2>3 DEF c
<1>3. MovedOn = [calls EXCEPT ![Len(calls)] = top]
  BY <1>1 DEF MovedOn
<1> HIDE DEF Frame, top
<1>4. MovedOn \in Seq(Frame) /\ Len(MovedOn) = Len(calls)
  BY <1>1, <1>2, <1>3
<1>5. \A i \in 1..Len(calls) : MovedOn[i] = IF i = Len(calls) THEN top ELSE calls[i]
  BY <1>1, <1>3
<1>6. QED
  BY <1>2, <1>4, <1>5 DEF Frame

-----------------------------------------------------------------------------
LEMMA ExpandTyped ==
  ASSUME ContentTypeOK, FormTypeOK, CallsNest, ExpandStep, calls # <<>>
  PROVE  FormTypeOK'
<1> DEFINE Frame == [scope : Scope, items : Seq(Operator), next : Nat \ {0}]
<1>1. /\ calls \in Seq(Frame) /\ expanding \in Scope
      /\ remaining_expansions \in 0..MaxExpansions /\ next_sequence \in Nat
      /\ entries \in Seq(Entry) /\ form_skipped \in Seq(Skip)
  BY DEF FormTypeOK, Skip
<1>2. CASE EmitEntry
  <2> DEFINE item == Current.items[Current.next]
             e == [sequence |-> Numbering, scope |-> Current.scope, form |-> item]
  <2>1. /\ AtItem /\ entries' = Append(entries, e) /\ calls' = MovedOn
        /\ expanding' = IF item \in Forms THEN item ELSE PageScope
        /\ next_sequence' = IF Current.scope = PageScope THEN next_sequence ELSE next_sequence + 1
        /\ UNCHANGED <<remaining_expansions, form_skipped>>
    BY <1>2 DEF EmitEntry
  <2>2. item \in Operator /\ Current \in Frame
    BY <2>1, CurrentType DEF AtItem
  <2>3. e \in Entry
    BY <2>2, <1>1 DEF Entry, Numbering
  <2>4. entries' \in Seq(Entry)
    BY <2>1, <2>3, <1>1, AppendProperties
  <2>5. calls' \in Seq(Frame)
    BY <2>1, MovedOnIs
  <2>6. expanding' \in Scope /\ next_sequence' \in Nat
    BY <2>1, <1>1 DEF Scope
  <2>7. QED
    BY <2>1, <2>4, <2>5, <2>6, <1>1 DEF FormTypeOK, Skip
<1>3. CASE RefuseExpansion
  <2>1. /\ expanding # PageScope /\ ExpansionRefusal # "none"
        /\ form_skipped' = Append(form_skipped, [form |-> expanding, reason |-> ExpansionRefusal])
        /\ expanding' = PageScope
        /\ UNCHANGED <<calls, remaining_expansions, next_sequence, entries>>
    BY <1>3 DEF RefuseExpansion
  <2>2. [form |-> expanding, reason |-> ExpansionRefusal] \in Skip
    BY <2>1, FormType DEF ExpansionRefusal, Skip, SkipReason
  <2>3. form_skipped' \in Seq(Skip)
    BY <2>1, <2>2, <1>1, AppendProperties
  <2>4. QED
    BY <2>1, <2>3, <1>1 DEF FormTypeOK, Skip, Scope
<1>4. ASSUME expanding # PageScope, ExpansionRefusal = "none", SpendExpansion
      PROVE  remaining_expansions' \in 0..MaxExpansions
  BY <1>1, <1>4, FormBoundsAreNat DEF ExpansionRefusal, SpendExpansion
<1>5. CASE SkipUnreadableForm
  <2> DEFINE some == IF doc.forms[expanding].content = "unwalkable" THEN CoverageSkips ELSE <<>>
             last == << [form |-> expanding, reason |-> "Content"] >>
  <2>1. /\ expanding # PageScope /\ ExpansionRefusal = "none" /\ SpendExpansion
        /\ form_skipped' = form_skipped \o some \o last
        /\ expanding' = PageScope
        /\ UNCHANGED <<calls, next_sequence, entries>>
    BY <1>5 DEF SkipUnreadableForm
  <2>2. last \in Seq(Skip) /\ some \in Seq(Skip)
    BY <2>1, FormType DEF Skip, SkipReason
  <2>3. form_skipped' \in Seq(Skip)
    BY <2>1, <2>2, <1>1, ConcatProperties
  <2>4. QED
    BY <2>1, <2>3, <1>1, <1>4 DEF FormTypeOK, Skip, Scope
<1>6. CASE DescendIntoForm
  <2>1. /\ expanding # PageScope /\ ExpansionRefusal = "none" /\ SpendExpansion
        /\ form_skipped' = form_skipped \o CoverageSkips
        /\ calls' = Append(calls, Call(expanding, doc.forms[expanding].items))
        /\ expanding' = PageScope
        /\ UNCHANGED <<next_sequence, entries>>
    BY <1>6 DEF DescendIntoForm
  <2>2. form_skipped' \in Seq(Skip)
    BY <2>1, <1>1, FormType, ConcatProperties
  <2>3. Call(expanding, doc.forms[expanding].items) \in Frame
    BY <2>1, <1>1, FormType DEF Call
  <2>4. calls' \in Seq(Frame)
    BY <2>1, <2>3, <1>1, AppendProperties
  <2>5. QED
    BY <2>1, <2>2, <2>4, <1>1, <1>4 DEF FormTypeOK, Skip, Scope
<1>7. CASE ReturnFromForm
  <2>1. calls' = SubSeq(calls, 1, Len(calls) - 1)
        /\ UNCHANGED <<expanding, remaining_expansions, next_sequence, entries, form_skipped>>
    BY <1>7 DEF ReturnFromForm, Front
  <2>2. calls' \in Seq(Frame)
    <3> HIDE DEF Frame
    <3>1. QED
      BY <2>1, <1>1, Popped
  <2>4. QED
    BY <2>1, <2>2, <1>1 DEF FormTypeOK, Skip
<1>8. QED
  BY <1>2, <1>3, <1>5, <1>6, <1>7 DEF ExpandStep

(* What a page's expansion starts from.                                     *)
LEMMA StartTyped ==
  ASSUME NEW items \in Seq(Operator), StartExpansion(items)
  PROVE  FormTypeOK'
<1>1. Call(PageScope, items) \in [scope : Scope, items : Seq(Operator), next : Nat \ {0}]
  BY DEF Call, Scope
<1>2. Len(items) \in Nat
  BY LenProperties
<1>3. QED
  BY <1>1, <1>2, FormBoundsAreNat DEF StartExpansion, FormTypeOK, Scope

(* The content of a page that can be read holds no garbled bytes.           *)
LEMMA ReadableIsOperators ==
  ASSUME ContentTypeOK, Readable
  PROVE  joined \in Seq(Operator)
<1>1. Len(joined) \in Nat /\ joined \in [1..Len(joined) -> Operator \cup {Garbled}]
  BY LenProperties DEF ContentTypeOK
<1>2. \A i \in 1..Len(joined) : joined[i] \in Operator
  BY <1>1 DEF Readable
<1>3. joined \in [1..Len(joined) -> Operator]
  BY <1>1, <1>2
<1>4. QED
  BY <1>1, <1>3

LEMMA Typed ==
  ASSUME TypeOK, CallsNest, Next
  PROVE  TypeOK'
<1>1. /\ ContentTypeOK /\ FormTypeOK
      /\ inventory \in Seq([page : Nat, entry : Entry])
      /\ results \in Seq([state : {"Inventoried", "Skipped"}, entry_count : Nat,
                          form_skipped : Seq(Skip)])
  BY DEF TypeOK, Skip
<1>2. /\ doc \in DocumentShape /\ page \in 1..(Len(doc.pages) + 1) /\ Len(doc.pages) \in Nat
      /\ joined \in Seq(Operator \cup {Garbled}) /\ joined_len \in Nat /\ stream \in Nat \ {0}
      /\ doc.pages \in Seq(Seq(Stream))
  BY <1>1, LenProperties DEF ContentTypeOK, DocumentShape
<1>3. CASE Join
  <2>1. /\ page <= Len(doc.pages) /\ stream <= Len(Streams)
        /\ joined' = joined \o Streams[stream].items
        /\ joined_len' = joined_len + (IF stream > 1 THEN 1 ELSE 0) + Streams[stream].size
        /\ stream' = stream + 1
        /\ UNCHANGED <<doc, page, stage, formVars, inventory, results>>
    BY <1>3 DEF Join, JoinStream
  <2>2. Streams \in Seq(Stream)
    BY <2>1, <1>2, ElementOfSeq DEF Streams
  <2>3. Len(Streams) \in Nat
    BY <2>2, LenProperties
  <2>4. Streams[stream] \in Stream
    BY <2>1, <2>2, <2>3, <1>2, ElementOfSeq
  <2>5. Streams[stream].items \in Seq(Operator \cup {Garbled}) /\ Streams[stream].size \in Nat
    BY <2>4 DEF Stream
  <2>6. joined' \in Seq(Operator \cup {Garbled})
    BY <2>1, <2>5, <1>2, ConcatProperties
  <2>7. joined_len' \in Nat /\ stream' \in Nat \ {0}
    <3>1. \A a, b \in Nat : \A k \in {0, 1} : a + k + b \in Nat
      OBVIOUS
    <3>2. joined_len' \in Nat
      BY <2>1, <2>5, <1>2, <3>1
    <3>3. QED
      BY <2>1, <1>2, <3>2
  <2>10. ContentTypeOK'
    <3>1. doc' = doc /\ page' = page /\ stage' = stage
      BY <2>1
    <3>2. stage \in {"content", "expand", "done"}
      BY <1>1 DEF ContentTypeOK
    <3>3. QED
      BY <3>1, <3>2, <2>6, <2>7, <1>2 DEF ContentTypeOK
  <2>8. FormTypeOK'
    BY <2>1, <1>1 DEF FormTypeOK, formVars
  <2>9. QED
    BY <2>1, <2>10, <2>8, <1>1 DEF TypeOK, Skip
<1>4. CASE StartPage
  <2>1. /\ ContentComplete /\ stage' = "expand" /\ StartExpansion(joined)
        /\ UNCHANGED <<doc, page, contentVars, inventory, results>>
    BY <1>4 DEF StartPage
  <2>2. FormTypeOK'
    BY <2>1, <1>1, ReadableIsOperators, StartTyped DEF ContentComplete
  <2>3. ContentTypeOK'
    BY <2>1, <1>1 DEF ContentTypeOK, contentVars
  <2>4. QED
    BY <2>1, <2>2, <2>3, <1>1 DEF TypeOK, Skip
<1>5. ASSUME NextPage, page <= Len(doc.pages)
      PROVE  ContentTypeOK'
  BY <1>2, <1>5 DEF NextPage, ContentTypeOK
<1>6. CASE SkipPage
  <2>1. /\ page <= Len(doc.pages) /\ NextPage /\ UNCHANGED <<formVars, inventory>>
        /\ results' = Append(results, [state |-> "Skipped", entry_count |-> 0,
                                       form_skipped |-> <<>>])
    BY <1>6 DEF SkipPage
  <2>2. FormTypeOK'
    BY <2>1, <1>1 DEF FormTypeOK, formVars
  <2>3. results' \in Seq([state : {"Inventoried", "Skipped"}, entry_count : Nat,
                          form_skipped : Seq(Skip)])
    BY <2>1, <1>1
  <2>4. QED
    BY <2>1, <2>2, <2>3, <1>1, <1>5 DEF TypeOK, Skip
<1>7. CASE Expand
  <2>1. /\ stage = "expand" /\ ExpandStep
        /\ UNCHANGED <<doc, page, stage, contentVars, inventory, results>>
    BY <1>7 DEF Expand
  <2>2. FormTypeOK'
    BY <2>1, <1>1, ExpandTyped DEF CallsNest
  <2>3. ContentTypeOK'
    BY <2>1, <1>1 DEF ContentTypeOK, contentVars
  <2>4. QED
    BY <2>1, <2>2, <2>3, <1>1 DEF TypeOK, Skip
<1>8. CASE FinishPage
  <2> DEFINE new == [i \in 1..Len(entries) |-> [page |-> page, entry |-> entries[i]]]
             result == [state |-> "Inventoried", entry_count |-> Len(entries),
                        form_skipped |-> form_skipped]
  <2>1. /\ stage = "expand" /\ NextPage /\ UNCHANGED formVars
        /\ inventory' = inventory \o new
        /\ results' = Append(results, result)
    BY <1>8 DEF FinishPage
  <2>2. FormTypeOK'
    BY <2>1, <1>1 DEF FormTypeOK, formVars
  <2>3. entries \in Seq(Entry) /\ Len(entries) \in Nat /\ form_skipped \in Seq(Skip) /\ page \in Nat
    BY <1>1, <1>2, LenProperties DEF FormTypeOK, Skip
  <2>4. new \in Seq([page : Nat, entry : Entry])
    BY <2>3
  <2>5. inventory' \in Seq([page : Nat, entry : Entry])
    BY <2>1, <2>4, <1>1, ConcatProperties
  <2>6. results' \in Seq([state : {"Inventoried", "Skipped"}, entry_count : Nat,
                          form_skipped : Seq(Skip)])
    BY <2>1, <2>3, <1>1
  <2>7. page <= Len(doc.pages)
    BY <2>1 DEF CallsNest
  <2>8. QED
    BY <2>1, <2>2, <2>5, <2>6, <2>7, <1>5 DEF TypeOK, Skip
<1>9. CASE Finish
  BY <1>1, <1>9 DEF Finish, TypeOK, ContentTypeOK, FormTypeOK, contentVars, formVars
<1>10. CASE Answered
  BY <1>1, <1>10 DEF Answered, vars, TypeOK, ContentTypeOK, FormTypeOK, contentVars, formVars
<1>11. QED
  BY <1>3, <1>4, <1>6, <1>7, <1>8, <1>9, <1>10 DEF Next

-----------------------------------------------------------------------------
(* How one more entry extends the two runs of sequences.                    *)
LEMMA SequencesAppend ==
  ASSUME NEW seq \in Seq(Entry), NEW e \in Entry
  PROVE  LET more == Append(seq, e)
             page_before == Sequences(seq, PageEntries(seq))
             form_before == Sequences(seq, (1..Len(seq)) \ PageEntries(seq))
         IN  /\ Len(seq) \in Nat /\ Len(more) = Len(seq) + 1 /\ more[Len(seq) + 1] = e
             /\ \A i \in 1..Len(seq) : more[i] = seq[i]
             /\ Sequences(more, PageEntries(more)) =
                  IF e.scope = PageScope THEN page_before \cup {e.sequence} ELSE page_before
             /\ Sequences(more, (1..Len(more)) \ PageEntries(more)) =
                  IF e.scope = PageScope THEN form_before ELSE form_before \cup {e.sequence}
<1> DEFINE more == Append(seq, e)
           mine == PageEntries(seq)
           others == (1..Len(seq)) \ PageEntries(seq)
<1>1. /\ Len(seq) \in Nat /\ Len(more) = Len(seq) + 1 /\ more[Len(seq) + 1] = e
      /\ \A i \in 1..Len(seq) : more[i] = seq[i]
  OBVIOUS
<1> HIDE DEF more
<1>2. PageEntries(more) =
        IF e.scope = PageScope THEN mine \cup {Len(seq) + 1} ELSE mine
  BY <1>1 DEF PageEntries
<1>3. (1..Len(more)) \ PageEntries(more) =
        IF e.scope = PageScope THEN others ELSE others \cup {Len(seq) + 1}
  BY <1>1 DEF PageEntries
<1>4. \A S \in SUBSET (1..Len(seq)) :
        /\ Sequences(more, S) = Sequences(seq, S)
        /\ Sequences(more, S \cup {Len(seq) + 1}) = Sequences(seq, S) \cup {e.sequence}
  BY <1>1 DEF Sequences
<1>5. mine \in SUBSET (1..Len(seq)) /\ others \in SUBSET (1..Len(seq))
  BY DEF PageEntries
<1> HIDE DEF mine, others
<1>6. Sequences(more, PageEntries(more)) =
        IF e.scope = PageScope THEN Sequences(seq, mine) \cup {e.sequence} ELSE Sequences(seq, mine)
  BY <1>2, <1>4, <1>5
<1>7. Sequences(more, (1..Len(more)) \ PageEntries(more)) =
        IF e.scope = PageScope THEN Sequences(seq, others)
        ELSE Sequences(seq, others) \cup {e.sequence}
  BY <1>3, <1>4, <1>5
<1>8. QED
  BY <1>1, <1>6, <1>7 DEF more, mine, others

(* An entry with the next number of its kind keeps the numbering.           *)
LEMMA NumberedAppend ==
  ASSUME NEW seq \in Seq(Entry), NEW e \in Entry, NEW own, NEW n \in Nat, NEW next,
         Numbered(seq, own, n, next),
         e.scope = PageScope => own < n /\ e.sequence = own,
         e.scope # PageScope => e.sequence = next
  PROVE  IF e.scope = PageScope THEN Numbered(Append(seq, e), own + 1, n, next)
         ELSE Numbered(Append(seq, e), own, n, next + 1)
<1> DEFINE more == Append(seq, e)
           mine == Sequences(seq, PageEntries(seq))
           others == Sequences(seq, (1..Len(seq)) \ PageEntries(seq))
           more_mine == Sequences(more, PageEntries(more))
           more_others == Sequences(more, (1..Len(more)) \ PageEntries(more))
<1>1. /\ Len(seq) \in Nat /\ Len(more) = Len(seq) + 1 /\ more[Len(seq) + 1] = e
      /\ \A i \in 1..Len(seq) : more[i] = seq[i]
      /\ more_mine = IF e.scope = PageScope THEN mine \cup {e.sequence} ELSE mine
      /\ more_others = IF e.scope = PageScope THEN others ELSE others \cup {e.sequence}
  BY SequencesAppend
<1>2. /\ own \in 0..n /\ next \in Nat /\ n <= next
      /\ Len(seq) = own + (next - n)
      /\ mine = 0..(own - 1) /\ others = n..(next - 1)
      /\ \A i, j \in 1..Len(seq) :
           i < j /\ (seq[i].scope = PageScope <=> seq[j].scope = PageScope)
             => seq[i].sequence < seq[j].sequence
  BY DEF Numbered
<1>3. \A i \in 1..Len(seq) :
        IF seq[i].scope = PageScope THEN seq[i].sequence \in mine ELSE seq[i].sequence \in others
  BY DEF Sequences, PageEntries
<1> HIDE DEF more, mine, others, more_mine, more_others
<1>4. \A i, j \in 1..Len(more) :
        i < j /\ (more[i].scope = PageScope <=> more[j].scope = PageScope)
          => more[i].sequence < more[j].sequence
  <2> SUFFICES ASSUME NEW i \in 1..Len(more), NEW j \in 1..Len(more), i < j,
                      more[i].scope = PageScope <=> more[j].scope = PageScope
               PROVE  more[i].sequence < more[j].sequence
    OBVIOUS
  <2>1. i \in 1..Len(seq) /\ more[i] = seq[i]
    BY <1>1
  <2>2. CASE j \in 1..Len(seq)
    BY <2>1, <2>2, <1>1, <1>2
  <2>3. CASE j = Len(seq) + 1
    <3>1. more[j] = e
      BY <2>3, <1>1
    <3>2. CASE e.scope = PageScope
      <4>1. seq[i].sequence \in 0..(own - 1)
        BY <2>1, <3>1, <3>2, <1>2, <1>3
      <4>2. QED
        BY <4>1, <2>1, <3>1, <3>2, <1>2
    <3>3. CASE e.scope # PageScope
      <4>1. seq[i].sequence \in n..(next - 1)
        BY <2>1, <3>1, <3>3, <1>2, <1>3
      <4>2. QED
        BY <4>1, <2>1, <3>1, <3>3, <1>2
    <3>4. QED
      BY <3>2, <3>3
  <2>4. QED
    BY <2>2, <2>3, <1>1
<1>5. CASE e.scope = PageScope
  <2>1. own < n /\ e.sequence = own
    BY <1>5
  <2>2. more_mine = 0..((own + 1) - 1) /\ more_others = n..(next - 1)
    BY <2>1, <1>1, <1>2, <1>5
  <2>3. own + 1 \in 0..n /\ Len(more) = (own + 1) + (next - n)
    BY <2>1, <1>1, <1>2
  <2>4. QED
    BY <2>2, <2>3, <1>2, <1>4, <1>5 DEF Numbered, more, more_mine, more_others
<1>6. CASE e.scope # PageScope
  <2>1. e.sequence = next
    BY <1>6
  <2>2. more_mine = 0..(own - 1) /\ more_others = n..((next + 1) - 1)
    BY <2>1, <1>1, <1>2, <1>6
  <2>3. next + 1 \in Nat /\ n <= next + 1 /\ Len(more) = own + ((next + 1) - n)
    BY <1>1, <1>2
  <2>4. QED
    BY <2>2, <2>3, <1>2, <1>4, <1>6 DEF Numbered, more, more_mine, more_others
<1>7. QED
  BY <1>5, <1>6

-----------------------------------------------------------------------------
(* The first operator of a page finds nothing counted.                      *)
LEMMA StartKeeps ==
  ASSUME FormBoundsAreNat, page <= Len(doc.pages), NEW items \in Seq(Operator),
         StartExpansion(items), UNCHANGED <<doc, page>>
  PROVE  CallsNest' /\ InvocationsPaid' /\ SequencesGiven'
<1> DEFINE call == Call(PageScope, items)
<1>1. /\ calls' = <<call>> /\ next_sequence' = Len(items) /\ expanding' = PageScope
      /\ remaining_expansions' = MaxExpansions /\ entries' = <<>> /\ form_skipped' = <<>>
  BY DEF StartExpansion
<1>2. call.scope = PageScope /\ call.items = items /\ call.next = 1
  BY DEF Call
<1> HIDE DEF call
<1>3. Len(calls') = 1 /\ calls'[1] = call /\ calls' # <<>>
  BY <1>1
<1>4. CallsNest'
  BY <1>2, <1>3, FormBoundsAreNat DEF CallsNest
<1>5. FormEntries(<<>>) = {} /\ Refusals(<<>>) = {} /\ PageEntries(<<>>) = {}
  BY DEF FormEntries, Refusals, PageEntries
<1>6. InvocationsPaid'
  <2>1. Cardinality({}) = 0
    BY FS_EmptySet
  <2>2. /\ Cardinality(FormEntries(entries')) = 0 /\ Cardinality(Refusals(form_skipped')) = 0
        /\ expanding' = PageScope /\ remaining_expansions' = MaxExpansions
    BY <1>1, <1>5, <2>1
  <2>3. 0 = (MaxExpansions - MaxExpansions) + 0 + 0
    BY FormBoundsAreNat
  <2>4. QED
    BY <2>2, <2>3 DEF InvocationsPaid
<1>7. SequencesGiven'
  <2> DEFINE n == Len(items)
  <2>1. n \in Nat
    BY LenProperties
  <2> HIDE DEF n
  <2>2. Sequences(<<>>, {}) = {} /\ (1..Len(<<>>)) \ {} = {} /\ Len(<<>>) = 0
    BY DEF Sequences
  <2>3. 0..(0 - 1) = {} /\ n..(n - 1) = {} /\ 0 \in 0..n /\ 0 = 0 + (n - n) /\ n <= n
    BY <2>1
  <2>5. \A i \in 1..Len(<<>>) : FALSE
    BY <2>2
  <2> DEFINE none == <<>>
  <2>6. /\ Len(none) = 0 /\ PageEntries(none) = {} /\ \A i \in 1..Len(none) : FALSE
        /\ (1..Len(none)) \ {} = {} /\ Sequences(none, {}) = {}
    BY <2>2, <2>5, <1>5
  <2> HIDE DEF none
  <2>7. Numbered(none, 0, n, n)
    BY <2>1, <2>3, <2>6 DEF Numbered
  <2>8. Numbered(<<>>, 1 - 1, n, n)
    BY <2>7 DEF none
  <2>9. QED
    BY <2>8, <1>1, <1>2, <1>3 DEF SequencesGiven, n
<1>8. QED
  BY <1>4, <1>6, <1>7

(* The step of one operator of the scope at hand.                           *)
LEMMA EmitKeeps ==
  ASSUME TypeOK, CallsNest, InvocationsPaid, SequencesGiven, EmitEntry,
         UNCHANGED <<doc, page, stage>>
  PROVE  CallsNest' /\ InvocationsPaid' /\ SequencesGiven'
<1> DEFINE item == Current.items[Current.next]
           e == [sequence |-> Numbering, scope |-> Current.scope, form |-> item]
           first == calls[1]
<1>1. /\ AtItem /\ entries' = Append(entries, e) /\ calls' = MovedOn
      /\ expanding' = IF item \in Forms THEN item ELSE PageScope
      /\ next_sequence' = IF Current.scope = PageScope THEN next_sequence ELSE next_sequence + 1
      /\ UNCHANGED <<remaining_expansions, form_skipped>>
  BY DEF EmitEntry
<1>2. /\ expanding = PageScope /\ calls # <<>> /\ Current.next <= Len(Current.items)
      /\ FormTypeOK
  BY <1>1 DEF AtItem, TypeOK
<1>3. /\ Len(calls) \in Nat \ {0} /\ Current = calls[Len(calls)] /\ item \in Operator
      /\ Current.scope \in Scope /\ Current.next \in Nat \ {0} /\ Len(Current.items) \in Nat
  BY <1>2, CurrentType
<1>4. /\ entries \in Seq(Entry) /\ next_sequence \in Nat /\ form_skipped \in Seq(Skip)
      /\ remaining_expansions \in 0..MaxExpansions
  BY <1>2 DEF FormTypeOK, Skip
<1>5. /\ e \in Entry /\ e.sequence = Numbering /\ e.scope = Current.scope /\ e.form = item
  BY <1>3, <1>4 DEF Entry, Numbering
<1>6. /\ Len(calls') = Len(calls)
      /\ \A i \in 1..Len(calls) :
           /\ calls'[i].scope = calls[i].scope /\ calls'[i].items = calls[i].items
           /\ calls'[i].next = IF i = Len(calls) THEN calls[i].next + 1 ELSE calls[i].next
      /\ calls' # <<>>
  <2>1. /\ Len(calls') = Len(calls) /\ calls' \in Seq([scope : Scope, items : Seq(Operator), next : Nat \ {0}])
        /\ \A i \in 1..Len(calls) :
             /\ calls'[i].scope = calls[i].scope /\ calls'[i].items = calls[i].items
             /\ calls'[i].next = IF i = Len(calls) THEN calls[i].next + 1 ELSE calls[i].next
    BY <1>1, <1>2, MovedOnIs
  <2>2. calls' # <<>>
    BY <2>1, <1>3, EmptySeq
  <2>3. QED
    BY <2>1, <2>2
<1> HIDE DEF item, e
<1>7. CallsNest'
  BY <1>6 DEF CallsNest
<1>8. InvocationsPaid'
  <2>1. /\ Cardinality(FormEntries(entries)) \in Nat
        /\ Cardinality(FormEntries(entries')) =
             Cardinality(FormEntries(entries)) + (IF item \in Forms THEN 1 ELSE 0)
    BY <1>1, <1>4, <1>5, FormEntriesAppend
  <2>2. (IF expanding' = PageScope THEN 0 ELSE 1) = (IF item \in Forms THEN 1 ELSE 0)
    BY <1>1, PageScopeIsNoForm
  <2>3. Cardinality(FormEntries(entries)) =
          (MaxExpansions - remaining_expansions) + Cardinality(Refusals(form_skipped)) + 0
    BY <1>2 DEF InvocationsPaid
  <2> DEFINE paid == Cardinality(FormEntries(entries))
             skips == Cardinality(Refusals(form_skipped))
             spent == MaxExpansions - remaining_expansions
             more == IF item \in Forms THEN 1 ELSE 0
  <2>4. Cardinality(FormEntries(entries')) = paid + more
    BY <2>1
  <2>5. paid = spent + skips + 0 /\ paid \in Nat /\ more \in Nat /\ spent \in Int
    BY <2>1, <2>3, <1>4, FormBoundsAreNat
  <2>7. skips \in Nat
    BY <1>4, RefusalsCounted
  <2>6. Cardinality(FormEntries(entries')) = spent + skips + more
    <3> HIDE DEF paid, skips, spent, more
    <3>1. QED
      BY <2>4, <2>5, <2>7
  <2>8. QED
    BY <2>2, <2>6, <1>1 DEF InvocationsPaid
<1>9. SequencesGiven'
  <2> DEFINE n == Len(first.items)
             own == first.next - 1
  <2>1. Numbered(entries, own, n, next_sequence)
    BY <1>2 DEF SequencesGiven
  <2>2. /\ Current.scope = PageScope <=> Len(calls) = 1
        /\ 1 \in 1..Len(calls)
    <3>1. 1 \in 1..Len(calls) /\ Len(calls) \in 1..Len(calls)
      BY <1>3
    <3>2. \A i \in 1..Len(calls) : calls[i].scope = PageScope <=> i = 1
      BY DEF CallsNest
    <3>3. QED
      BY <3>1, <3>2, <1>3
  <2>3. first \in [scope : Scope, items : Seq(Operator), next : Nat \ {0}]
    BY <1>2, <2>2, ElementOfSeq DEF FormTypeOK
  <2>4. n \in Nat /\ first.next \in Nat \ {0}
    BY <2>3, LenProperties
  <2>5. e.scope = PageScope => own < n /\ e.sequence = own
    <3>1. SUFFICES ASSUME e.scope = PageScope PROVE own < n /\ e.sequence = own
      OBVIOUS
    <3>2. Current.scope = PageScope
      BY <3>1, <1>5
    <3>3. Current = first
      BY <3>2, <2>2, <1>3
    <3>4. e.sequence = first.next - 1
      BY <3>2, <3>3, <1>5 DEF Numbering
    <3>5. first.next <= n
      BY <3>3, <1>2
    <3> HIDE DEF first
    <3>6. QED
      BY <3>4, <3>5, <2>4
  <2>6. e.scope # PageScope => e.sequence = next_sequence
    BY <1>5 DEF Numbering
  <2>7. calls'[1].items = first.items
        /\ calls'[1].next = IF Len(calls) = 1 THEN first.next + 1 ELSE first.next
    BY <1>6, <2>2
  <2> HIDE DEF n, own
  <2>8. IF e.scope = PageScope THEN Numbered(entries', own + 1, n, next_sequence)
        ELSE Numbered(entries', own, n, next_sequence + 1)
    BY <2>1, <2>4, <2>5, <2>6, <1>1, <1>4, <1>5, NumberedAppend
  <2>9. CASE Len(calls) = 1
    <3>1. calls'[1].next - 1 = own + 1 /\ next_sequence' = next_sequence /\ e.scope = PageScope
      BY <2>9, <2>7, <2>2, <2>4, <1>1, <1>5 DEF own
    <3>2. Numbered(entries', calls'[1].next - 1, Len(calls'[1].items), next_sequence')
      BY <3>1, <2>7, <2>8 DEF n
    <3>3. QED
      BY <3>2 DEF SequencesGiven
  <2>10. CASE Len(calls) # 1
    <3>1. calls'[1].next - 1 = own /\ next_sequence' = next_sequence + 1 /\ e.scope # PageScope
      BY <2>10, <2>7, <2>2, <2>4, <1>1, <1>5 DEF own
    <3>2. Numbered(entries', calls'[1].next - 1, Len(calls'[1].items), next_sequence')
      BY <3>1, <2>7, <2>8 DEF n
    <3>3. QED
      BY <3>2 DEF SequencesGiven
  <2>11. QED
    BY <2>9, <2>10
<1>10. QED
  BY <1>7, <1>8, <1>9

(* A refused form is recorded with the reason of its refusal.               *)
LEMMA RefuseKeeps ==
  ASSUME TypeOK, CallsNest, InvocationsPaid, SequencesGiven, RefuseExpansion,
         UNCHANGED <<doc, page, stage>>
  PROVE  CallsNest' /\ InvocationsPaid' /\ SequencesGiven'
<1> DEFINE x == [form |-> expanding, reason |-> ExpansionRefusal]
<1>1. /\ expanding # PageScope /\ ExpansionRefusal # "none"
      /\ form_skipped' = Append(form_skipped, x) /\ expanding' = PageScope
      /\ UNCHANGED <<calls, remaining_expansions, next_sequence, entries>>
  BY DEF RefuseExpansion
<1>2. FormTypeOK /\ ContentTypeOK
  BY DEF TypeOK
<1>3. x \in Skip /\ x.reason \in BudgetReasons
  BY <1>1, <1>2, FormType DEF ExpansionRefusal, Skip, SkipReason, BudgetReasons
<1>4. form_skipped \in Seq(Skip) /\ remaining_expansions \in 0..MaxExpansions
  BY <1>2 DEF FormTypeOK, Skip
<1> HIDE DEF x
<1>5. CallsNest' /\ SequencesGiven'
  BY <1>1 DEF CallsNest, SequencesGiven
<1>6. InvocationsPaid'
  <2> DEFINE skips == Cardinality(Refusals(form_skipped))
             spent == MaxExpansions - remaining_expansions
  <2>1. skips \in Nat /\ Cardinality(Refusals(form_skipped')) = skips + 1
    BY <1>1, <1>3, <1>4, RefusalsAppend
  <2>2. Cardinality(FormEntries(entries)) = spent + skips + 1 /\ spent \in Int
    BY <1>1, <1>4, FormBoundsAreNat DEF InvocationsPaid
  <2>3. spent + skips + 1 = spent + (skips + 1) + 0
    <3> HIDE DEF spent, skips
    <3>1. QED
      BY <2>1, <2>2
  <2>4. QED
    BY <1>1, <2>1, <2>2, <2>3 DEF InvocationsPaid
<1>7. QED
  BY <1>5, <1>6

(* One expansion is paid and no refusal is recorded.                        *)
LEMMA PaidKeeps ==
  ASSUME TypeOK, InvocationsPaid, expanding # PageScope, SpendExpansion,
         Refusals(form_skipped') = Refusals(form_skipped),
         expanding' = PageScope, entries' = entries
  PROVE  InvocationsPaid'
<1> DEFINE skips == Cardinality(Refusals(form_skipped))
           left == remaining_expansions
<1>1. skips \in Nat /\ left \in Nat /\ MaxExpansions \in Nat
  <2>1. form_skipped \in Seq(Skip) /\ left \in 0..MaxExpansions
    BY DEF TypeOK, FormTypeOK, Skip
  <2>2. skips \in Nat
    BY <2>1, RefusalsCounted
  <2>3. QED
    BY <2>1, <2>2, FormBoundsAreNat
<1>2. Cardinality(FormEntries(entries)) = (MaxExpansions - left) + skips + 1
  BY DEF InvocationsPaid
<1>3. remaining_expansions' = left - 1
  BY DEF SpendExpansion
<1> HIDE DEF skips, left
<1>4. (MaxExpansions - left) + skips + 1 = (MaxExpansions - (left - 1)) + skips + 0
  BY <1>1
<1>5. QED
  BY <1>2, <1>3, <1>4 DEF InvocationsPaid, skips

LEMMA SkipKeeps ==
  ASSUME TypeOK, CallsNest, InvocationsPaid, SequencesGiven, SkipUnreadableForm,
         UNCHANGED <<doc, page, stage>>
  PROVE  CallsNest' /\ InvocationsPaid' /\ SequencesGiven'
<1> DEFINE some == IF doc.forms[expanding].content = "unwalkable" THEN CoverageSkips ELSE <<>>
           last == << [form |-> expanding, reason |-> "Content"] >>
<1>1. /\ expanding # PageScope /\ SpendExpansion
      /\ form_skipped' = form_skipped \o some \o last
      /\ expanding' = PageScope
      /\ UNCHANGED <<calls, next_sequence, entries>>
  BY DEF SkipUnreadableForm
<1>2. FormTypeOK /\ ContentTypeOK /\ form_skipped \in Seq(Skip)
  BY DEF TypeOK, FormTypeOK, Skip
<1>3. some \in Seq(Skip) /\ \A i \in 1..Len(some) : some[i].reason \notin BudgetReasons
  BY <1>1, <1>2, FormType DEF BudgetReasons
<1>4. last \in Seq(Skip) /\ \A i \in 1..Len(last) : last[i].reason \notin BudgetReasons
  BY <1>1, <1>2, FormType DEF BudgetReasons, Skip, SkipReason
<1> HIDE DEF some, last
<1>5. Refusals(form_skipped \o some) = Refusals(form_skipped)
  BY <1>2, <1>3, RefusalsKept
<1>6. form_skipped \o some \in Seq(Skip)
  BY <1>2, <1>3, ConcatProperties
<1>7. Refusals(form_skipped') = Refusals(form_skipped)
  BY <1>1, <1>4, <1>5, <1>6, RefusalsKept
<1>8. CallsNest' /\ SequencesGiven'
  BY <1>1 DEF CallsNest, SequencesGiven
<1>9. QED
  BY <1>1, <1>7, <1>8, PaidKeeps

(* The form entered is on no open call, and there is room for it.           *)
LEMMA DescendKeeps ==
  ASSUME TypeOK, CallsNest, InvocationsPaid, SequencesGiven, DescendIntoForm, calls # <<>>,
         UNCHANGED <<doc, page, stage>>
  PROVE  CallsNest' /\ InvocationsPaid' /\ SequencesGiven'
<1> DEFINE call == Call(expanding, doc.forms[expanding].items)
           Frame == [scope : Scope, items : Seq(Operator), next : Nat \ {0}]
<1>1. /\ expanding # PageScope /\ ExpansionRefusal = "none" /\ SpendExpansion
      /\ form_skipped' = form_skipped \o CoverageSkips
      /\ calls' = Append(calls, call) /\ expanding' = PageScope
      /\ UNCHANGED <<next_sequence, entries>>
  BY DEF DescendIntoForm
<1>2. /\ FormTypeOK /\ ContentTypeOK /\ form_skipped \in Seq(Skip) /\ calls \in Seq(Frame)
      /\ expanding \in Scope
  BY DEF TypeOK, FormTypeOK, Skip
<1>3. /\ doc.forms[expanding].items \in Seq(Operator) /\ CoverageSkips \in Seq(Skip)
      /\ \A i \in 1..Len(CoverageSkips) : CoverageSkips[i].reason = "Resource"
  BY <1>1, <1>2, FormType
<1>4. call \in Frame /\ call.scope = expanding
  BY <1>2, <1>3 DEF Call
<1>5. Refusals(form_skipped') = Refusals(form_skipped)
  <2>1. \A i \in 1..Len(CoverageSkips) : CoverageSkips[i].reason \notin BudgetReasons
    BY <1>3 DEF BudgetReasons
  <2>2. QED
    BY <2>1, <1>1, <1>2, <1>3, RefusalsKept
<1> HIDE DEF call, Frame
<1>6. /\ Len(calls') = Len(calls) + 1 /\ calls'[Len(calls) + 1] = call
      /\ \A i \in 1..Len(calls) : calls'[i] = calls[i]
  BY <1>1, <1>2, <1>4, AppendProperties
<1>7. /\ expanding \notin Active /\ Cardinality(Active) < MaxFormDepth
      /\ Cardinality(Active) = Len(calls) - 1 /\ Len(calls) \in Nat \ {0}
  <2>1. expanding \notin Active /\ ~(Cardinality(Active) >= MaxFormDepth)
    BY <1>1 DEF ExpansionRefusal
  <2>2. Cardinality(Active) = Len(calls) - 1 /\ Len(calls) \in Nat \ {0}
    BY <1>2, ActiveCount
  <2>3. QED
    BY <2>1, <2>2, FormBoundsAreNat
<1>8. \A i \in 1..Len(calls) : calls[i].scope # expanding
  <2>1. \A i \in 2..Len(calls) : calls[i].scope # expanding
    BY <1>7 DEF Active
  <2>2. calls[1].scope = PageScope
    BY <1>7 DEF CallsNest
  <2>3. QED
    BY <2>1, <2>2, <1>1, <1>7
<1>9. CallsNest'
  <2>1. \A i \in 1..Len(calls') : calls'[i].scope = PageScope <=> i = 1
    <3>1. \A i \in 1..Len(calls) : calls[i].scope = PageScope <=> i = 1
      BY DEF CallsNest
    <3>2. QED
      BY <3>1, <1>1, <1>4, <1>6, <1>7
  <2>2. \A i, j \in 1..Len(calls') : calls'[i].scope = calls'[j].scope => i = j
    <3>1. \A i, j \in 1..Len(calls) : calls[i].scope = calls[j].scope => i = j
      BY DEF CallsNest
    <3>2. QED
      BY <3>1, <1>4, <1>6, <1>7, <1>8
  <2>3. Len(calls') <= MaxFormDepth + 1
    BY <1>6, <1>7, FormBoundsAreNat
  <2>4. calls' # <<>>
    BY <1>1, <1>2, <1>4, AppendProperties
  <2>5. stage' = "expand" => page' <= Len(doc.pages)'
    BY DEF CallsNest
  <2>6. QED
    BY <2>1, <2>2, <2>3, <2>4, <2>5 DEF CallsNest
<1>10. SequencesGiven'
  <2>1. calls'[1] = calls[1] /\ entries' = entries /\ next_sequence' = next_sequence
    BY <1>1, <1>6, <1>7
  <2>2. QED
    BY <2>1 DEF SequencesGiven
<1>11. QED
  BY <1>1, <1>5, <1>9, <1>10, PaidKeeps

LEMMA ReturnKeeps ==
  ASSUME TypeOK, CallsNest, InvocationsPaid, SequencesGiven, ReturnFromForm,
         UNCHANGED <<doc, page, stage>>
  PROVE  CallsNest' /\ InvocationsPaid' /\ SequencesGiven'
<1> DEFINE Frame == [scope : Scope, items : Seq(Operator), next : Nat \ {0}]
<1>1. /\ Len(calls) > 1 /\ calls' = SubSeq(calls, 1, Len(calls) - 1)
      /\ UNCHANGED <<expanding, remaining_expansions, next_sequence, entries, form_skipped>>
  BY DEF ReturnFromForm, Front
<1>2. calls \in Seq(Frame)
  BY DEF TypeOK, FormTypeOK
<1> HIDE DEF Frame
<1>3. Len(calls) \in Nat
  BY <1>2, LenProperties
<1>4. calls # <<>>
  BY <1>1, <1>3, EmptySeq
<1>5. /\ calls' \in Seq(Frame) /\ Len(calls') = Len(calls) - 1
      /\ \A k \in 1..Len(calls') : calls'[k] = calls[k]
  BY <1>1, <1>2, <1>4, Popped
<1>6. calls' # <<>> /\ calls'[1] = calls[1]
  <2>1. 1 \in 1..Len(calls')
    BY <1>1, <1>3, <1>5
  <2>2. calls'[1] = calls[1]
    BY <2>1, <1>5
  <2>3. calls' # <<>>
    BY <2>1, <1>5, EmptySeq
  <2>4. QED
    BY <2>2, <2>3
<1>7. CallsNest'
  <2>1. \A i \in 1..Len(calls') : i \in 1..Len(calls) /\ calls'[i] = calls[i]
    BY <1>3, <1>5
  <2>2. Len(calls') <= MaxFormDepth + 1
    BY <1>3, <1>5, FormBoundsAreNat DEF CallsNest
  <2>3. /\ \A i \in 1..Len(calls') : calls'[i].scope = PageScope <=> i = 1
        /\ \A i, j \in 1..Len(calls') : calls'[i].scope = calls'[j].scope => i = j
    BY <2>1 DEF CallsNest
  <2>4. stage' = "expand" => page' <= Len(doc.pages)'
    BY DEF CallsNest
  <2>5. QED
    BY <2>2, <2>3, <2>4, <1>6 DEF CallsNest
<1>8. InvocationsPaid'
  BY <1>1 DEF InvocationsPaid
<1>9. SequencesGiven'
  BY <1>1, <1>4, <1>6 DEF SequencesGiven
<1>10. QED
  BY <1>7, <1>8, <1>9

-----------------------------------------------------------------------------
(* Steps outside the expansion leave its variables.                         *)
LEMMA FormsKept ==
  ASSUME CallsNest, InvocationsPaid, SequencesGiven, UNCHANGED formVars,
         stage' # "expand" \/ (stage' = stage /\ page' = page /\ doc' = doc)
  PROVE  CallsNest' /\ InvocationsPaid' /\ SequencesGiven'
<1>1. /\ calls' = calls /\ expanding' = expanding /\ entries' = entries
      /\ remaining_expansions' = remaining_expansions /\ next_sequence' = next_sequence
      /\ form_skipped' = form_skipped
  BY DEF formVars
<1>2. InvocationsPaid'
  BY <1>1 DEF InvocationsPaid
<1>3. SequencesGiven'
  BY <1>1 DEF SequencesGiven
<1>4. CallsNest'
  <2>1. CASE stage' # "expand"
    BY <1>1, <2>1 DEF CallsNest
  <2>2. CASE stage' = stage /\ page' = page /\ doc' = doc
    BY <1>1, <2>2 DEF CallsNest
  <2>3. QED
    BY <2>1, <2>2
<1>5. QED
  BY <1>2, <1>3, <1>4

(* The bounds, the sequences and what they rest on hold in every state.     *)
THEOREM ExpansionInvariant == Spec => []IInv
<1>1. Init => IInv
  <2> SUFFICES ASSUME Init PROVE IInv
    OBVIOUS
  <2>1. /\ ContentInit /\ FormInit /\ stage = "content" /\ inventory = <<>> /\ results = <<>>
        /\ calls = <<>> /\ entries = <<>> /\ form_skipped = <<>> /\ expanding = PageScope
        /\ remaining_expansions = MaxExpansions
    BY DEF Init, FormInit
  <2>2. TypeOK
    <3>1. doc \in DocumentShape /\ page = 1 /\ stream = 1 /\ joined = <<>> /\ joined_len = 0
      BY <2>1, DocumentsAreShaped DEF ContentInit
    <3>2. Len(doc.pages) \in Nat
      BY <3>1, LenProperties DEF DocumentShape
    <3>3. ContentTypeOK
      BY <2>1, <3>1, <3>2 DEF ContentTypeOK
    <3>4. FormTypeOK
      BY <2>1, FormBoundsAreNat DEF FormInit, FormTypeOK, Scope
    <3>5. QED
      BY <2>1, <3>3, <3>4 DEF TypeOK
  <2>3. CallsNest
    <3>1. Len(calls) = 0
      BY <2>1
    <3>2. QED
      BY <2>1, <3>1, FormBoundsAreNat DEF CallsNest
  <2>4. InvocationsPaid
    <3>1. FormEntries(entries) = {} /\ Refusals(form_skipped) = {}
      BY <2>1 DEF FormEntries, Refusals
    <3>2. Cardinality({}) = 0
      BY FS_EmptySet
    <3>3. 0 = (MaxExpansions - MaxExpansions) + 0 + 0
      BY FormBoundsAreNat
    <3>4. QED
      BY <2>1, <3>1, <3>2, <3>3 DEF InvocationsPaid
  <2>5. SequencesGiven
    BY <2>1 DEF SequencesGiven
  <2>6. QED
    BY <2>2, <2>3, <2>4, <2>5 DEF IInv
<1>2. IInv /\ [Next]_vars => IInv'
  <2> SUFFICES ASSUME IInv, [Next]_vars PROVE IInv'
    OBVIOUS
  <2>1. TypeOK /\ CallsNest /\ InvocationsPaid /\ SequencesGiven
    BY DEF IInv
  <2>2. CASE UNCHANGED vars
    BY <2>1, <2>2 DEF vars, contentVars, formVars, IInv, TypeOK, ContentTypeOK, FormTypeOK, Streams,
                      CallsNest, InvocationsPaid, SequencesGiven
  <2>3. CASE Next
    <3>1. TypeOK'
      BY <2>1, <2>3, Typed
    <3>2. CallsNest' /\ InvocationsPaid' /\ SequencesGiven'
      <4>1. CASE Join
        <5>1. UNCHANGED formVars /\ stage' = stage /\ page' = page /\ doc' = doc
          BY <4>1 DEF Join
        <5>2. QED
          BY <5>1, <2>1, FormsKept
      <4>2. CASE StartPage
        <5>1. /\ StartExpansion(joined) /\ UNCHANGED <<doc, page>> /\ page <= Len(doc.pages)
              /\ Readable
          BY <4>2 DEF StartPage, ContentComplete
        <5>2. joined \in Seq(Operator)
          BY <5>1, <2>1, ReadableIsOperators DEF TypeOK
        <5>3. QED
          BY <5>1, <5>2, FormBoundsAreNat, StartKeeps
      <4>3. CASE SkipPage
        <5>1. UNCHANGED formVars /\ stage' # "expand"
          BY <4>3 DEF SkipPage, NextPage
        <5>2. QED
          BY <5>1, <2>1, FormsKept
      <4>4. CASE Expand
        <5>1. UNCHANGED <<doc, page, stage>> /\ stage = "expand" /\ ExpandStep
          BY <4>4 DEF Expand
        <5>2. calls # <<>>
          BY <5>1, <2>1 DEF CallsNest
        <5>3. QED
          BY <5>1, <5>2, <2>1, EmitKeeps, RefuseKeeps, SkipKeeps, DescendKeeps, ReturnKeeps
             DEF ExpandStep
      <4>5. CASE FinishPage
        <5>1. UNCHANGED formVars /\ stage' # "expand"
          BY <4>5 DEF FinishPage, NextPage
        <5>2. QED
          BY <5>1, <2>1, FormsKept
      <4>6. CASE Finish
        <5>1. UNCHANGED formVars /\ stage' # "expand"
          BY <4>6 DEF Finish
        <5>2. QED
          BY <5>1, <2>1, FormsKept
      <4>7. CASE Answered
        <5>1. UNCHANGED formVars /\ stage' = stage /\ page' = page /\ doc' = doc
          BY <4>7 DEF Answered, vars
        <5>2. QED
          BY <5>1, <2>1, FormsKept
      <4>8. QED
        BY <2>3, <4>1, <4>2, <4>3, <4>4, <4>5, <4>6, <4>7 DEF Next
    <3>3. QED
      BY <3>1, <3>2 DEF IInv
  <2>4. QED
    BY <2>2, <2>3
<1>3. QED
  BY <1>1, <1>2, PTL DEF Spec

(* No form is expanded inside itself nor deeper than the limit, whatever    *)
(* invokes it (expand), and every invocation was paid for or has a record.  *)
THEOREM ExpansionIsBounded == Spec => []ExpansionStaysBounded
<1>1. IInv => ExpansionStaysBounded
  <2> SUFFICES ASSUME IInv PROVE ExpansionStaysBounded
    OBVIOUS
  <2>1. /\ \A i, j \in 1..Len(calls) : calls[i].scope = calls[j].scope => i = j
        /\ Len(calls) <= MaxFormDepth + 1
        /\ remaining_expansions \in 0..MaxExpansions
    BY DEF IInv, CallsNest, TypeOK, FormTypeOK
  <2>2. ASSUME PageExpanded
        PROVE  Cardinality(FormEntries(entries)) =
                 (MaxExpansions - remaining_expansions) + Cardinality(Refusals(form_skipped))
    <3>1. expanding = PageScope /\ form_skipped \in Seq(Skip) /\ remaining_expansions \in Int
      BY <2>1, <2>2 DEF PageExpanded, IInv, TypeOK, FormTypeOK, Skip
    <3>2. Cardinality(Refusals(form_skipped)) \in Nat
      BY <3>1, RefusalsCounted
    <3>3. Cardinality(FormEntries(entries)) =
            (MaxExpansions - remaining_expansions) + Cardinality(Refusals(form_skipped)) + 0
      BY <3>1 DEF IInv, InvocationsPaid
    <3>4. \A a \in Int, b \in Nat : a + b + 0 = a + b
      OBVIOUS
    <3>5. MaxExpansions - remaining_expansions \in Int
      BY <3>1, FormBoundsAreNat
    <3>6. QED
      BY <3>2, <3>3, <3>4, <3>5
  <2>3. QED
    BY <2>1, <2>2 DEF ExpansionStaysBounded, FormEntries, Refusals, BudgetReasons, Skips
<1>2. QED
  BY <1>1, ExpansionInvariant, PTL

(* The entries of an expanded page have the sequences 0, 1, 2, ..., in the  *)
(* order of the page and behind it of its forms (rebase_form_entries).      *)
THEOREM SequencesAreExact == Spec => []SequencesIdentifyEntries
<1>1. IInv => SequencesIdentifyEntries
  <2> SUFFICES ASSUME IInv, PageExpanded PROVE
        /\ {entries[i].sequence : i \in 1..Len(entries)} = 0..(Len(entries) - 1)
        /\ \A i, j \in 1..Len(entries) :
             i < j /\ (entries[i].scope = PageScope <=> entries[j].scope = PageScope)
               => entries[i].sequence < entries[j].sequence
    BY DEF SequencesIdentifyEntries
  <2> DEFINE n == Len(calls[1].items)
             own == calls[1].next - 1
  <2>1. Len(calls) = 1 /\ calls[1].next > Len(calls[1].items) /\ calls # <<>>
    <3>1. Len(calls) = 1 /\ Current.next > Len(Current.items)
      BY DEF PageExpanded
    <3>2. QED
      BY <3>1 DEF Current
  <2>2. Numbered(entries, own, n, next_sequence)
    BY <2>1 DEF IInv, SequencesGiven
  <2>3. calls[1].next \in Nat \ {0} /\ n \in Nat /\ next_sequence \in Nat
    <3>1. calls[1] \in [scope : Scope, items : Seq(Operator), next : Nat \ {0}]
      <4>1. 1 \in 1..Len(calls)
        BY <2>1
      <4>2. calls \in Seq([scope : Scope, items : Seq(Operator), next : Nat \ {0}])
        BY DEF IInv, TypeOK, FormTypeOK
      <4>3. QED
        BY <4>1, <4>2, ElementOfSeq
    <3>2. calls[1].items \in Seq(Operator) /\ calls[1].next \in Nat \ {0}
      BY <3>1
    <3>3. QED
      BY <3>2, LenProperties DEF IInv, TypeOK, FormTypeOK
  <2> DEFINE mine == Sequences(entries, PageEntries(entries))
             others == Sequences(entries, (1..Len(entries)) \ PageEntries(entries))
  <2>4. /\ own \in 0..n /\ n <= next_sequence /\ Len(entries) = own + (next_sequence - n)
        /\ mine = 0..(own - 1) /\ others = n..(next_sequence - 1)
        /\ \A i, j \in 1..Len(entries) :
             i < j /\ (entries[i].scope = PageScope <=> entries[j].scope = PageScope)
               => entries[i].sequence < entries[j].sequence
    BY <2>2 DEF Numbered
  <2>5. own = n
    BY <2>1, <2>3, <2>4
  <2>6. {entries[i].sequence : i \in 1..Len(entries)} = mine \cup others
    BY DEF Sequences, PageEntries
  <2> HIDE DEF own, n, mine, others
  <2>7. Len(entries) = next_sequence
    BY <2>3, <2>4, <2>5
  <2>8. mine \cup others = 0..(next_sequence - 1)
    BY <2>3, <2>4, <2>5
  <2>9. QED
    BY <2>4, <2>6, <2>7, <2>8
<1>2. QED
  BY <1>1, ExpansionInvariant, PTL

-----------------------------------------------------------------------------
(***************************************************************************)
(* From the streams of a page to its entries.                              *)
(***************************************************************************)
Items(n, k) == [i \in 1..k |-> doc.pages[n][i].items]

(* The streams passed are joined, and nothing else.                         *)
Gathered ==
  /\ stage = "content" /\ page <= Len(doc.pages) =>
       /\ stream \in 1..(Len(Streams) + 1)
       /\ joined = FlattenSeq(Items(page, stream - 1))
       /\ Len(Streams) > 1 => joined_len <= MaxDecodedBytes
  /\ stage = "expand" => joined = FlattenSeq(Items(page, Len(Streams)))

(* The page's own entries are those of the joined content.                  *)
PageFollowed ==
  stage = "expand" =>
    /\ calls[1].items = joined
    /\ \A i \in PageEntries(entries) : entries[i].form = joined[entries[i].sequence + 1]

Mine(inv, n) == {i \in 1..Len(inv) : inv[i].page = n}
Own(inv, n) == {i \in Mine(inv, n) : inv[i].entry.scope = PageScope}

(* Of page n there are these entries, and this result.                      *)
Whole(inv, n, result, all) ==
  /\ Cardinality(Mine(inv, n)) = result.entry_count
  /\ IF result.state = "Inventoried"
     THEN /\ {inv[i].entry.sequence + 1 : i \in Own(inv, n)} = 1..Len(all)
          /\ \A i \in Own(inv, n) : inv[i].entry.form = all[inv[i].entry.sequence + 1]
          /\ \A i, j \in Own(inv, n) :
               i < j => inv[i].entry.sequence + 1 < inv[j].entry.sequence + 1
     ELSE Mine(inv, n) = {}

(* The operators of all the streams of page n.                              *)
Content(n) == FlattenSeq(Items(n, Len(doc.pages[n])))

Reported ==
  /\ Len(results) = page - 1
  /\ \A i \in 1..Len(inventory) : inventory[i].page \in 1..Len(results)
  /\ \A n \in 1..Len(results) : Whole(inventory, n, results[n], Content(n))

PInv == Gathered /\ PageFollowed /\ Reported

(* The operators of the first streams of a page.                            *)
LEMMA ItemsTyped ==
  ASSUME ContentTypeOK, NEW n \in 1..Len(doc.pages), NEW k \in 0..Len(doc.pages[n])
  PROVE  /\ Len(doc.pages[n]) \in Nat /\ k \in Nat
         /\ Items(n, k) \in [1..k -> Seq(Operator \cup {Garbled})] /\ Len(Items(n, k)) = k
         /\ FlattenSeq(Items(n, k)) \in Seq(Operator \cup {Garbled})
<1> DEFINE S == Operator \cup {Garbled}
           items == Items(n, k)
<1>1. doc.pages \in Seq(Seq(Stream))
  BY DEF ContentTypeOK, DocumentShape
<1>2. doc.pages[n] \in Seq(Stream)
  BY <1>1, ElementOfSeq
<1>3. Len(doc.pages[n]) \in Nat
  BY <1>2, LenProperties
<1>4. k \in Nat
  BY <1>3
<1>5. ASSUME NEW i \in 1..k
      PROVE  doc.pages[n][i].items \in Seq(S)
  <2>1. i \in 1..Len(doc.pages[n])
    BY <1>3, <1>4
  <2>2. doc.pages[n][i] \in Stream
    BY <1>2, <2>1, ElementOfSeq
  <2>3. QED
    BY <2>2 DEF Stream
<1> HIDE DEF S
<1>6. items \in [1..k -> Seq(S)]
  BY <1>5 DEF Items
<1> HIDE DEF items
<1>7. items \in Seq(Seq(S))
  BY <1>4, <1>6
<1>8. Len(items) = k
  BY <1>4, <1>6, <1>7, LenProperties
<1>9. FlattenSeq(items) \in Seq(S)
  BY <1>4, <1>6, <1>8, FlattenAny
<1>10. QED
  BY <1>3, <1>4, <1>6, <1>8, <1>9 DEF items, S

(* One stream more is joined behind the others.                             *)
LEMMA ItemsGrow ==
  ASSUME ContentTypeOK, NEW n \in 1..Len(doc.pages), NEW k \in 1..Len(doc.pages[n])
  PROVE  FlattenSeq(Items(n, k)) = FlattenSeq(Items(n, k - 1)) \o doc.pages[n][k].items
<1> DEFINE S == Operator \cup {Garbled}
           more == Items(n, k)
           less == Items(n, k - 1)
<1>1. Len(doc.pages[n]) \in Nat
  <2>1. 0 \in 0..Len(doc.pages[n]) \/ Len(doc.pages[n]) \notin Nat
    OBVIOUS
  <2>2. doc.pages \in Seq(Seq(Stream))
    BY DEF ContentTypeOK, DocumentShape
  <2>3. doc.pages[n] \in Seq(Stream)
    BY <2>2, ElementOfSeq
  <2>4. QED
    BY <2>3, LenProperties
<1>2. PICK h \in Nat : h = k - 1 /\ h \in 0..Len(doc.pages[n]) /\ h + 1 = k
  BY <1>1
<1>3. k \in 0..Len(doc.pages[n]) /\ k \in Nat /\ k \in 1..k
  BY <1>1
<1>4. more \in [1..k -> Seq(S)] /\ Len(more) = k
  BY <1>3, ItemsTyped
<1>5. less \in [1..h -> Seq(S)] /\ Len(less) = h
  <2>1. Items(n, h) \in [1..h -> Seq(S)] /\ Len(Items(n, h)) = h
    BY <1>2, ItemsTyped
  <2>2. QED
    BY <1>2, <2>1, Zenon
<1>6. \A i \in 1..h : more[i] = less[i]
  <2>1. less = Items(n, h)
    BY <1>2, Zenon
  <2>2. \A i \in 1..h : i \in 1..k
    BY <1>2
  <2>3. QED
    BY <2>1, <2>2 DEF Items
<1>7. more[k] = doc.pages[n][k].items
  BY <1>3 DEF Items
<1> HIDE DEF more, less, S
<1>8. FlattenSeq(more) = FlattenSeq(less) \o more[k]
  <2>1. Lengthened(S, h, less, k, more)
    BY <1>2, <1>3, <1>4, <1>5, <1>6 DEF Lengthened
  <2>2. QED
    BY <2>1, FlattenGrows
<1>9. QED
  BY <1>7, <1>8, Zenon DEF more, less

LEMMA NoItems ==
  ASSUME NEW p
  PROVE  FlattenSeq([i \in 1..0 |-> p[i].items]) = <<>>
<1> DEFINE none == [i \in 1..0 |-> p[i].items]
<1>1. none \in [1..0 -> Seq(Operator)]
  OBVIOUS
<1>2. none \in Seq(Seq(Operator))
  BY <1>1
<1>3. DOMAIN none = 1..0 /\ DOMAIN none = 1..Len(none) /\ Len(none) \in Nat
  BY <1>1, <1>2, LenProperties
<1> HIDE DEF none
<1>4. Len(none) = 0
  <2>1. ASSUME Len(none) # 0
        PROVE  FALSE
    <3>1. 1 \in 1..Len(none) /\ 1 \notin 1..0
      BY <1>3, <2>1
    <3>2. QED
      BY <1>3, <3>1
  <2>2. QED
    BY <2>1
<1>5. none = <<>>
  BY <1>2, <1>4, EmptySeq
<1>6. FlattenSeq(none) = none
  BY <1>4, Zenon DEF FlattenSeq
<1>7. QED
  BY <1>5, <1>6 DEF none

-----------------------------------------------------------------------------
(* A document's inventory with the entries of one more page.                *)
WithPage(inv, n, seq, more) ==
  /\ Len(inv) \in Nat /\ Len(seq) \in Nat /\ Len(more) = Len(inv) + Len(seq)
  /\ \A i \in 1..Len(inv) : more[i] = inv[i]
  /\ \A i \in 1..Len(seq) : more[Len(inv) + i] = [page |-> n, entry |-> seq[i]]

LEMMA AddedIsWithPage ==
  ASSUME NEW inv \in Seq([page : Nat, entry : Entry]), NEW seq \in Seq(Entry), NEW n \in Nat
  PROVE  WithPage(inv, n, seq, inv \o [i \in 1..Len(seq) |-> [page |-> n, entry |-> seq[i]]])
<1> DEFINE new == [i \in 1..Len(seq) |-> [page |-> n, entry |-> seq[i]]]
           more == inv \o new
           T == [page : Nat, entry : Entry]
<1>1. Len(inv) \in Nat /\ Len(seq) \in Nat
  BY LenProperties
<1>2. \A i \in 1..Len(seq) : new[i] = [page |-> n, entry |-> seq[i]]
  OBVIOUS
<1>3. new \in [1..Len(seq) -> T]
  <2>1. \A i \in 1..Len(seq) : seq[i] \in Entry
    BY ElementOfSeq
  <2>2. QED
    BY <2>1
<1> HIDE DEF new
<1>4. new \in Seq(T)
  <2>1. PICK k \in Nat : k = Len(seq)
    BY <1>1
  <2>2. new \in [1..k -> T]
    BY <1>3, <2>1, Zenon
  <2> HIDE DEF T
  <2>3. QED
    BY <2>2
<1>5. Len(new) = Len(seq)
  BY <1>1, <1>3, <1>4, LenProperties
<1> HIDE DEF T
<1>6. /\ Len(more) = Len(inv) + Len(new)
      /\ \A i \in 1..(Len(inv) + Len(new)) :
           more[i] = IF i <= Len(inv) THEN inv[i] ELSE new[i - Len(inv)]
  <2>1. inv \in Seq(T)
    BY DEF T
  <2>2. QED
    BY <1>4, <2>1, ConcatProperties
<1> HIDE DEF more
<1>7. Len(more) = Len(inv) + Len(seq) /\ \A i \in 1..Len(inv) : more[i] = inv[i]
  BY <1>1, <1>5, <1>6
<1>8. ASSUME NEW i \in 1..Len(seq)
      PROVE  more[Len(inv) + i] = [page |-> n, entry |-> seq[i]]
  <2>1. PICK k \in Nat : k = Len(inv) + i
    BY <1>1
  <2>2. k \in 1..(Len(inv) + Len(new)) /\ ~(k <= Len(inv)) /\ k - Len(inv) = i
    BY <1>1, <1>5, <2>1
  <2>3. more[k] = new[k - Len(inv)]
    BY <1>6, <2>2
  <2>4. more[k] = new[i]
    BY <2>2, <2>3
  <2>5. QED
    BY <1>2, <2>1, <2>4
<1>9. WithPage(inv, n, seq, more)
  BY <1>1, <1>7, <1>8 DEF WithPage
<1>10. QED
  BY <1>9 DEF more, new

(* What a page has stays what it was when another one adds its entries.     *)
LEMMA WholeKept ==
  ASSUME NEW inv, NEW seq, NEW more, NEW n, NEW other, n # other,
         WithPage(inv, other, seq, more), NEW result, NEW all, Whole(inv, n, result, all)
  PROVE  Whole(more, n, result, all)
<1>1. /\ Len(inv) \in Nat /\ Len(seq) \in Nat /\ Len(more) = Len(inv) + Len(seq)
      /\ \A i \in 1..Len(inv) : more[i] = inv[i]
      /\ \A i \in 1..Len(seq) : more[Len(inv) + i] = [page |-> other, entry |-> seq[i]]
  BY DEF WithPage
<1>2. ASSUME NEW i \in 1..Len(more), i \notin 1..Len(inv)
      PROVE  more[i].page = other
  <2>1. PICK k \in 1..Len(seq) : i = Len(inv) + k
    <3>1. i - Len(inv) \in 1..Len(seq) /\ i = Len(inv) + (i - Len(inv))
      BY <1>1, <1>2
    <3>2. QED
      BY <3>1
  <2>2. more[i] = [page |-> other, entry |-> seq[k]]
    BY <1>1, <2>1
  <2>3. QED
    BY <2>2
<1>3. \A i \in 1..Len(inv) : i \in 1..Len(more)
  BY <1>1
<1>4. Mine(more, n) = Mine(inv, n) /\ \A i \in Mine(inv, n) : more[i] = inv[i]
  BY <1>1, <1>2, <1>3 DEF Mine
<1>5. Own(more, n) = Own(inv, n) /\ \A i \in Own(inv, n) : more[i] = inv[i]
  BY <1>4 DEF Own
<1>6. {more[i].entry.sequence + 1 : i \in Own(more, n)}
        = {inv[i].entry.sequence + 1 : i \in Own(inv, n)}
  BY <1>5
<1>7. QED
  BY <1>4, <1>5, <1>6 DEF Whole

(* The entries of the page that is added are as they were numbered.         *)
LEMMA WholeOfPage ==
  ASSUME NEW inv, NEW seq, NEW more, NEW n, WithPage(inv, n, seq, more),
         \A i \in 1..Len(inv) : inv[i].page # n,
         NEW all, NEW result, result.state = "Inventoried", result.entry_count = Len(seq),
         {seq[i].sequence + 1 : i \in PageEntries(seq)} = 1..Len(all),
         \A i \in PageEntries(seq) : seq[i].form = all[seq[i].sequence + 1],
         \A i, j \in PageEntries(seq) : i < j => seq[i].sequence + 1 < seq[j].sequence + 1
  PROVE  Whole(more, n, result, all)
<1> DEFINE m == Len(inv)
<1>1. /\ m \in Nat /\ Len(seq) \in Nat /\ Len(more) = m + Len(seq)
      /\ \A i \in 1..m : more[i] = inv[i]
      /\ \A i \in 1..Len(seq) : more[m + i] = [page |-> n, entry |-> seq[i]]
  BY DEF WithPage
<1>2. \A i \in 1..m : inv[i].page # n
  OBVIOUS
<1> HIDE DEF m
<1>3. \A k \in Mine(more, n) : \E i \in 1..Len(seq) : k = m + i
  <2>1. ASSUME NEW k \in 1..Len(more), more[k].page = n
        PROVE  \E i \in 1..Len(seq) : k = m + i
    <3>1. k \notin 1..m
      BY <1>1, <1>2, <2>1
    <3>2. k - m \in 1..Len(seq) /\ k = m + (k - m)
      BY <1>1, <3>1
    <3>3. QED
      BY <3>2
  <2>2. QED
    BY <2>1 DEF Mine
<1>4. ASSUME NEW i \in 1..Len(seq)
      PROVE  /\ m + i \in Mine(more, n) /\ more[m + i].entry = seq[i]
             /\ m + i \in Own(more, n) <=> i \in PageEntries(seq)
  <2>1. m + i \in 1..Len(more) /\ more[m + i].page = n /\ more[m + i].entry = seq[i]
    <3>1. m + i \in 1..Len(more)
      BY <1>1
    <3>2. more[m + i] = [page |-> n, entry |-> seq[i]]
      BY <1>1, Zenon
    <3>3. QED
      BY <3>1, <3>2
  <2>2. m + i \in Mine(more, n)
    BY <2>1 DEF Mine
  <2>3. QED
    BY <2>1, <2>2 DEF Own, PageEntries
<1>5. Mine(more, n) = (m + 1)..(m + Len(seq))
  <2>1. ASSUME NEW k \in (m + 1)..(m + Len(seq))
        PROVE  k \in Mine(more, n)
    <3>1. PICK i \in 1..Len(seq) : k = m + i
      <4>1. k - m \in 1..Len(seq) /\ k = m + (k - m)
        BY <1>1
      <4>2. QED
        BY <4>1
    <3>2. QED
      BY <1>4, <3>1
  <2>2. ASSUME NEW k \in Mine(more, n)
        PROVE  k \in (m + 1)..(m + Len(seq))
    BY <1>1, <1>3
  <2>3. QED
    BY <2>1, <2>2
<1>6. Cardinality(Mine(more, n)) = Len(seq)
  <2>1. PICK low \in Int, high \in Int : low = m + 1 /\ high = m + Len(seq)
    BY <1>1
  <2>2. Cardinality(low..high) = IF low > high THEN 0 ELSE high - low + 1
    BY FS_Interval, Zenon
  <2>3. Cardinality(low..high) = Len(seq)
    BY <1>1, <2>1, <2>2
  <2>4. QED
    BY <1>5, <2>1, <2>3, Zenon
<1>7. ASSUME NEW k \in Own(more, n)
      PROVE  \E i \in PageEntries(seq) : k = m + i /\ more[k].entry = seq[i]
  <2>1. k \in Mine(more, n)
    BY DEF Own
  <2>2. PICK i \in 1..Len(seq) : k = m + i
    BY <1>3, <2>1
  <2>3. QED
    BY <1>4, <2>2
<1>8. \A i \in PageEntries(seq) :
        i \in 1..Len(seq) /\ m + i \in Own(more, n) /\ more[m + i].entry = seq[i]
  BY <1>4 DEF PageEntries
<1> DEFINE Places == {more[k].entry.sequence + 1 : k \in Own(more, n)}
           There == {seq[i].sequence + 1 : i \in PageEntries(seq)}
<1>9. Places = There
  <2>1. ASSUME NEW x \in Places
        PROVE  x \in There
    <3>1. PICK k \in Own(more, n) : x = more[k].entry.sequence + 1
      OBVIOUS
    <3>2. PICK i \in PageEntries(seq) : more[k].entry = seq[i]
      BY <1>7
    <3>3. QED
      BY <3>1, <3>2
  <2>2. ASSUME NEW x \in There
        PROVE  x \in Places
    <3>1. PICK i \in PageEntries(seq) : x = seq[i].sequence + 1
      OBVIOUS
    <3>2. m + i \in Own(more, n) /\ more[m + i].entry = seq[i]
      BY <1>8
    <3>3. PICK k \in Own(more, n) : more[k].entry = seq[i]
      BY <3>2
    <3>4. QED
      BY <3>1, <3>3
  <2>3. QED
    BY <2>1, <2>2
<1>10. Places = 1..Len(all)
  <2>1. There = 1..Len(all)
    OBVIOUS
  <2>2. QED
    BY <1>9, <2>1
<1>11. ASSUME NEW k \in Own(more, n)
       PROVE  more[k].entry.form = all[more[k].entry.sequence + 1]
  BY <1>7
<1>12. ASSUME NEW k \in Own(more, n), NEW h \in Own(more, n), k < h
       PROVE  more[k].entry.sequence + 1 < more[h].entry.sequence + 1
  <2>1. PICK i \in PageEntries(seq) : k = m + i /\ more[k].entry = seq[i]
    BY <1>7
  <2>2. PICK j \in PageEntries(seq) : h = m + j /\ more[h].entry = seq[j]
    BY <1>7
  <2>3. i < j
    <3>1. i \in Nat /\ j \in Nat
      BY <1>8
    <3>2. QED
      BY <1>1, <1>12, <2>1, <2>2, <3>1
  <2>4. QED
    BY <2>1, <2>2, <2>3
<1>13. QED
  BY <1>6, <1>10, <1>11, <1>12 DEF Whole

-----------------------------------------------------------------------------
LEMMA ContentKept ==
  ASSUME doc' = doc, NEW n
  PROVE  Content(n)' = Content(n)
BY DEF Content, Items

LEMMA ReportedKept ==
  ASSUME Reported, UNCHANGED <<doc, page, inventory, results>>
  PROVE  Reported'
<1>1. \A n : Content(n)' = Content(n)
  BY ContentKept
<1>2. inventory' = inventory /\ results' = results /\ page' = page
  OBVIOUS
<1>3. QED
  BY <1>1, <1>2 DEF Reported

LEMMA GatheredKept ==
  ASSUME Gathered, UNCHANGED <<doc, page, stage, contentVars>>
  PROVE  Gathered'
BY DEF Gathered, contentVars, Streams, Items

LEMMA FollowedKept ==
  ASSUME PageFollowed, UNCHANGED <<stage, joined, entries>>, calls'[1].items = calls[1].items
  PROVE  PageFollowed'
<1>1. PageEntries(entries)' = PageEntries(entries)
  BY DEF PageEntries
<1>2. QED
  BY <1>1 DEF PageFollowed

(* One more stream joined.                                                  *)
LEMMA JoinFollows ==
  ASSUME TypeOK, PInv, Join
  PROVE  PInv'
<1>1. /\ stage = "content" /\ page <= Len(doc.pages) /\ stream <= Len(Streams)
      /\ Joinable(Streams[stream])
      /\ joined' = joined \o Streams[stream].items
      /\ joined_len' = joined_len + (IF stream > 1 THEN 1 ELSE 0) + Streams[stream].size
      /\ stream' = stream + 1
      /\ UNCHANGED <<doc, page, stage, formVars, inventory, results>>
  BY DEF Join, JoinStream
<1>2. ContentTypeOK /\ page \in 1..Len(doc.pages) /\ stream \in Nat \ {0} /\ joined_len \in Nat
      /\ doc.pages \in Seq(Seq(Stream))
  <2>1. ContentTypeOK /\ doc.pages \in Seq(Seq(Stream))
    BY DEF TypeOK, ContentTypeOK, DocumentShape
  <2>2. Len(doc.pages) \in Nat
    BY <2>1, LenProperties
  <2>3. QED
    BY <1>1, <2>1, <2>2 DEF ContentTypeOK
<1>3. Streams \in Seq(Stream) /\ Len(Streams) \in Nat /\ stream \in 1..Len(Streams)
  <2>1. Streams \in Seq(Stream)
    BY <1>2, ElementOfSeq DEF Streams
  <2>2. QED
    BY <1>1, <1>2, <2>1, LenProperties
<1>4. Streams[stream].size \in Nat
  <2>1. Streams[stream] \in Stream
    BY <1>3, ElementOfSeq
  <2>2. QED
    BY <2>1 DEF Stream
<1>5. joined = FlattenSeq(Items(page, stream - 1))
  BY <1>1, <1>2 DEF PInv, Gathered
<1>6. joined' = FlattenSeq(Items(page, stream))
  <2>1. FlattenSeq(Items(page, stream))
          = FlattenSeq(Items(page, stream - 1)) \o doc.pages[page][stream].items
    BY <1>2, <1>3, ItemsGrow DEF Streams
  <2>2. QED
    BY <1>1, <1>5, <2>1, Zenon DEF Streams
<1>7. Len(Streams) > 1 => joined_len' <= MaxDecodedBytes
  <2>1. ASSUME Len(Streams) > 1
        PROVE  Streams[stream].size <= Remaining
    <3>1. PICK m \in Nat : m = Len(Streams)
      BY <1>3
    <3>2. m # 1
      <4>1. \A x \in Nat : x > 1 => x # 1
        OBVIOUS
      <4>2. m > 1
        BY <2>1, <3>1, Zenon
      <4>3. QED
        BY <4>1, <4>2, Zenon
    <3>3. QED
      BY <1>1, <3>1, <3>2 DEF Joinable
  <2>2. joined_len \in Nat /\ stream \in Nat
    BY <1>2, <1>3
  <2>3. joined_len' = joined_len + (IF stream > 1 THEN 1 ELSE 0) + Streams[stream].size
    BY <1>1
  <2>4. ASSUME Streams[stream].size <= Remaining
        PROVE  joined_len' <= MaxDecodedBytes
    <3>1. PICK size \in Nat : size = Streams[stream].size
      BY <1>4
    <3>2. PICK bar \in Nat : bar = IF stream > 1 THEN 1 ELSE 0
      OBVIOUS
    <3>3. size <= MaxDecodedBytes - joined_len - bar
      BY <2>4, <3>1, <3>2, Zenon DEF Remaining
    <3>4. joined_len' = joined_len + bar + size
      BY <2>3, <3>1, <3>2, Zenon
    <3>5. QED
      BY <2>2, <3>3, <3>4, MaxDecodedIsNat
  <2>5. QED
    BY <2>1, <2>4
<1>8. Streams' = Streams /\ Items(page, stream)' = Items(page, stream')
  BY <1>1 DEF Streams, Items
<1>9. Gathered'
  <2>1. stream' - 1 = stream /\ stream' \in 1..(Len(Streams) + 1)
    BY <1>1, <1>3
  <2>2. Items(page, stream - 1)' = Items(page, stream)
    BY <1>1, <2>1 DEF Items
  <2>3. QED
    BY <1>1, <1>6, <1>7, <1>8, <2>1, <2>2 DEF Gathered
<1>10. Reported'
  BY <1>1, ReportedKept DEF PInv
<1>11. PageFollowed'
  BY <1>1 DEF PageFollowed
<1>12. QED
  BY <1>9, <1>10, <1>11 DEF PInv

(* All streams joined, the entries begin.                                   *)
LEMMA StartFollows ==
  ASSUME TypeOK, PInv, StartPage
  PROVE  PInv'
<1>1. /\ stage = "content" /\ page <= Len(doc.pages) /\ stream > Len(Streams)
      /\ stage' = "expand" /\ calls' = <<Call(PageScope, joined)>> /\ entries' = <<>>
      /\ UNCHANGED <<doc, page, contentVars, inventory, results>>
  BY DEF StartPage, StartExpansion, ContentComplete, Joined
<1>2. joined' = joined /\ stream' = stream /\ joined_len' = joined_len
  BY <1>1 DEF contentVars
<1>3. Len(Streams) \in Nat
  <2>1. doc.pages \in Seq(Seq(Stream)) /\ page \in 1..(Len(doc.pages) + 1)
    BY DEF TypeOK, ContentTypeOK, DocumentShape
  <2>2. page \in 1..Len(doc.pages)
    <3>1. Len(doc.pages) \in Nat
      BY <2>1, LenProperties
    <3>2. QED
      BY <1>1, <2>1, <3>1
  <2>3. Streams \in Seq(Stream)
    BY <2>1, <2>2, ElementOfSeq DEF Streams
  <2>4. QED
    BY <2>3, LenProperties
<1>4. joined = FlattenSeq(Items(page, Len(Streams)))
  <2>1. stream \in 1..(Len(Streams) + 1) /\ joined = FlattenSeq(Items(page, stream - 1))
    BY <1>1 DEF PInv, Gathered
  <2>2. stream - 1 = Len(Streams)
    BY <1>1, <1>3, <2>1
  <2>3. QED
    BY <2>1, <2>2
<1>5. Gathered'
  <2>1. Streams' = Streams /\ Items(page, Len(Streams))' = Items(page, Len(Streams))
    BY <1>1 DEF Streams, Items
  <2>2. QED
    BY <1>1, <1>2, <1>4, <2>1 DEF Gathered
<1>6. PageFollowed'
  <2>1. calls'[1].items = joined
    BY <1>1 DEF Call
  <2>2. PageEntries(entries)' = {}
    BY <1>1 DEF PageEntries
  <2>3. QED
    BY <1>2, <2>1, <2>2 DEF PageFollowed
<1>7. Reported'
  BY <1>1, ReportedKept DEF PInv
<1>8. QED
  BY <1>5, <1>6, <1>7 DEF PInv

(* At the start of a page nothing is joined.                                *)
LEMMA NextPageGathers ==
  ASSUME ContentTypeOK', NextPage
  PROVE  Gathered' /\ PageFollowed'
<1>1. stage' = "content" /\ stream' = 1 /\ joined' = <<>> /\ joined_len' = 0
  BY DEF NextPage
<1>2. ASSUME page' <= Len(doc'.pages)
      PROVE  Len(Streams') \in Nat
  <2>1. doc'.pages \in Seq(Seq(Stream)) /\ page' \in 1..(Len(doc'.pages) + 1)
    BY DEF ContentTypeOK, DocumentShape
  <2>2. page' \in 1..Len(doc'.pages)
    <3>1. Len(doc'.pages) \in Nat
      BY <2>1, LenProperties
    <3>2. QED
      BY <1>2, <2>1, <3>1
  <2>3. doc'.pages[page'] \in Seq(Stream)
    BY <2>1, <2>2, ElementOfSeq
  <2>4. QED
    BY <2>3, LenProperties DEF Streams
<1>3. FlattenSeq(Items(page, 0))' = <<>>
  <2>1. FlattenSeq([i \in 1..0 |-> doc'.pages[page'][i].items]) = <<>>
    BY NoItems
  <2>2. QED
    BY <2>1 DEF Items
<1>4. Gathered'
  <2>1. Items(page, stream - 1)' = Items(page, 0)'
    BY <1>1 DEF Items
  <2>2. ASSUME page' <= Len(doc'.pages)
        PROVE  stream' \in 1..(Len(Streams') + 1)
    BY <1>1, <1>2, <2>2
  <2>3. QED
    BY <1>1, <1>3, <2>1, <2>2, MaxDecodedIsNat DEF Gathered
<1>5. PageFollowed'
  BY <1>1 DEF PageFollowed
<1>6. QED
  BY <1>4, <1>5

(* One more page has its result.                                            *)
LEMMA ReportAdded ==
  ASSUME TypeOK, Reported, doc' = doc, page' = page + 1,
         NEW r, results' = Append(results, r),
         \A i \in 1..Len(inventory') : inventory'[i].page \in 1..page,
         \A n \in 1..Len(results) : Whole(inventory', n, results[n], Content(n)),
         Whole(inventory', page, r, Content(page))
  PROVE  Reported'
<1>1. /\ Len(results) \in Nat /\ Len(results') = Len(results) + 1
      /\ results'[Len(results) + 1] = r
      /\ \A n \in 1..Len(results) : results'[n] = results[n]
  BY DEF TypeOK
<1>2. page \in Nat /\ Len(results) = page - 1
  BY DEF TypeOK, ContentTypeOK, Reported
<1>3. Len(results') = page /\ page' - 1 = page /\ results'[page] = r
  BY <1>1, <1>2
<1>4. ASSUME NEW n \in 1..Len(results')
      PROVE  Whole(inventory', n, results'[n], Content(n)')
  <2>1. Content(n)' = Content(n)
    BY ContentKept
  <2>2. CASE n = page
    BY <1>3, <2>1, <2>2
  <2>3. CASE n # page
    <3>1. n \in 1..Len(results)
      BY <1>1, <1>2, <2>3
    <3>2. QED
      BY <1>1, <2>1, <3>1
  <2>4. QED
    BY <2>2, <2>3
<1>5. QED
  BY <1>3, <1>4 DEF Reported

(* A page that fails adds nothing.                                          *)
LEMMA SkipFollows ==
  ASSUME TypeOK, TypeOK', PInv, SkipPage
  PROVE  PInv'
<1> DEFINE r == [state |-> "Skipped", entry_count |-> 0, form_skipped |-> <<>>]
<1>1. results' = Append(results, r) /\ NextPage /\ UNCHANGED <<formVars, inventory>>
  BY DEF SkipPage
<1>2. doc' = doc /\ page' = page + 1 /\ inventory' = inventory
  BY <1>1 DEF NextPage
<1>3. Gathered' /\ PageFollowed'
  BY <1>1, NextPageGathers DEF TypeOK
<1>4. page \in Nat /\ Len(results) = page - 1
      /\ \A i \in 1..Len(inventory) : inventory[i].page \in 1..Len(results)
  BY DEF TypeOK, ContentTypeOK, PInv, Reported
<1>5. \A i \in 1..Len(inventory) : inventory[i].page \in 1..page /\ inventory[i].page # page
  <2>1. \A k \in 1..Len(results) : k \in 1..page /\ k # page
    BY <1>4
  <2>2. QED
    BY <1>4, <2>1
<1>6. Whole(inventory, page, r, Content(page))
  <2>1. Mine(inventory, page) = {}
    BY <1>5 DEF Mine
  <2>2. Cardinality({}) = 0
    BY FS_EmptySet
  <2>3. r.state # "Inventoried" /\ r.entry_count = 0
    OBVIOUS
  <2> HIDE DEF r
  <2>4. QED
    BY <2>1, <2>2, <2>3 DEF Whole
<1>7. \A n \in 1..Len(results) : Whole(inventory, n, results[n], Content(n))
  BY DEF PInv, Reported
<1> HIDE DEF r
<1>8. Reported'
  <2>1. Reported
    BY DEF PInv
  <2>2. QED
    BY <1>1, <1>2, <1>5, <1>6, <1>7, <2>1, ReportAdded
<1>9. QED
  BY <1>3, <1>8 DEF PInv

(* The entries added are those of the whole content.                        *)
LEMMA FinishFollows ==
  ASSUME TypeOK, TypeOK', CallsNest, SequencesGiven, PInv, FinishPage
  PROVE  PInv'
<1> DEFINE r == [state |-> "Inventoried", entry_count |-> Len(entries),
                 form_skipped |-> form_skipped]
           own == calls[1].next - 1
           n == Len(calls[1].items)
<1>1. /\ stage = "expand" /\ PageExpanded /\ results' = Append(results, r) /\ NextPage
      /\ inventory' = inventory \o
           [i \in 1..Len(entries) |-> [page |-> page, entry |-> entries[i]]]
  BY DEF FinishPage
<1>2. doc' = doc /\ page' = page + 1
  BY <1>1 DEF NextPage
<1>3. Gathered' /\ PageFollowed'
  BY <1>1, NextPageGathers DEF TypeOK
<1>4. page \in Nat /\ Len(results) = page - 1
      /\ \A i \in 1..Len(inventory) : inventory[i].page \in 1..Len(results)
  BY DEF TypeOK, ContentTypeOK, PInv, Reported
<1>5. WithPage(inventory, page, entries, inventory')
  <2>1. inventory \in Seq([page : Nat, entry : Entry]) /\ entries \in Seq(Entry)
    BY DEF TypeOK, FormTypeOK
  <2>2. QED
    BY <1>1, <1>4, <2>1, AddedIsWithPage
<1>6. \A k \in 1..Len(results) : k \in 1..page /\ k # page
  BY <1>4
<1>7. \A i \in 1..Len(inventory) : inventory[i].page \in 1..page /\ inventory[i].page # page
  BY <1>4, <1>6
<1>8. \A i \in 1..Len(inventory') : inventory'[i].page \in 1..page
  <2>1. /\ Len(inventory) \in Nat /\ Len(entries) \in Nat
        /\ Len(inventory') = Len(inventory) + Len(entries)
        /\ \A i \in 1..Len(inventory) : inventory'[i] = inventory[i]
        /\ \A i \in 1..Len(entries) :
             inventory'[Len(inventory) + i] = [page |-> page, entry |-> entries[i]]
    BY <1>5 DEF WithPage
  <2>2. page \in 1..page
    BY <1>4 DEF TypeOK, ContentTypeOK
  <2>3. ASSUME NEW i \in 1..Len(inventory')
        PROVE  inventory'[i].page \in 1..page
    <3>1. CASE i \in 1..Len(inventory)
      BY <1>7, <2>1, <3>1
    <3>2. CASE i \notin 1..Len(inventory)
      <4>1. PICK k \in 1..Len(entries) : i = Len(inventory) + k
        <5>1. i - Len(inventory) \in 1..Len(entries) /\ i = Len(inventory) + (i - Len(inventory))
          BY <2>1, <2>3, <3>2
        <5>2. QED
          BY <5>1
      <4>2. inventory'[i] = [page |-> page, entry |-> entries[k]]
        BY <2>1, <4>1
      <4>3. QED
        BY <2>2, <4>2
    <3>3. QED
      BY <3>1, <3>2
  <2>4. QED
    BY <2>3
<1>9. ASSUME NEW k \in 1..Len(results)
      PROVE  Whole(inventory', k, results[k], Content(k))
  <2>1. Whole(inventory, k, results[k], Content(k))
    BY DEF PInv, Reported
  <2>2. QED
    BY <1>5, <1>6, <2>1, WholeKept
<1>10. joined = Content(page) /\ calls[1].items = Content(page)
       /\ \A i \in PageEntries(entries) :
            entries[i].form = Content(page)[entries[i].sequence + 1]
  <2>1. joined = Content(page)
    BY <1>1 DEF PInv, Gathered, Content, Streams
  <2>2. QED
    BY <1>1, <2>1 DEF PInv, PageFollowed
<1>11. Len(calls) = 1 /\ calls[1].next > n /\ calls # <<>> /\ calls[1].next \in Nat \ {0}
       /\ n \in Nat
  <2>1. Len(calls) = 1 /\ Current.next > Len(Current.items)
    BY <1>1 DEF PageExpanded
  <2>2. calls \in Seq([scope : Scope, items : Seq(Operator), next : Nat \ {0}])
        /\ 1 \in 1..Len(calls)
    BY <2>1 DEF TypeOK, FormTypeOK
  <2>3. calls[1] \in [scope : Scope, items : Seq(Operator), next : Nat \ {0}]
    BY <2>2, ElementOfSeq
  <2>4. calls[1].items \in Seq(Operator) /\ calls[1].next \in Nat \ {0}
    BY <2>3
  <2>5. n \in Nat
    BY <2>4, LenProperties
  <2>6. Current = calls[1]
    BY <2>1 DEF Current
  <2>7. calls # <<>>
    BY <2>1
  <2>8. calls[1].next > n
    BY <2>1, <2>6
  <2> HIDE DEF n
  <2>9. QED
    BY <2>1, <2>4, <2>5, <2>7, <2>8
<1>12. /\ own \in 0..n
       /\ Sequences(entries, PageEntries(entries)) = 0..(own - 1)
       /\ \A i, j \in 1..Len(entries) :
            i < j /\ (entries[i].scope = PageScope <=> entries[j].scope = PageScope)
              => entries[i].sequence < entries[j].sequence
  BY <1>11 DEF SequencesGiven, Numbered
<1>13. Sequences(entries, PageEntries(entries)) = 0..(n - 1)
  <2>1. own = n
    BY <1>11, <1>12
  <2>2. QED
    BY <1>12, <2>1
<1>14. \A i \in PageEntries(entries) :
         i \in 1..Len(entries) /\ entries[i].sequence \in Nat /\ entries[i].scope = PageScope
  <2>1. entries \in Seq(Entry)
    BY DEF TypeOK, FormTypeOK
  <2>2. \A i \in 1..Len(entries) : entries[i] \in Entry
    BY <2>1, ElementOfSeq
  <2>3. \A i \in 1..Len(entries) : entries[i].sequence \in Nat
    BY <2>2 DEF Entry
  <2>4. QED
    BY <2>3 DEF PageEntries
<1>15. {entries[i].sequence + 1 : i \in PageEntries(entries)} = 1..n
  <2> DEFINE There == {entries[i].sequence + 1 : i \in PageEntries(entries)}
  <2>1. ASSUME NEW x \in There
        PROVE  x \in 1..n
    <3>1. PICK i \in PageEntries(entries) : x = entries[i].sequence + 1
      OBVIOUS
    <3>2. entries[i].sequence \in 0..(n - 1)
      BY <1>13 DEF Sequences
    <3>3. QED
      BY <1>11, <3>1, <3>2
  <2>2. ASSUME NEW x \in 1..n
        PROVE  x \in There
    <3>1. x - 1 \in 0..(n - 1) /\ (x - 1) + 1 = x
      BY <1>11
    <3>2. PICK i \in PageEntries(entries) : entries[i].sequence = x - 1
      BY <1>13, <3>1 DEF Sequences
    <3>3. QED
      BY <3>1, <3>2
  <2>3. QED
    BY <2>1, <2>2
<1>16. \A i, j \in PageEntries(entries) :
         i < j => entries[i].sequence + 1 < entries[j].sequence + 1
  <2>1. SUFFICES ASSUME NEW i \in PageEntries(entries), NEW j \in PageEntries(entries), i < j
                 PROVE  entries[i].sequence + 1 < entries[j].sequence + 1
    OBVIOUS
  <2>2. entries[i].sequence < entries[j].sequence
    BY <1>12, <1>14, <2>1
  <2>3. PICK a \in Nat : a = entries[i].sequence
    BY <1>14
  <2>4. PICK b \in Nat : b = entries[j].sequence
    BY <1>14
  <2>5. QED
    BY <2>2, <2>3, <2>4
<1>17. Whole(inventory', page, r, Content(page))
  <2>1. r.state = "Inventoried" /\ r.entry_count = Len(entries)
    OBVIOUS
  <2>2. {entries[i].sequence + 1 : i \in PageEntries(entries)} = 1..Len(Content(page))
    BY <1>10, <1>15
  <2> HIDE DEF r, n, own
  <2>3. QED
    BY <1>5, <1>7, <1>10, <1>16, <2>1, <2>2, WholeOfPage
<1> HIDE DEF r
<1>18. Reported'
  <2>1. Reported
    BY DEF PInv
  <2>2. QED
    BY <1>1, <1>2, <1>8, <1>9, <1>17, <2>1, ReportAdded
<1>19. QED
  BY <1>3, <1>18 DEF PInv

(* The page's entries are emitted from the page's own frame.                *)
LEMMA EmitFollows ==
  ASSUME TypeOK, CallsNest, PageFollowed, EmitEntry, stage = "expand", UNCHANGED <<stage, joined>>
  PROVE  PageFollowed'
<1> DEFINE item == Current.items[Current.next]
           e == [sequence |-> Numbering, scope |-> Current.scope, form |-> item]
<1>1. AtItem /\ entries' = Append(entries, e) /\ calls' = MovedOn
  BY DEF EmitEntry
<1>2. /\ calls # <<>> /\ FormTypeOK /\ calls[1].items = joined
      /\ \A i \in PageEntries(entries) : entries[i].form = joined[entries[i].sequence + 1]
  BY <1>1 DEF AtItem, TypeOK, PageFollowed
<1>3. /\ Len(calls) \in Nat \ {0} /\ Current = calls[Len(calls)] /\ item \in Operator
      /\ Current.scope \in Scope /\ Current.next \in Nat \ {0}
  BY <1>1, <1>2, CurrentType DEF AtItem
<1>4. e \in Entry /\ e.sequence = Numbering /\ e.scope = Current.scope /\ e.form = item
  BY <1>2, <1>3 DEF Entry, Numbering, FormTypeOK
<1>5. calls'[1].items = joined
  <2>1. 1 \in 1..Len(calls)
    BY <1>3
  <2>2. calls'[1].items = calls[1].items
    BY <1>1, <1>2, <2>1, MovedOnIs
  <2>3. QED
    BY <1>2, <2>2
<1>6. e.scope = PageScope => e.form = joined[e.sequence + 1]
  <2>1. ASSUME Current.scope = PageScope
        PROVE  item = joined[Numbering + 1]
    <3>1. Len(calls) \in 1..Len(calls)
      BY <1>3
    <3>2. Len(calls) = 1
      BY <1>3, <2>1, <3>1 DEF CallsNest
    <3>3. Current.items = joined
      BY <1>2, <1>3, <3>2
    <3>4. Numbering + 1 = Current.next
      BY <1>3, <2>1 DEF Numbering
    <3>5. QED
      BY <3>3, <3>4
  <2>2. QED
    BY <1>4, <2>1
<1> HIDE DEF item, e
<1>7. /\ Len(entries) \in Nat /\ Len(entries') = Len(entries) + 1
      /\ entries'[Len(entries) + 1] = e /\ \A i \in 1..Len(entries) : entries'[i] = entries[i]
  <2>1. entries \in Seq(Entry)
    BY <1>2 DEF FormTypeOK
  <2>2. QED
    BY <1>1, <1>4, <2>1, AppendProperties
<1>8. ASSUME NEW i \in PageEntries(entries')
      PROVE  entries'[i].form = joined[entries'[i].sequence + 1]
  <2>1. i \in 1..Len(entries') /\ entries'[i].scope = PageScope
    BY DEF PageEntries
  <2>2. CASE i = Len(entries) + 1
    BY <1>6, <1>7, <2>1, <2>2
  <2>3. CASE i # Len(entries) + 1
    <3>1. i \in 1..Len(entries) /\ entries'[i] = entries[i]
      BY <1>7, <2>1, <2>3
    <3>2. i \in PageEntries(entries)
      BY <2>1, <3>1 DEF PageEntries
    <3>3. QED
      BY <1>2, <3>1, <3>2
  <2>4. QED
    BY <2>2, <2>3
<1>9. QED
  BY <1>5, <1>8 DEF PageFollowed

LEMMA ExpandFollows ==
  ASSUME TypeOK, CallsNest, PInv, Expand
  PROVE  PInv'
<1>1. /\ stage = "expand" /\ ExpandStep
      /\ UNCHANGED <<doc, page, stage, contentVars, inventory, results>>
  BY DEF Expand
<1>2. Gathered' /\ Reported'
  BY <1>1, GatheredKept, ReportedKept DEF PInv
<1>3. joined' = joined /\ stage' = stage /\ PageFollowed /\ FormTypeOK /\ calls # <<>>
  BY <1>1 DEF contentVars, PInv, TypeOK, CallsNest
<1> DEFINE Frame == [scope : Scope, items : Seq(Operator), next : Nat \ {0}]
<1>4. calls \in Seq(Frame) /\ Len(calls) \in Nat
  <2>1. calls \in Seq(Frame)
    BY <1>3 DEF FormTypeOK
  <2>2. QED
    BY <2>1, LenProperties
<1>5. PageFollowed'
  <2>1. CASE EmitEntry
    BY <1>1, <1>3, <2>1, EmitFollows
  <2>2. CASE RefuseExpansion \/ SkipUnreadableForm
    <3>1. calls' = calls /\ entries' = entries
      BY <2>2 DEF RefuseExpansion, SkipUnreadableForm
    <3>2. QED
      BY <1>3, <3>1, FollowedKept
  <2>3. CASE DescendIntoForm
    <3> DEFINE call == Call(expanding, doc.forms[expanding].items)
    <3>1. calls' = Append(calls, call) /\ entries' = entries /\ expanding # PageScope
      BY <2>3 DEF DescendIntoForm
    <3>2. call \in Frame
      <4>1. doc.forms[expanding].items \in Seq(Operator) /\ expanding \in Scope
        BY <1>3, <3>1, FormType DEF TypeOK, FormTypeOK
      <4>2. QED
        BY <4>1 DEF Call
    <3>3. 1 \in 1..Len(calls)
      <4>1. Len(calls) # 0
        BY <1>3, <1>4, EmptySeq
      <4>2. QED
        BY <1>4, <4>1
    <3> HIDE DEF call, Frame
    <3>4. calls'[1] = calls[1]
      BY <1>4, <3>1, <3>2, <3>3, AppendProperties
    <3>5. QED
      BY <1>3, <3>1, <3>4, FollowedKept
  <2>4. CASE ReturnFromForm
    <3>1. calls' = SubSeq(calls, 1, Len(calls) - 1) /\ entries' = entries /\ Len(calls) > 1
      BY <2>4 DEF ReturnFromForm, Front
    <3> HIDE DEF Frame
    <3>2. Len(calls') = Len(calls) - 1 /\ \A k \in 1..Len(calls') : calls'[k] = calls[k]
      BY <1>3, <1>4, <3>1, Popped
    <3>3. calls'[1] = calls[1]
      <4>1. 1 \in 1..Len(calls')
        BY <1>4, <3>1, <3>2
      <4>2. QED
        BY <3>2, <4>1
    <3>4. QED
      BY <1>3, <3>1, <3>3, FollowedKept
  <2>5. QED
    BY <1>1, <2>1, <2>2, <2>3, <2>4 DEF ExpandStep
<1>6. QED
  BY <1>2, <1>5 DEF PInv

(* A page in the document's inventory has every operator of every one of    *)
(* its streams, once, in order and as numbered, or is reported as skipped   *)
(* and has nothing (build_classic_pdf_inventory, page_content_bytes).       *)
THEOREM PagesAlwaysWholeOrSkipped == Spec => []PagesAreWholeOrSkipped
<1>1. Init => PInv
  <2> SUFFICES ASSUME Init PROVE PInv
    OBVIOUS
  <2>1. /\ doc \in DocumentShape /\ page = 1 /\ stream = 1 /\ joined = <<>> /\ joined_len = 0
        /\ stage = "content" /\ inventory = <<>> /\ results = <<>>
    BY DocumentsAreShaped DEF Init, ContentInit
  <2>2. Gathered
    <3>1. ASSUME page <= Len(doc.pages)
          PROVE  Len(Streams) \in Nat
      <4>1. doc.pages \in Seq(Seq(Stream))
        BY <2>1 DEF DocumentShape
      <4>2. Len(doc.pages) \in Nat
        BY <4>1, LenProperties
      <4>3. page \in 1..Len(doc.pages)
        BY <2>1, <3>1, <4>2
      <4>4. Streams \in Seq(Stream)
        BY <4>1, <4>3, ElementOfSeq DEF Streams
      <4>5. QED
        BY <4>4, LenProperties
    <3>2. stream - 1 = 0 /\ FlattenSeq(Items(page, 0)) = <<>>
      BY <2>1, NoItems DEF Items
    <3>3. ASSUME page <= Len(doc.pages)
          PROVE  stream \in 1..(Len(Streams) + 1)
      BY <2>1, <3>1, <3>3
    <3>4. QED
      BY <2>1, <3>2, <3>3, MaxDecodedIsNat DEF Gathered
  <2>3. PageFollowed
    BY <2>1 DEF PageFollowed
  <2>4. Reported
    <3>1. Len(results) = 0 /\ Len(inventory) = 0
      BY <2>1
    <3>2. QED
      BY <2>1, <3>1 DEF Reported
  <2>5. QED
    BY <2>2, <2>3, <2>4 DEF PInv
<1>2. IInv /\ IInv' /\ PInv /\ [Next]_vars => PInv'
  <2> SUFFICES ASSUME IInv, IInv', PInv, [Next]_vars PROVE PInv'
    OBVIOUS
  <2>1. TypeOK /\ CallsNest /\ SequencesGiven /\ TypeOK'
    BY DEF IInv
  <2>2. CASE UNCHANGED <<doc, page, stage, contentVars, formVars, inventory, results>>
    <3>1. Gathered' /\ Reported'
      BY <2>2, GatheredKept, ReportedKept DEF PInv
    <3>2. PageFollowed'
      BY <2>2, FollowedKept DEF PInv, contentVars, formVars
    <3>3. QED
      BY <3>1, <3>2 DEF PInv
  <2>3. CASE Finish
    <3>1. stage' = "done" /\ UNCHANGED <<doc, page, inventory, results>>
      BY <2>3 DEF Finish
    <3>2. Gathered' /\ PageFollowed'
      BY <3>1 DEF Gathered, PageFollowed
    <3>3. QED
      BY <3>1, <3>2, ReportedKept DEF PInv
  <2>4. QED
    BY <2>1, <2>2, <2>3, JoinFollows, StartFollows, SkipFollows, ExpandFollows, FinishFollows
       DEF Next, Answered, vars
<1>3. IInv /\ PInv => PagesAreWholeOrSkipped
  <2> SUFFICES ASSUME IInv, PInv PROVE PagesAreWholeOrSkipped
    OBVIOUS
  <2>1. Len(results) = page - 1
        /\ (stage = "content" /\ page <= Len(doc.pages) /\ Len(doc.pages[page]) > 1
              => joined_len <= MaxDecodedBytes)
    BY DEF PInv, Gathered, Reported, Streams
  <2>2. \A n \in 1..Len(results) : Whole(inventory, n, results[n], Content(n))
    BY DEF PInv, Reported
  <2>3. QED
    BY <2>1, <2>2, Zenon DEF PagesAreWholeOrSkipped, Whole, Mine, Own, Content, Items
<1>4. QED
  BY <1>1, <1>2, <1>3, ExpansionInvariant, PTL DEF Spec

-----------------------------------------------------------------------------

(***************************************************************************)
(* What an expansion still has to emit.                                    *)
(***************************************************************************)
Then(one, two) == one \o two

LEMMA ThenTyped ==
  ASSUME NEW S, NEW one \in Seq(S), NEW two \in Seq(S)
  PROVE  Then(one, two) \in Seq(S)
BY ConcatProperties DEF Then

LEMMA ThenThen ==
  ASSUME NEW S, NEW one \in Seq(S), NEW two \in Seq(S), NEW three \in Seq(S)
  PROVE  Then(Then(one, two), three) = Then(one, Then(two, three))
BY ConcatAssociative DEF Then

LEMMA ThenNothing ==
  ASSUME NEW S, NEW one \in Seq(S)
  PROVE  Then(one, <<>>) = one /\ Then(<<>>, one) = one
BY ConcatEmptySeq DEF Then

(* Sequences of elements of S, and the same ones with one more in front.     *)
Fronted(S, n, rest, seqs) ==
  /\ n \in Nat /\ Len(rest) = n /\ rest \in [1..n -> Seq(S)]
  /\ Len(seqs) = n + 1 /\ seqs \in [1..(n + 1) -> Seq(S)]
  /\ \A i \in 1..n : rest[i] = seqs[i + 1]

(* Joined sequences begin with the first of them.                           *)
LEMMA FlattenBegins ==
  ASSUME NEW S, NEW n, NEW seqs, NEW rest, Fronted(S, n, rest, seqs)
  PROVE  FlattenSeq(seqs) = Then(seqs[1], FlattenSeq(rest))
<1>0. /\ n \in Nat /\ Len(rest) = n /\ rest \in [1..n -> Seq(S)]
      /\ Len(seqs) = n + 1 /\ seqs \in [1..(n + 1) -> Seq(S)]
      /\ \A i \in 1..n : rest[i] = seqs[i + 1]
  BY DEF Fronted
<1>1. PICK G : /\ FlattenSeq(seqs) = G[n + 1]
               /\ \A i \in 1..(n + 1) : G[i] = IF i = 1 THEN seqs[i] ELSE Then(G[i - 1], seqs[i])
  <2>1. n + 1 \in Nat \ {0}
    BY <1>0
  <2>2. Len(seqs) \in Nat \ {0}
    BY <1>0, <2>1
  <2>3. \E G : /\ FlattenSeq(seqs) = G[Len(seqs)]
               /\ \A i \in 1..Len(seqs) : G[i] = IF i = 1 THEN seqs[i] ELSE Then(G[i - 1], seqs[i])
    BY <2>2, FlattenSteps, Zenon DEF Then
  <2>4. QED
    BY <1>0, <2>3
<1>2. seqs[1] \in Seq(S)
  BY <1>0
<1>3. CASE n = 0
  <2>1. FlattenSeq(rest) = <<>>
    <3>1. \A i \in 1..n : rest[i] = <<>>
      BY <1>0, <1>3
    <3>2. QED
      BY <1>0, <3>1, FlattenAny
  <2>2. FlattenSeq(seqs) = seqs[1]
    BY <1>1, <1>3
  <2>3. QED
    BY <1>2, <2>1, <2>2, ThenNothing
<1>4. CASE n # 0
  <2>1. n \in Nat \ {0}
    BY <1>0, <1>4
  <2>2. PICK F : /\ FlattenSeq(rest) = F[n]
                 /\ \A i \in 1..n : F[i] = IF i = 1 THEN rest[i] ELSE Then(F[i - 1], rest[i])
    <3>1. Len(rest) \in Nat \ {0}
      BY <1>0, <2>1
    <3>2. \E F : /\ FlattenSeq(rest) = F[Len(rest)]
                 /\ \A i \in 1..Len(rest) :
                      F[i] = IF i = 1 THEN rest[i] ELSE Then(F[i - 1], rest[i])
      BY <3>1, FlattenSteps, Zenon DEF Then
    <3>3. QED
      BY <1>0, <3>2
  <2> DEFINE Good(i) == F[i] \in Seq(S) /\ G[i + 1] = Then(seqs[1], F[i])
             Bad == {i \in 1..n : ~Good(i)}
  <2>3. ASSUME Bad # {}
        PROVE  FALSE
    <3>1. PICK m \in Bad : \A k \in Bad : m <= k
      <4>1. Bad \in SUBSET Nat
        BY <1>0
      <4> HIDE DEF Bad
      <4>2. QED
        BY <2>3, <4>1, LeastElement
    <3>2. m \in 1..n /\ ~Good(m)
      OBVIOUS
    <3>3. /\ m + 1 \in 1..(n + 1) /\ m + 1 # 1 /\ (m + 1) - 1 = m
          /\ rest[m] = seqs[m + 1] /\ rest[m] \in Seq(S)
      BY <1>0, <3>2
    <3>4. G[m + 1] = Then(G[m], rest[m])
      BY <1>1, <3>3
    <3>5. CASE m = 1
      <4>1. F[1] = rest[1] /\ G[1] = seqs[1]
        BY <1>1, <2>1, <2>2
      <4>2. QED
        BY <3>2, <3>3, <3>4, <3>5, <4>1
    <3>6. CASE m # 1
      <4>1. m - 1 \in 1..n /\ ~(m <= m - 1) /\ (m - 1) + 1 = m
        BY <1>0, <3>2, <3>6
      <4>2. Good(m - 1)
        <5>1. m - 1 \notin Bad
          <6> HIDE DEF Bad
          <6>1. QED
            BY <3>1, <4>1
        <5> HIDE DEF Good
        <5>2. QED
          BY <4>1, <5>1
      <4>3. F[m - 1] \in Seq(S) /\ G[m] = Then(seqs[1], F[m - 1])
        BY <4>1, <4>2
      <4>4. F[m] = Then(F[m - 1], rest[m])
        BY <2>2, <3>2, <3>6
      <4>5. F[m] \in Seq(S)
        BY <3>3, <4>3, <4>4, ThenTyped
      <4>6. Then(Then(seqs[1], F[m - 1]), rest[m]) = Then(seqs[1], Then(F[m - 1], rest[m]))
        BY <1>2, <3>3, <4>3, ThenThen
      <4>7. G[m + 1] = Then(seqs[1], F[m])
        BY <3>4, <4>3, <4>4, <4>6
      <4>8. QED
        BY <3>2, <4>5, <4>7
    <3>7. QED
      BY <3>5, <3>6
  <2>4. n \in 1..n
    BY <2>1
  <2>5. Good(n)
    BY <2>3, <2>4
  <2>6. QED
    BY <1>1, <2>2, <2>5
<1>5. QED
  BY <1>3, <1>4

-----------------------------------------------------------------------------
Pair == Scope \X Operator
Contents == [Forms -> Seq(Pair)]

(* What one operator stands for.                                            *)
Behind(item, below) == IF item \in Forms THEN below[item] ELSE <<>>
Piece(scope, item, below) == Then(<< <<scope, item>> >>, Behind(item, below))

LEMMA PieceTyped ==
  ASSUME NEW scope \in Scope, NEW item \in Operator, NEW below \in Contents
  PROVE  /\ Behind(item, below) \in Seq(Pair)
         /\ << <<scope, item>> >> \in Seq(Pair)
         /\ Piece(scope, item, below) \in Seq(Pair)
<1>1. Behind(item, below) \in Seq(Pair)
  BY DEF Behind, Contents
<1>2. <<scope, item>> \in Pair
  BY DEF Pair
<1>3. << <<scope, item>> >> \in Seq(Pair)
  BY <1>2
<1>4. QED
  BY <1>1, <1>3, ThenTyped DEF Piece

Pieces(scope, items, below) == [i \in 1..Len(items) |-> Piece(scope, items[i], below)]

LEMMA HeldIs ==
  \A scope, items, below : Held(scope, items, below) = FlattenSeq(Pieces(scope, items, below))
BY Zenon DEF Held, Pieces, Piece, Behind, Then

LEMMA PiecesTyped ==
  ASSUME NEW scope \in Scope, NEW items \in Seq(Operator), NEW below \in Contents
  PROVE  /\ Len(items) \in Nat
         /\ Pieces(scope, items, below) \in [1..Len(items) -> Seq(Pair)]
         /\ Len(Pieces(scope, items, below)) = Len(items)
<1>1. Len(items) \in Nat
  BY LenProperties
<1>2. \A i \in 1..Len(items) : items[i] \in Operator
  BY ElementOfSeq
<1>3. \A i \in 1..Len(items) : Piece(scope, items[i], below) \in Seq(Pair)
  BY <1>2, PieceTyped
<1>4. Pieces(scope, items, below) \in [1..Len(items) -> Seq(Pair)]
  BY <1>3, Zenon DEF Pieces
<1>5. Pieces(scope, items, below) \in Seq(Seq(Pair))
  BY <1>1, <1>4
<1>6. Len(Pieces(scope, items, below)) = Len(items)
  <2> DEFINE pieces == Pieces(scope, items, below)
  <2>1. DOMAIN pieces = 1..Len(items) /\ DOMAIN pieces = 1..Len(pieces) /\ Len(pieces) \in Nat
    BY <1>4, <1>5, LenProperties
  <2> HIDE DEF pieces
  <2>2. Len(pieces) = Len(items)
    BY <1>1, <2>1
  <2>3. QED
    BY <2>2 DEF pieces
<1>7. QED
  BY <1>1, <1>4, <1>6

LEMMA HeldTyped ==
  ASSUME NEW scope \in Scope, NEW items \in Seq(Operator), NEW below \in Contents
  PROVE  Held(scope, items, below) \in Seq(Pair)
BY PiecesTyped, FlattenAny, HeldIs

LEMMA NothingHeld ==
  ASSUME NEW scope \in Scope, NEW below \in Contents
  PROVE  Held(scope, <<>>, below) = <<>>
<1>1. PICK items \in Seq(Operator) : items = <<>>
  BY EmptySeq
<1>2. Len(items) = 0
  BY <1>1
<1> DEFINE pieces == Pieces(scope, items, below)
<1>3. PICK n : n = Len(items)
  OBVIOUS
<1>4. n \in Nat /\ Len(pieces) = n /\ pieces \in [1..n -> Seq(Pair)]
  BY <1>3, PiecesTyped
<1> HIDE DEF pieces
<1>5. \A i \in 1..n : pieces[i] = <<>>
  BY <1>2, <1>3
<1>6. FlattenSeq(pieces) = <<>>
  BY <1>4, <1>5, FlattenAny
<1>7. QED
  BY <1>1, <1>6, HeldIs DEF pieces

(* The operators from the n-th on.                                          *)
From(items, n) == SubSeq(items, n, Len(items))

LEMMA FromIs ==
  ASSUME NEW items \in Seq(Operator), NEW n \in 1..(Len(items) + 1)
  PROVE  /\ From(items, n) \in Seq(Operator)
         /\ Len(items) \in Nat
         /\ Len(From(items, n)) = Len(items) + 1 - n
         /\ \A i \in 1..(Len(items) + 1 - n) : From(items, n)[i] = items[n + i - 1]
         /\ n = Len(items) + 1 => From(items, n) = <<>>
         /\ From(items, 1) = items
<1>1. Len(items) \in Nat /\ n \in Int /\ Len(items) \in Int
  BY LenProperties
<1>2. \A i \in n..Len(items) : items[i] \in Operator
  BY <1>1, ElementOfSeq
<1>3. /\ From(items, n) \in Seq(Operator)
      /\ Len(From(items, n)) = IF n <= Len(items) THEN Len(items) - n + 1 ELSE 0
      /\ \A i \in 1..(Len(items) - n + 1) : From(items, n)[i] = items[n + i - 1]
  BY <1>1, <1>2, SubSeqProperties DEF From
<1>4. /\ Len(items) - n + 1 = Len(items) + 1 - n
      /\ (n <= Len(items)) \/ (n = Len(items) + 1)
  BY <1>1
<1>5. n = Len(items) + 1 => From(items, n) = <<>>
  <2>1. n = Len(items) + 1 => Len(items) < n
    BY <1>1
  <2>2. QED
    BY <1>1, <2>1, SubSeqEmpty DEF From
<1>6. From(items, 1) = items
  BY SubSeqFull DEF From
<1>7. Len(From(items, n)) = Len(items) + 1 - n
  BY <1>1, <1>3, <1>4
<1>8. \A i \in 1..(Len(items) + 1 - n) : From(items, n)[i] = items[n + i - 1]
  BY <1>3, <1>4, Zenon
<1>9. QED
  BY <1>1, <1>3, <1>5, <1>6, <1>7, <1>8

(* One operator is emitted, and what is behind it, and then the others.     *)
LEMMA HeldUnfolds ==
  ASSUME NEW scope \in Scope, NEW items \in Seq(Operator), NEW below \in Contents,
         NEW n \in 1..Len(items)
  PROVE  Held(scope, From(items, n), below)
           = Then(Piece(scope, items[n], below), Held(scope, From(items, n + 1), below))
<1> DEFINE one == From(items, n)
           two == From(items, n + 1)
           m == Len(items) - n
<1>1. /\ Len(items) \in Nat /\ m \in Nat
      /\ n \in 1..(Len(items) + 1) /\ n + 1 \in 1..(Len(items) + 1)
      /\ m + 1 = Len(items) + 1 - n /\ m = Len(items) + 1 - (n + 1)
  <2>1. Len(items) \in Nat
    BY LenProperties
  <2>2. QED
    BY <2>1
<1>2. /\ one \in Seq(Operator) /\ Len(one) = m + 1
      /\ \A i \in 1..(m + 1) : one[i] = items[n + i - 1]
  BY <1>1, FromIs
<1>3. /\ two \in Seq(Operator) /\ Len(two) = m
      /\ \A i \in 1..m : two[i] = items[(n + 1) + i - 1]
  BY <1>1, FromIs
<1> HIDE DEF one, two, m
<1>4. one[1] = items[n] /\ 1 \in 1..(m + 1)
  BY <1>1, <1>2
<1>5. ASSUME NEW i \in 1..m
      PROVE  two[i] = one[i + 1]
  <2>1. i + 1 \in 1..(m + 1) /\ n + (i + 1) - 1 = (n + 1) + i - 1
    BY <1>1
  <2>2. one[i + 1] = items[n + (i + 1) - 1]
    BY <1>2, <2>1
  <2>3. two[i] = items[(n + 1) + i - 1]
    BY <1>3
  <2>4. QED
    BY <2>1, <2>2, <2>3, Zenon
<1> DEFINE P == Pieces(scope, one, below)
           Q == Pieces(scope, two, below)
<1>6. Len(P) = m + 1 /\ P \in [1..(m + 1) -> Seq(Pair)]
  BY <1>2, PiecesTyped
<1>7. Len(Q) = m /\ Q \in [1..m -> Seq(Pair)]
  BY <1>3, PiecesTyped
<1>8. /\ \A i \in 1..(m + 1) : P[i] = Piece(scope, one[i], below)
      /\ \A i \in 1..m : Q[i] = Piece(scope, two[i], below)
  BY <1>2, <1>3 DEF Pieces
<1> HIDE DEF P, Q
<1>9. \A i \in 1..m : i + 1 \in 1..(m + 1)
  BY <1>1
<1>10. \A i \in 1..m : Q[i] = P[i + 1]
  BY <1>5, <1>8, <1>9
<1>11. FlattenSeq(P) = Then(P[1], FlattenSeq(Q))
  <2>1. Fronted(Pair, m, Q, P)
    BY <1>1, <1>6, <1>7, <1>10 DEF Fronted
  <2>2. QED
    BY <2>1, FlattenBegins
<1>12. P[1] = Piece(scope, items[n], below)
  BY <1>4, <1>8
<1>13. Held(scope, one, below) = FlattenSeq(P) /\ Held(scope, two, below) = FlattenSeq(Q)
  BY HeldIs DEF P, Q
<1>14. QED
  BY <1>11, <1>12, <1>13 DEF one, two

-----------------------------------------------------------------------------
(***************************************************************************)
(* The recursion of FormContent has a solution, and so has its equations.  *)
(***************************************************************************)
Layer(forms, d, below) ==
  [form \in Forms |->
    IF d = 0 \/ forms[form].content # "read" THEN <<>>
    ELSE Held(form, forms[form].items, below)]

Layered(f, forms, n) == f = [d \in 0..n |-> Layer(forms, d, f[d - 1])]

LEMMA FirstLayer ==
  \A forms, one, two : Layer(forms, 0, one) = Layer(forms, 0, two)
BY DEF Layer

LEMMA LayersExist ==
  ASSUME NEW forms, NEW n \in Nat
  PROVE  \E f : Layered(f, forms, n)
<1> DEFINE Bad == {m \in Nat : ~ \E f : Layered(f, forms, m)}
<1> SUFFICES ASSUME Bad # {} PROVE FALSE
  OBVIOUS
<1>1. PICK m \in Bad : \A k \in Bad : m <= k
  <2>1. Bad \in SUBSET Nat
    OBVIOUS
  <2> HIDE DEF Bad
  <2>2. QED
    BY <2>1, LeastElement
<1>2. m \in Nat /\ ~ \E f : Layered(f, forms, m)
  OBVIOUS
<1>3. \E f : \A d \in 0..(m - 1) : f[d] = Layer(forms, d, f[d - 1])
  <2>1. CASE m = 0
    <3>1. 0..(m - 1) = {}
      BY <2>1
    <3>2. QED
      BY <3>1
  <2>2. CASE m # 0
    <3>1. m - 1 \in Nat /\ ~(m <= m - 1)
      BY <1>2, <2>2
    <3>2. \E f : Layered(f, forms, m - 1)
      <4>1. m - 1 \notin Bad
        <5> HIDE DEF Bad
        <5>1. QED
          BY <1>1, <3>1
      <4>2. QED
        BY <3>1, <4>1
    <3>3. PICK f : Layered(f, forms, m - 1)
      BY <3>2
    <3>4. f = [d \in 0..(m - 1) |-> Layer(forms, d, f[d - 1])]
      BY <3>3 DEF Layered
    <3>5. \A d \in 0..(m - 1) : f[d] = Layer(forms, d, f[d - 1])
      BY <3>4
    <3>6. QED
      BY <3>5
  <2>3. QED
    BY <2>1, <2>2
<1>4. PICK f : \A d \in 0..(m - 1) : f[d] = Layer(forms, d, f[d - 1])
  BY <1>3
<1> DEFINE last == Layer(forms, m, f[m - 1])
           G == [d \in 0..m |-> IF d = m THEN last ELSE f[d]]
<1>5. /\ m - 1 # m /\ m \in 0..m
      /\ \A d \in 0..m : d = m \/ d \in 0..(m - 1)
      /\ \A d \in 0..m : d # 0 => d - 1 \in 0..m /\ d - 1 # m
  BY <1>2
<1>6. G[m] = last /\ \A d \in 0..m : d # m => G[d] = f[d]
  BY <1>5
<1> HIDE DEF last, G
<1>7. ASSUME NEW d \in 0..m
      PROVE  G[d] = Layer(forms, d, G[d - 1])
  <2>1. G[d] = Layer(forms, d, f[d - 1])
    BY <1>4, <1>5, <1>6 DEF last
  <2>2. CASE d = 0
    BY <2>1, <2>2, FirstLayer
  <2>3. CASE d # 0
    BY <1>5, <1>6, <2>1, <2>3
  <2>4. QED
    BY <2>2, <2>3
<1>8. G = [d \in 0..m |-> Layer(forms, d, G[d - 1])]
  <2>1. G = [d \in 0..m |-> G[d]]
    BY DEF G
  <2>2. QED
    BY <1>7, <2>1, Zenon
<1>9. Layered(G, forms, m)
  BY <1>8, Zenon DEF Layered
<1>10. QED
  BY <1>2, <1>9

LEMMA ContentSolves ==
  ASSUME NEW forms, NEW d \in 0..MaxFormDepth
  PROVE  FormContent(forms)[d] = Layer(forms, d, FormContent(forms)[d - 1])
<1> DEFINE f == FormContent(forms)
<1>1. f = CHOOSE g : Layered(g, forms, MaxFormDepth)
  BY Zenon DEF FormContent, Layered, Layer
<1>2. \E g : Layered(g, forms, MaxFormDepth)
  BY FormBoundsAreNat, LayersExist
<1> HIDE DEF f
<1>3. Layered(f, forms, MaxFormDepth)
  BY <1>1, <1>2, Zenon
<1>4. f = [e \in 0..MaxFormDepth |-> Layer(forms, e, f[e - 1])]
  BY <1>3 DEF Layered
<1>5. f[d] = Layer(forms, d, f[d - 1])
  BY <1>4
<1>6. QED
  BY <1>5 DEF f

(* What is known of a document's forms.                                     *)
FormsTyped(forms) == \A form \in Forms : forms[form].items \in Seq(Operator)

LEMMA ContentTyped ==
  ASSUME NEW forms, FormsTyped(forms), NEW d \in 0..MaxFormDepth
  PROVE  FormContent(forms)[d] \in Contents
<1> DEFINE f == FormContent(forms)
           Bad == {e \in 0..MaxFormDepth : f[e] \notin Contents}
<1>1. \A e \in 0..MaxFormDepth : f[e] = Layer(forms, e, f[e - 1])
  BY ContentSolves
<1> HIDE DEF f
<1> SUFFICES ASSUME Bad # {} PROVE FALSE
  BY DEF f
<1>2. PICK m \in Bad : \A k \in Bad : m <= k
  <2>1. Bad \in SUBSET Nat
    BY FormBoundsAreNat
  <2> HIDE DEF Bad
  <2>2. QED
    BY <2>1, LeastElement
<1>3. m \in 0..MaxFormDepth /\ f[m] \notin Contents
  OBVIOUS
<1>4. m # 0 => f[m - 1] \in Contents
  <2>1. m # 0 => m - 1 \in 0..MaxFormDepth /\ ~(m <= m - 1)
    BY <1>3, FormBoundsAreNat
  <2>2. m # 0 => m - 1 \notin Bad
    <3> HIDE DEF Bad
    <3>1. QED
      BY <1>2, <2>1
  <2>3. QED
    BY <2>1, <2>2
<1> DEFINE below == f[m - 1]
           Of(form) == IF m = 0 \/ forms[form].content # "read" THEN <<>>
                       ELSE Held(form, forms[form].items, below)
<1>5. ASSUME NEW form \in Forms
      PROVE  Of(form) \in Seq(Pair)
  <2>1. CASE m = 0 \/ forms[form].content # "read"
    BY <2>1
  <2>2. CASE ~(m = 0 \/ forms[form].content # "read")
    <3>1. below \in Contents /\ forms[form].items \in Seq(Operator) /\ form \in Scope
      BY <1>4, <2>2 DEF FormsTyped, Scope
    <3>2. Held(form, forms[form].items, below) \in Seq(Pair)
      BY <3>1, HeldTyped
    <3>3. QED
      BY <2>2, <3>2
  <2>3. QED
    BY <2>1, <2>2
<1>6. f[m] = [form \in Forms |-> Of(form)]
  BY <1>1, <1>3, Zenon DEF Layer
<1> HIDE DEF Of
<1>7. f[m] \in Contents
  BY <1>5, <1>6 DEF Contents
<1>8. QED
  BY <1>3, <1>7

(* The content of one form, one level up.                                   *)
LEMMA ContentIs ==
  ASSUME NEW forms, NEW form \in Forms, NEW d \in 0..MaxFormDepth
  PROVE  /\ d = 0 \/ forms[form].content # "read" => FormContent(forms)[d][form] = <<>>
         /\ d # 0 /\ forms[form].content = "read" =>
              FormContent(forms)[d][form]
                = Held(form, forms[form].items, FormContent(forms)[d - 1])
<1> DEFINE f == FormContent(forms)
           below == f[d - 1]
<1>1. f[d] = Layer(forms, d, below)
  BY ContentSolves
<1> HIDE DEF f, below
<1>2. f[d][form] = IF d = 0 \/ forms[form].content # "read" THEN <<>>
                   ELSE Held(form, forms[form].items, below)
  BY <1>1 DEF Layer
<1>3. QED
  BY <1>2, Zenon DEF f, below

-----------------------------------------------------------------------------
Endless(S, R) == \A s \in S : \E t \in S : <<s, t>> \in R
HasChain(S, R, first, n) ==
  \E chain \in [0..n -> S] :
    chain[0] = first /\ \A k \in 1..n : <<chain[k - 1], chain[k]>> \in R

(* From a set in which each member has a successor, chains of any length.   *)
LEMMA ChainsExist ==
  ASSUME NEW S, NEW R, NEW first \in S, Endless(S, R), NEW n \in Nat
  PROVE  HasChain(S, R, first, n)
<1> DEFINE IsChain(c, m) == c[0] = first /\ \A k \in 1..m : <<c[k - 1], c[k]>> \in R
           Bad == {m \in Nat : ~ \E c \in [0..m -> S] : IsChain(c, m)}
<1> SUFFICES ASSUME Bad # {} PROVE FALSE
  BY DEF HasChain
<1>1. PICK m \in Bad : \A k \in Bad : m <= k
  <2>1. Bad \in SUBSET Nat
    OBVIOUS
  <2> HIDE DEF Bad
  <2>2. QED
    BY <2>1, LeastElement
<1>2. m \in Nat /\ ~ \E c \in [0..m -> S] : IsChain(c, m)
  OBVIOUS
<1>3. CASE m = 0
  <2> DEFINE c == [k \in 0..m |-> first]
  <2>1. c \in [0..m -> S] /\ c[0] = first /\ 1..m = {}
    BY <1>3
  <2>2. QED
    BY <1>2, <2>1
<1>4. CASE m # 0
  <2>1. m - 1 \in Nat /\ ~(m <= m - 1) /\ m \in 0..m /\ m - 1 \in 0..(m - 1) /\ 0 # m
    BY <1>2, <1>4
  <2>2. PICK c \in [0..(m - 1) -> S] : IsChain(c, m - 1)
    <3>1. m - 1 \notin Bad
      <4> HIDE DEF Bad
      <4>1. QED
        BY <1>1, <2>1
    <3>2. QED
      BY <2>1, <3>1
  <2>3. PICK t \in S : <<c[m - 1], t>> \in R
    BY <2>1 DEF Endless
  <2> DEFINE d == [k \in 0..m |-> IF k = m THEN t ELSE c[k]]
  <2>4. d \in [0..m -> S] /\ d[m] = t /\ \A k \in 0..(m - 1) : d[k] = c[k]
    <3>1. \A k \in 0..m : k = m \/ k \in 0..(m - 1)
      BY <2>1
    <3>2. \A k \in 0..(m - 1) : k \in 0..m /\ k # m
      BY <2>1
    <3>3. QED
      BY <2>1, <3>1, <3>2
  <2> HIDE DEF d
  <2>5. d[0] = first
    BY <2>1, <2>2, <2>4
  <2>6. ASSUME NEW k \in 1..m
        PROVE  <<d[k - 1], d[k]>> \in R
    <3>1. k - 1 \in 0..(m - 1) /\ (k # m => k \in 1..(m - 1) /\ k \in 0..(m - 1))
      BY <2>1
    <3>2. CASE k = m
      BY <2>1, <2>3, <2>4, <3>2
    <3>3. CASE k # m
      BY <2>2, <2>4, <3>1, <3>3
    <3>4. QED
      BY <3>2, <3>3
  <2>7. QED
    BY <1>2, <2>4, <2>5, <2>6
<1>5. QED
  BY <1>3, <1>4

-----------------------------------------------------------------------------
(***************************************************************************)
(* What is emitted, what is ahead of the form at hand, and what is left in *)
(* the open calls, make up the full content.                               *)
(***************************************************************************)
Frame == [scope : Scope, items : Seq(Operator), next : Nat \ {0}]

OpenCalls(cs) ==
  /\ cs \in Seq(Frame) /\ Len(cs) \in 1..(MaxFormDepth + 1)
  /\ \A k \in 1..Len(cs) : cs[k].next \in 1..(Len(cs[k].items) + 1)

(* What the forms invoked by the k-th call hold.                            *)
BelowCall(forms, k) == FormContent(forms)[MaxFormDepth + 1 - k]

StillHeld(forms, call, k) ==
  Held(call.scope, From(call.items, call.next), BelowCall(forms, k))

Left(forms, cs, Q) ==
  /\ Q \in [1..Len(cs) -> Seq(Pair)]
  /\ \A k \in 1..Len(cs) :
       Q[k] = Then(StillHeld(forms, cs[k], k), IF k = 1 THEN <<>> ELSE Q[k - 1])

Ahead(forms, cs, form) ==
  IF form = PageScope THEN <<>> ELSE BelowCall(forms, Len(cs))[form]

Told(seq) == [i \in 1..Len(seq) |-> <<seq[i].scope, seq[i].form>>]

Tells(forms, cs, form, seq, all) ==
  \E Q : /\ Left(forms, cs, Q)
         /\ all = Then(Told(seq), Then(Ahead(forms, cs, form), Q[Len(cs)]))

LEMMA BelowTyped ==
  ASSUME NEW forms, FormsTyped(forms), NEW k \in 1..(MaxFormDepth + 1)
  PROVE  BelowCall(forms, k) \in Contents /\ MaxFormDepth + 1 - k \in 0..MaxFormDepth
<1>1. MaxFormDepth + 1 - k \in 0..MaxFormDepth
  BY FormBoundsAreNat
<1>2. QED
  BY <1>1, ContentTyped DEF BelowCall

LEMMA StillTyped ==
  ASSUME NEW forms, FormsTyped(forms), NEW k \in 1..(MaxFormDepth + 1),
         NEW call \in Frame, call.next \in 1..(Len(call.items) + 1)
  PROVE  StillHeld(forms, call, k) \in Seq(Pair)
<1>1. call.scope \in Scope /\ call.items \in Seq(Operator)
  BY DEF Frame
<1>2. From(call.items, call.next) \in Seq(Operator)
  BY <1>1, FromIs
<1>3. QED
  BY <1>1, <1>2, BelowTyped, HeldTyped DEF StillHeld

LEMMA AheadTyped ==
  ASSUME NEW forms, FormsTyped(forms), NEW cs, OpenCalls(cs), NEW form \in Scope
  PROVE  Ahead(forms, cs, form) \in Seq(Pair)
<1>1. Len(cs) \in 1..(MaxFormDepth + 1)
  BY DEF OpenCalls
<1>2. BelowCall(forms, Len(cs)) \in Contents
  BY <1>1, BelowTyped
<1>3. form # PageScope => BelowCall(forms, Len(cs))[form] \in Seq(Pair)
  BY <1>2 DEF Contents, Scope
<1>4. QED
  BY <1>3 DEF Ahead

LEMMA ToldIs ==
  ASSUME NEW seq \in Seq(Entry)
  PROVE  /\ Told(seq) \in Seq(Pair) /\ Len(Told(seq)) = Len(seq) /\ Len(seq) \in Nat
         /\ \A i \in 1..Len(seq) : Told(seq)[i] = <<seq[i].scope, seq[i].form>>
<1>1. Len(seq) \in Nat
  BY LenProperties
<1>2. ASSUME NEW i \in 1..Len(seq)
      PROVE  <<seq[i].scope, seq[i].form>> \in Pair
  <2>1. seq[i] \in Entry
    BY ElementOfSeq
  <2>2. QED
    BY <2>1 DEF Entry, Pair
<1>3. PICK n \in Nat : n = Len(seq)
  BY <1>1
<1>4. Told(seq) = [i \in 1..n |-> <<seq[i].scope, seq[i].form>>]
  BY <1>3 DEF Told
<1> DEFINE P == Pair
           told == Told(seq)
<1>5. told \in [1..n -> P]
  BY <1>2, <1>3, <1>4
<1> HIDE DEF P
<1>6. told \in Seq(P) /\ Len(told) = n
  <2> HIDE DEF told
  <2>1. told \in Seq(P)
    BY <1>5
  <2>2. DOMAIN told = 1..n /\ DOMAIN told = 1..Len(told) /\ Len(told) \in Nat
    BY <1>5, <2>1, LenProperties
  <2>3. QED
    BY <2>1, <2>2
<1>7. \A i \in 1..Len(seq) : told[i] = <<seq[i].scope, seq[i].form>>
  BY <1>3, <1>4
<1>8. QED
  BY <1>1, <1>3, <1>6, <1>7 DEF P

LEMMA ThenIs ==
  ASSUME NEW S, NEW a \in Seq(S), NEW b \in Seq(S)
  PROVE  /\ Then(a, b) \in Seq(S) /\ Len(Then(a, b)) = Len(a) + Len(b)
         /\ \A i \in 1..(Len(a) + Len(b)) :
              Then(a, b)[i] = IF i <= Len(a) THEN a[i] ELSE b[i - Len(a)]
BY ConcatProperties DEF Then

LEMMA ToldAppend ==
  ASSUME NEW seq \in Seq(Entry), NEW e \in Entry
  PROVE  Told(Append(seq, e)) = Then(Told(seq), << <<e.scope, e.form>> >>)
<1> DEFINE more == Append(seq, e)
           pair == <<e.scope, e.form>>
           one == <<pair>>
           whole == Then(Told(seq), one)
<1>1. /\ more \in Seq(Entry) /\ Len(more) = Len(seq) + 1 /\ more[Len(seq) + 1] = e
      /\ \A i \in 1..Len(seq) : more[i] = seq[i]
  BY AppendProperties
<1> HIDE DEF more
<1>2. pair \in Pair
  BY DEF Entry, Pair
<1> HIDE DEF pair
<1>3. one \in Seq(Pair) /\ Len(one) = 1 /\ one[1] = pair
  BY <1>2
<1> HIDE DEF one
<1>4. /\ Told(seq) \in Seq(Pair) /\ Len(Told(seq)) = Len(seq) /\ Len(seq) \in Nat
      /\ \A i \in 1..Len(seq) : Told(seq)[i] = <<seq[i].scope, seq[i].form>>
  BY ToldIs
<1>5. /\ whole \in Seq(Pair) /\ Len(whole) = Len(seq) + 1
      /\ \A i \in 1..(Len(seq) + 1) :
           whole[i] = IF i <= Len(seq) THEN Told(seq)[i] ELSE one[i - Len(seq)]
  <2>1. /\ whole \in Seq(Pair) /\ Len(whole) = Len(Told(seq)) + Len(one)
        /\ \A i \in 1..(Len(Told(seq)) + Len(one)) :
             whole[i] = IF i <= Len(Told(seq)) THEN Told(seq)[i] ELSE one[i - Len(Told(seq))]
    BY <1>3, <1>4, ThenIs
  <2> HIDE DEF whole
  <2>2. QED
    BY <1>3, <1>4, <2>1
<1> HIDE DEF whole
<1>6. /\ Told(more) \in Seq(Pair) /\ Len(Told(more)) = Len(seq) + 1
      /\ \A i \in 1..(Len(seq) + 1) : Told(more)[i] = <<more[i].scope, more[i].form>>
  BY <1>1, ToldIs
<1>7. ASSUME NEW i \in 1..(Len(seq) + 1)
      PROVE  Told(more)[i] = whole[i]
  <2>1. CASE i <= Len(seq)
    <3>1. i \in 1..Len(seq)
      BY <1>4, <2>1
    <3>2. QED
      BY <1>1, <1>4, <1>5, <1>6, <2>1, <3>1
  <2>2. CASE ~(i <= Len(seq))
    <3>1. i = Len(seq) + 1 /\ i - Len(seq) = 1
      BY <1>4, <2>2
    <3>2. Told(more)[i] = pair /\ whole[i] = pair
      BY <1>1, <1>3, <1>5, <1>6, <2>2, <3>1 DEF pair
    <3>3. QED
      BY <3>2
  <2>3. QED
    BY <2>1, <2>2
<1>8. Told(more) = whole
  BY <1>5, <1>6, <1>7, SeqEqual
<1>9. QED
  BY <1>8 DEF more, whole, one, pair

(* The page's operators, before any is emitted.                             *)
LEMMA TellsStart ==
  ASSUME NEW forms, FormsTyped(forms), NEW items \in Seq(Operator)
  PROVE  Tells(forms, <<Call(PageScope, items)>>, PageScope, <<>>,
               Held(PageScope, items, FormContent(forms)[MaxFormDepth]))
<1> DEFINE call == Call(PageScope, items)
           cs == <<call>>
           all == Held(PageScope, items, FormContent(forms)[MaxFormDepth])
           Q == [k \in 1..Len(cs) |-> all]
<1>1. /\ call.scope = PageScope /\ call.items = items /\ call.next = 1
      /\ Len(cs) = 1 /\ cs[1] = call
  BY DEF Call
<1>2. FormContent(forms)[MaxFormDepth] = BelowCall(forms, 1)
  BY FormBoundsAreNat DEF BelowCall
<1>3. BelowCall(forms, 1) \in Contents
  BY FormBoundsAreNat, BelowTyped
<1>4. PageScope \in Scope
  BY DEF Scope
<1> HIDE DEF call
<1>5. StillHeld(forms, call, 1) = all
  <2>1. From(items, 1) = items
    BY SubSeqFull DEF From
  <2>2. QED
    BY <1>1, <1>2, <2>1 DEF StillHeld
<1>6. all \in Seq(Pair)
  BY <1>2, <1>3, <1>4, HeldTyped
<1> HIDE DEF all, cs
<1>7. Left(forms, cs, Q)
  <2>1. Q \in [1..Len(cs) -> Seq(Pair)] /\ Q[1] = all
    BY <1>1, <1>6
  <2>2. \A k \in 1..Len(cs) : k = 1
    BY <1>1
  <2> HIDE DEF Q
  <2>3. Q[1] = Then(StillHeld(forms, cs[1], 1), <<>>)
    BY <1>1, <1>5, <1>6, <2>1, ThenNothing
  <2>4. \A k \in 1..Len(cs) :
          Q[k] = Then(StillHeld(forms, cs[k], k), IF k = 1 THEN <<>> ELSE Q[k - 1])
    BY <2>2, <2>3
  <2>5. QED
    BY <2>1, <2>4 DEF Left
<1>8. Q[Len(cs)] = all
  BY <1>1
<1> HIDE DEF Q
<1>9. Told(<<>>) = <<>>
  <2>1. PICK seq \in Seq(Entry) : seq = <<>>
    BY EmptySeq
  <2>2. Told(seq) \in Seq(Pair) /\ Len(Told(seq)) = 0
    BY <2>1, ToldIs
  <2> DEFINE told == Told(seq)
  <2>3. told = <<>>
    <3> HIDE DEF told
    <3>1. (told \in Seq(Pair) /\ Len(told) = 0) => told = <<>>
      BY EmptySeq
    <3>2. QED
      BY <2>2, <3>1 DEF told
  <2>4. QED
    BY <2>1, <2>3
<1>10. Then(<<>>, Then(<<>>, all)) = all
  BY <1>6, ThenNothing
<1>11. Ahead(forms, cs, PageScope) = <<>>
  BY DEF Ahead
<1>12. Tells(forms, cs, PageScope, <<>>, all)
  BY <1>7, <1>8, <1>9, <1>10, <1>11 DEF Tells
<1>13. QED
  BY <1>12 DEF cs, call, all

(* A form that holds nothing is passed over.                                *)
LEMMA TellsSkip ==
  ASSUME NEW forms, NEW cs, OpenCalls(cs), NEW form \in Forms, NEW seq, NEW all,
         Tells(forms, cs, form, seq, all), forms[form].content # "read"
  PROVE  Tells(forms, cs, PageScope, seq, all)
<1>1. form # PageScope /\ Len(cs) \in 1..(MaxFormDepth + 1)
  BY PageScopeIsNoForm DEF OpenCalls
<1>2. MaxFormDepth + 1 - Len(cs) \in 0..MaxFormDepth
  BY <1>1, FormBoundsAreNat
<1>3. BelowCall(forms, Len(cs))[form] = <<>>
  BY <1>2, ContentIs DEF BelowCall
<1>4. Ahead(forms, cs, form) = Ahead(forms, cs, PageScope)
  BY <1>1, <1>3 DEF Ahead
<1>5. QED
  BY <1>4 DEF Tells

(* A readable form is entered: its content is ahead, then left in its call.  *)
LEMMA TellsDescend ==
  ASSUME NEW forms, FormsTyped(forms), NEW cs, OpenCalls(cs), NEW form \in Forms,
         NEW seq, NEW all, Tells(forms, cs, form, seq, all),
         forms[form].content = "read", Len(cs) <= MaxFormDepth, NEW more,
         more \in Seq(Frame), Len(more) = Len(cs) + 1,
         more[Len(cs) + 1] = Call(form, forms[form].items),
         \A k \in 1..Len(cs) : more[k] = cs[k]
  PROVE  Tells(forms, more, PageScope, seq, all)
<1> DEFINE n == Len(cs)
           call == Call(form, forms[form].items)
<1>1. n \in 1..MaxFormDepth /\ n \in Nat /\ form # PageScope /\ MaxFormDepth \in Nat
  BY FormBoundsAreNat, PageScopeIsNoForm DEF OpenCalls
<1>2. call.scope = form /\ call.items = forms[form].items /\ call.next = 1
  BY DEF Call
<1>3. forms[form].items \in Seq(Operator) /\ form \in Scope
  BY DEF FormsTyped, Scope
<1>4. PICK Q : Left(forms, cs, Q) /\ all = Then(Told(seq), Then(Ahead(forms, cs, form), Q[n]))
  BY DEF Tells
<1>5. /\ Q \in [1..n -> Seq(Pair)]
      /\ \A k \in 1..n :
           Q[k] = Then(StillHeld(forms, cs[k], k), IF k = 1 THEN <<>> ELSE Q[k - 1])
  BY <1>4 DEF Left
<1>6. Len(more) = n + 1 /\ more[n + 1] = call /\ \A k \in 1..n : more[k] = cs[k]
  OBVIOUS
<1> HIDE DEF n, call
<1>7. n + 1 \in 1..(MaxFormDepth + 1) /\ MaxFormDepth + 1 - (n + 1) = (MaxFormDepth + 1 - n) - 1
      /\ MaxFormDepth + 1 - n \in 0..MaxFormDepth /\ MaxFormDepth + 1 - n # 0
  BY <1>1
<1>8. StillHeld(forms, call, n + 1) = BelowCall(forms, n)[form]
  <2>1. FormContent(forms)[MaxFormDepth + 1 - n][form]
          = Held(form, forms[form].items, FormContent(forms)[(MaxFormDepth + 1 - n) - 1])
    BY <1>7, ContentIs
  <2>2. From(forms[form].items, 1) = forms[form].items
    BY <1>3, SubSeqFull DEF From
  <2>3. StillHeld(forms, call, n + 1) = Held(form, forms[form].items, BelowCall(forms, n + 1))
    BY <1>2, <2>2 DEF StillHeld
  <2>4. BelowCall(forms, n + 1) = FormContent(forms)[(MaxFormDepth + 1 - n) - 1]
    BY <1>7 DEF BelowCall
  <2>5. QED
    BY <2>1, <2>3, <2>4 DEF BelowCall
<1>9. BelowCall(forms, n)[form] \in Seq(Pair) /\ Q[n] \in Seq(Pair)
  <2>1. BelowCall(forms, n) \in Contents
    <3>1. n \in 1..(MaxFormDepth + 1)
      BY <1>1
    <3>2. QED
      BY <3>1, BelowTyped
  <2>2. QED
    BY <1>1, <1>5, <2>1 DEF Contents
<1> DEFINE top == Then(BelowCall(forms, n)[form], Q[n])
           R == [k \in 1..(n + 1) |-> IF k = n + 1 THEN top ELSE Q[k]]
<1>10. top \in Seq(Pair)
  BY <1>9, ThenTyped
<1> HIDE DEF top
<1>11. /\ R \in [1..(n + 1) -> Seq(Pair)] /\ R[n + 1] = top
       /\ \A k \in 1..n : R[k] = Q[k]
  <2>1. /\ \A k \in 1..(n + 1) : k = n + 1 \/ k \in 1..n
        /\ n + 1 \in 1..(n + 1) /\ \A k \in 1..n : k # n + 1 /\ k \in 1..(n + 1)
    BY <1>1
  <2>2. QED
    BY <1>5, <1>10, <2>1
<1> HIDE DEF R
<1>12. Left(forms, more, R)
  <2>1. ASSUME NEW k \in 1..(n + 1)
        PROVE  R[k] = Then(StillHeld(forms, more[k], k), IF k = 1 THEN <<>> ELSE R[k - 1])
    <3>1. CASE k = n + 1
      <4>1. k # 1 /\ k - 1 = n /\ n \in 1..n
        BY <1>1, <3>1
      <4>2. R[k - 1] = Q[n] /\ more[k] = call
        BY <1>6, <1>11, <3>1, <4>1
      <4>3. StillHeld(forms, more[k], k) = BelowCall(forms, n)[form]
        BY <1>8, <3>1, <4>2
      <4>4. R[k] = Then(BelowCall(forms, n)[form], Q[n])
        BY <1>11, <3>1 DEF top
      <4>5. QED
        BY <4>1, <4>2, <4>3, <4>4
    <3>2. CASE k # n + 1
      <4>1. k \in 1..n /\ (k # 1 => k - 1 \in 1..n)
        BY <1>1, <3>2
      <4>2. R[k] = Q[k] /\ (k # 1 => R[k - 1] = Q[k - 1]) /\ more[k] = cs[k]
        BY <1>6, <1>11, <4>1
      <4>3. Q[k] = Then(StillHeld(forms, cs[k], k), IF k = 1 THEN <<>> ELSE Q[k - 1])
        BY <1>5, <4>1
      <4>4. (IF k = 1 THEN <<>> ELSE R[k - 1]) = (IF k = 1 THEN <<>> ELSE Q[k - 1])
        BY <4>2
      <4>5. QED
        BY <4>2, <4>3, <4>4
    <3>3. QED
      BY <3>1, <3>2
  <2>2. QED
    BY <1>6, <1>11, <2>1, Zenon DEF Left
<1>13. Ahead(forms, cs, form) = BelowCall(forms, n)[form] /\ Ahead(forms, more, PageScope) = <<>>
  BY <1>1 DEF Ahead, n
<1>14. Then(Ahead(forms, more, PageScope), R[Len(more)]) = Then(Ahead(forms, cs, form), Q[n])
  <2>1. R[Len(more)] = top
    BY <1>6, <1>11
  <2>2. Then(<<>>, top) = top
    BY <1>10, ThenNothing
  <2>3. QED
    BY <1>13, <2>1, <2>2 DEF top
<1>15. QED
  BY <1>4, <1>12, <1>14 DEF Tells

(* A call with nothing left is closed.                                      *)
LEMMA TellsReturn ==
  ASSUME NEW forms, FormsTyped(forms), NEW cs, OpenCalls(cs), Len(cs) > 1,
         cs[Len(cs)].next > Len(cs[Len(cs)].items),
         NEW seq, NEW all, Tells(forms, cs, PageScope, seq, all),
         NEW fewer, Len(fewer) = Len(cs) - 1, \A k \in 1..(Len(cs) - 1) : fewer[k] = cs[k]
  PROVE  Tells(forms, fewer, PageScope, seq, all)
<1> DEFINE n == Len(cs)
           m == n - 1
           call == cs[n]
<1>1. /\ n \in 1..(MaxFormDepth + 1) /\ n # 1 /\ n \in Nat /\ m \in 1..n /\ m \in Nat
      /\ n \in 1..n /\ cs \in Seq(Frame)
  BY FormBoundsAreNat DEF OpenCalls
<1>2. PICK Q : Left(forms, cs, Q) /\ all = Then(Told(seq), Then(Ahead(forms, cs, PageScope), Q[n]))
  BY DEF Tells
<1>3. /\ Q \in [1..n -> Seq(Pair)]
      /\ \A k \in 1..n :
           Q[k] = Then(StillHeld(forms, cs[k], k), IF k = 1 THEN <<>> ELSE Q[k - 1])
  BY <1>2 DEF Left
<1>4. Len(fewer) = m /\ \A k \in 1..m : fewer[k] = cs[k]
  OBVIOUS
<1>5. call \in Frame /\ call.next \in 1..(Len(call.items) + 1) /\ call.next > Len(call.items)
  BY <1>1, ElementOfSeq DEF OpenCalls
<1> HIDE DEF n, m, call
<1>6. StillHeld(forms, call, n) = <<>>
  <2>1. call.scope \in Scope /\ call.items \in Seq(Operator)
    BY <1>5 DEF Frame
  <2>2. call.next = Len(call.items) + 1
    <3>1. Len(call.items) \in Nat
      BY <2>1, LenProperties
    <3>2. QED
      BY <1>5, <3>1
  <2>3. From(call.items, call.next) = <<>>
    BY <1>5, <2>1, <2>2, FromIs
  <2>4. BelowCall(forms, n) \in Contents
    BY <1>1, BelowTyped
  <2>5. QED
    BY <2>1, <2>3, <2>4, NothingHeld DEF StillHeld
<1>7. Q[n] = Q[m]
  <2>1. Q[n] = Then(StillHeld(forms, cs[n], n), Q[n - 1])
    BY <1>1, <1>3
  <2>2. Q[m] \in Seq(Pair)
    BY <1>1, <1>3
  <2>3. QED
    BY <1>6, <2>1, <2>2, ThenNothing DEF call, m
<1> DEFINE R == [k \in 1..m |-> Q[k]]
<1>8. R \in [1..m -> Seq(Pair)] /\ \A k \in 1..m : R[k] = Q[k]
  <2>1. \A k \in 1..m : k \in 1..n
    BY <1>1
  <2>2. QED
    BY <1>3, <2>1
<1> HIDE DEF R
<1>9. Left(forms, fewer, R)
  <2>1. ASSUME NEW k \in 1..m
        PROVE  R[k] = Then(StillHeld(forms, fewer[k], k), IF k = 1 THEN <<>> ELSE R[k - 1])
    <3>1. k \in 1..n /\ (k # 1 => k - 1 \in 1..m)
      BY <1>1
    <3>2. R[k] = Q[k] /\ (k # 1 => R[k - 1] = Q[k - 1]) /\ fewer[k] = cs[k]
      BY <1>4, <1>8, <3>1
    <3>3. Q[k] = Then(StillHeld(forms, cs[k], k), IF k = 1 THEN <<>> ELSE Q[k - 1])
      BY <1>3, <3>1
    <3>4. (IF k = 1 THEN <<>> ELSE R[k - 1]) = (IF k = 1 THEN <<>> ELSE Q[k - 1])
      BY <3>2
    <3>5. QED
      BY <3>2, <3>3, <3>4
  <2>2. QED
    BY <1>4, <1>8, <2>1, Zenon DEF Left
<1>10. R[Len(fewer)] = Q[n]
  <2>1. m \in 1..m
    BY <1>1
  <2>2. QED
    BY <1>4, <1>7, <1>8, <2>1
<1>11. Ahead(forms, fewer, PageScope) = Ahead(forms, cs, PageScope)
  BY DEF Ahead
<1>12. QED
  BY <1>2, <1>9, <1>10, <1>11 DEF Tells

(* One operator is emitted: what it stands for is ahead, the rest is left.  *)
LEMMA TellsEmit ==
  ASSUME NEW forms, FormsTyped(forms), NEW cs, OpenCalls(cs),
         cs[Len(cs)].next <= Len(cs[Len(cs)].items),
         NEW seq \in Seq(Entry), NEW all, Tells(forms, cs, PageScope, seq, all),
         NEW e \in Entry, e.scope = cs[Len(cs)].scope,
         e.form = cs[Len(cs)].items[cs[Len(cs)].next],
         NEW more, Len(more) = Len(cs), \A k \in 1..Len(cs) : k # Len(cs) => more[k] = cs[k],
         more[Len(cs)].scope = cs[Len(cs)].scope, more[Len(cs)].items = cs[Len(cs)].items,
         more[Len(cs)].next = cs[Len(cs)].next + 1
  PROVE  Tells(forms, more, IF e.form \in Forms THEN e.form ELSE PageScope, Append(seq, e), all)
<1> DEFINE n == Len(cs)
           call == cs[n]
           next == more[n]
           item == e.form
           form == IF item \in Forms THEN item ELSE PageScope
<1>1. n \in 1..(MaxFormDepth + 1) /\ n \in 1..n /\ n \in Nat /\ cs \in Seq(Frame)
  BY FormBoundsAreNat DEF OpenCalls
<1>2. PICK Q : Left(forms, cs, Q) /\ all = Then(Told(seq), Then(Ahead(forms, cs, PageScope), Q[n]))
  BY DEF Tells
<1>3. /\ Q \in [1..n -> Seq(Pair)]
      /\ \A k \in 1..n :
           Q[k] = Then(StillHeld(forms, cs[k], k), IF k = 1 THEN <<>> ELSE Q[k - 1])
  BY <1>2 DEF Left
<1>4. /\ call \in Frame /\ call.next \in 1..(Len(call.items) + 1) /\ call.next <= Len(call.items)
  BY <1>1, ElementOfSeq DEF OpenCalls
<1>5. /\ Len(more) = n /\ \A k \in 1..n : k # n => more[k] = cs[k]
      /\ next.scope = call.scope /\ next.items = call.items /\ next.next = call.next + 1
      /\ e.scope = call.scope /\ item = call.items[call.next]
  OBVIOUS
<1>6. item \in Operator
  BY DEF Entry
<1> HIDE DEF n, call, next, item
<1>7. /\ call.scope \in Scope /\ call.items \in Seq(Operator) /\ call.next \in 1..Len(call.items)
      /\ call.next + 1 \in 1..(Len(call.items) + 1)
  <2>1. call.scope \in Scope /\ call.items \in Seq(Operator) /\ Len(call.items) \in Nat
    BY <1>4, LenProperties DEF Frame
  <2>2. QED
    BY <1>4, <2>1
<1> DEFINE below == BelowCall(forms, n)
           was == StillHeld(forms, call, n)
           is == StillHeld(forms, next, n)
           prev == IF n = 1 THEN <<>> ELSE Q[n - 1]
           pair == << <<call.scope, item>> >>
           ahead == Behind(item, below)
           top == Then(is, prev)
<1>8. below \in Contents
  BY <1>1, BelowTyped
<1>9. was = Then(Then(pair, ahead), is)
  <2>1. was = Held(call.scope, From(call.items, call.next), below)
    BY DEF StillHeld
  <2>2. is = Held(call.scope, From(call.items, call.next + 1), below)
    BY <1>5 DEF StillHeld
  <2>3. Then(pair, ahead) = Piece(call.scope, item, below)
    BY DEF Piece
  <2> HIDE DEF was, is, below, pair, ahead
  <2>4. QED
    BY <1>5, <1>7, <1>8, <2>1, <2>2, <2>3, HeldUnfolds
<1>10. pair \in Seq(Pair) /\ ahead \in Seq(Pair)
  <2> HIDE DEF below
  <2>1. QED
    BY <1>6, <1>7, <1>8, PieceTyped
<1>11. is \in Seq(Pair)
  <2>1. From(call.items, call.next + 1) \in Seq(Operator)
    BY <1>7, FromIs
  <2>2. Held(call.scope, From(call.items, call.next + 1), below) \in Seq(Pair)
    <3> HIDE DEF below
    <3>1. QED
      BY <1>7, <1>8, <2>1, HeldTyped
  <2>3. QED
    BY <1>5, <2>2 DEF StillHeld
<1>12. prev \in Seq(Pair)
  <2>1. n # 1 => n - 1 \in 1..n
    BY <1>1
  <2>2. QED
    BY <1>3, <2>1
<1>13. Q[n] = Then(was, prev)
  BY <1>1, <1>3 DEF call
<1> HIDE DEF was, is, prev, pair, ahead, below
<1>14. top \in Seq(Pair)
  BY <1>11, <1>12, ThenTyped
<1> DEFINE R == [k \in 1..n |-> IF k = n THEN top ELSE Q[k]]
<1> HIDE DEF top
<1>15. R \in [1..n -> Seq(Pair)] /\ R[n] = top /\ \A k \in 1..n : k # n => R[k] = Q[k]
  BY <1>1, <1>3, <1>14
<1> HIDE DEF R
<1>16. Left(forms, more, R)
  <2>1. ASSUME NEW k \in 1..n
        PROVE  R[k] = Then(StillHeld(forms, more[k], k), IF k = 1 THEN <<>> ELSE R[k - 1])
    <3>1. k # 1 => k - 1 \in 1..n /\ k - 1 # n
      BY <1>1
    <3>2. (IF k = 1 THEN <<>> ELSE R[k - 1]) = (IF k = 1 THEN <<>> ELSE Q[k - 1])
      BY <1>15, <3>1
    <3>3. CASE k = n
      <4>1. (IF k = 1 THEN <<>> ELSE Q[k - 1]) = prev
        BY <3>3 DEF prev
      <4>2. StillHeld(forms, more[k], k) = is
        BY <3>3 DEF is, next
      <4>3. R[k] = Then(is, prev)
        BY <1>15, <3>3 DEF top
      <4>4. QED
        BY <3>2, <4>1, <4>2, <4>3, Zenon
    <3>4. CASE k # n
      <4>1. R[k] = Q[k] /\ more[k] = cs[k]
        BY <1>5, <1>15, <3>4
      <4>2. Q[k] = Then(StillHeld(forms, cs[k], k), IF k = 1 THEN <<>> ELSE Q[k - 1])
        BY <1>3
      <4>3. QED
        BY <3>2, <4>1, <4>2, Zenon
    <3>5. QED
      BY <3>3, <3>4
  <2>2. QED
    BY <1>5, <1>15, <2>1, Zenon DEF Left
<1>17. Q[n] = Then(pair, Then(ahead, top))
  <2>1. Then(Then(Then(pair, ahead), is), prev) = Then(Then(pair, ahead), Then(is, prev))
    <3>1. Then(pair, ahead) \in Seq(Pair)
      BY <1>10, ThenTyped
    <3>2. QED
      BY <1>11, <1>12, <3>1, ThenThen
  <2>2. Then(Then(pair, ahead), top) = Then(pair, Then(ahead, top))
    BY <1>10, <1>14, ThenThen
  <2>3. QED
    BY <1>9, <1>13, <2>1, <2>2, Zenon DEF top
<1>18. all = Then(Told(Append(seq, e)), Then(ahead, top))
  <2>1. Then(ahead, top) \in Seq(Pair) /\ Told(seq) \in Seq(Pair)
    BY <1>10, <1>14, ThenTyped, ToldIs
  <2>2. Ahead(forms, cs, PageScope) = <<>>
    BY DEF Ahead
  <2>3. Q[n] \in Seq(Pair)
    BY <1>1, <1>3
  <2>4. Then(<<>>, Q[n]) = Q[n]
    BY <2>3, ThenNothing
  <2>5. all = Then(Told(seq), Then(pair, Then(ahead, top)))
    BY <1>2, <1>17, <2>2, <2>4
  <2>6. Then(Then(Told(seq), pair), Then(ahead, top)) = Then(Told(seq), Then(pair, Then(ahead, top)))
    BY <1>10, <2>1, ThenThen
  <2>7. Told(Append(seq, e)) = Then(Told(seq), pair)
    BY <1>5, ToldAppend DEF pair, item
  <2>8. QED
    BY <2>5, <2>6, <2>7, Zenon
<1>19. ahead = Ahead(forms, more, form)
  <2>1. item \in Forms => item # PageScope
    BY PageScopeIsNoForm
  <2>2. QED
    BY <1>5, <2>1 DEF Ahead, Behind, ahead, below
<1>20. R[Len(more)] = top
  BY <1>5, <1>15
<1>21. Tells(forms, more, form, Append(seq, e), all)
  BY <1>16, <1>18, <1>19, <1>20 DEF Tells
<1>22. QED
  BY <1>21 DEF item

(* At the end of the page's own call everything is told.                    *)
LEMMA TellsAll ==
  ASSUME NEW forms, FormsTyped(forms), NEW cs, OpenCalls(cs), Len(cs) = 1,
         cs[1].next > Len(cs[1].items),
         NEW seq \in Seq(Entry), NEW all, Tells(forms, cs, PageScope, seq, all)
  PROVE  all = Told(seq)
<1>1. PICK Q : Left(forms, cs, Q) /\ all = Then(Told(seq), Then(Ahead(forms, cs, PageScope), Q[1]))
  BY DEF Tells
<1> DEFINE call == cs[1]
<1>2. Q[1] = Then(StillHeld(forms, call, 1), <<>>)
  BY <1>1 DEF Left
<1>3. call \in Frame /\ call.next \in 1..(Len(call.items) + 1) /\ call.next > Len(call.items)
  <2>1. cs \in Seq(Frame) /\ 1 \in 1..Len(cs)
    BY DEF OpenCalls
  <2>2. call \in Frame
    BY <2>1, ElementOfSeq
  <2>3. QED
    BY <2>1, <2>2 DEF OpenCalls
<1> HIDE DEF call
<1>4. call.scope \in Scope /\ call.items \in Seq(Operator) /\ Len(call.items) \in Nat
  BY <1>3, LenProperties DEF Frame
<1>5. call.next = Len(call.items) + 1
  BY <1>3, <1>4
<1>6. From(call.items, call.next) = <<>>
  BY <1>3, <1>4, <1>5, FromIs
<1>7. BelowCall(forms, 1) \in Contents
  BY BelowTyped, FormBoundsAreNat
<1>8. StillHeld(forms, call, 1) = <<>>
  BY <1>4, <1>6, <1>7, NothingHeld DEF StillHeld
<1>9. Then(<<>>, <<>>) = <<>> /\ Then(Told(seq), <<>>) = Told(seq)
  <2>1. <<>> \in Seq(Pair)
    BY EmptySeq
  <2>2. Told(seq) \in Seq(Pair)
    BY ToldIs
  <2>3. QED
    BY <2>1, <2>2, ThenNothing
<1>10. QED
  BY <1>1, <1>2, <1>8, <1>9 DEF Ahead

(* What is told is the beginning of the full content: no more of it invokes *)
(* a form than of all.                                                      *)
LEMMA ToldCounts ==
  ASSUME NEW forms, FormsTyped(forms), NEW cs, OpenCalls(cs), NEW form \in Scope,
         NEW seq \in Seq(Entry), NEW all, Tells(forms, cs, form, seq, all)
  PROVE  Cardinality(FormEntries(seq)) <= Invocations(all) /\ Invocations(all) \in Nat
<1> DEFINE n == Len(cs)
<1>1. PICK Q : Left(forms, cs, Q) /\ all = Then(Told(seq), Then(Ahead(forms, cs, form), Q[n]))
  BY DEF Tells
<1>2. n \in 1..n
  BY FormBoundsAreNat DEF OpenCalls
<1>3. Q[n] \in Seq(Pair)
  BY <1>1, <1>2 DEF Left
<1> DEFINE rest == Then(Ahead(forms, cs, form), Q[n])
           told == Told(seq)
<1>4. rest \in Seq(Pair)
  BY <1>3, AheadTyped, ThenTyped
<1>5. /\ told \in Seq(Pair) /\ Len(told) = Len(seq) /\ Len(seq) \in Nat
      /\ \A i \in 1..Len(seq) : told[i] = <<seq[i].scope, seq[i].form>>
  BY ToldIs
<1>6. all = Then(told, rest)
  BY <1>1
<1> HIDE DEF rest, told
<1>7. /\ all \in Seq(Pair) /\ Len(all) = Len(told) + Len(rest) /\ Len(rest) \in Nat
      /\ \A i \in 1..(Len(told) + Len(rest)) :
           all[i] = IF i <= Len(told) THEN told[i] ELSE rest[i - Len(told)]
  BY <1>4, <1>5, <1>6, ThenIs, LenProperties
<1>8. Len(all) \in Nat /\ \A i \in 1..Len(seq) : i \in 1..Len(all) /\ all[i][2] = seq[i].form
  <2>1. \A i \in 1..Len(seq) : i \in 1..(Len(told) + Len(rest)) /\ i <= Len(told)
    BY <1>5, <1>7
  <2>2. \A i \in 1..Len(seq) : all[i] = <<seq[i].scope, seq[i].form>>
    BY <1>5, <1>7, <2>1
  <2>3. QED
    BY <1>5, <1>7, <2>1, <2>2
<1> DEFINE more == {i \in 1..Len(all) : all[i][2] \in Forms}
<1>9. IsFiniteSet(more) /\ Cardinality(more) \in Nat
  <2>1. more \in SUBSET (1..Len(all))
    OBVIOUS
  <2>2. IsFiniteSet(1..Len(all))
    BY <1>8, FS_Interval
  <2> HIDE DEF more
  <2>3. IsFiniteSet(more)
    BY <2>1, <2>2, FS_Subset
  <2>4. QED
    BY <2>3, FS_CardinalityType
<1>10. FormEntries(seq) \subseteq more
  BY <1>8 DEF FormEntries
<1> HIDE DEF more
<1>11. Cardinality(FormEntries(seq)) <= Cardinality(more)
  BY <1>9, <1>10, FS_Subset
<1>12. Invocations(all) = Cardinality(more)
  BY DEF Invocations, more
<1>13. QED
  BY <1>9, <1>11, <1>12

-----------------------------------------------------------------------------
(***************************************************************************)
(* Each open call is that of a form invoked by the call it was opened      *)
(* from; so where invocations do not nest too deep no form is refused for  *)
(* its depth, nor, since there is no cycle then, for being open already.   *)
(***************************************************************************)
Opened(forms, items, cs) ==
  /\ cs[1].items = items
  /\ \A k \in 1..Len(cs) : cs[k].next \in 1..(Len(cs[k].items) + 1)
  /\ \A k \in 2..Len(cs) : /\ cs[k].scope \in FormItems(cs[k - 1].items)
                           /\ forms[cs[k].scope].content = "read"
                           /\ cs[k].items = forms[cs[k].scope].items

Invited(cs, form) == form = PageScope \/ form \in FormItems(cs[Len(cs)].items)

CallsInvoked ==
  stage = "expand" => Opened(doc.forms, joined, calls) /\ Invited(calls, expanding)

Fits == Shallow(joined) /\ Invocations(FullContent(joined)) <= MaxExpansions

ContentTold ==
  stage = "expand" /\ Fits =>
    /\ Cardinality(Refusals(form_skipped)) = 0
    /\ Tells(doc.forms, calls, expanding, entries, FullContent(joined))

SInv == CallsInvoked /\ ContentTold

LEMMA DocumentForms ==
  ASSUME TypeOK
  PROVE  FormsTyped(doc.forms)
<1>1. doc.forms \in [Forms -> FormSource]
  BY DEF TypeOK, ContentTypeOK, DocumentShape
<1>2. \A form \in Forms : doc.forms[form] \in FormSource
  BY <1>1
<1>3. QED
  BY <1>2 DEF FormsTyped, FormSource

LEMMA CallsOpen ==
  ASSUME TypeOK, CallsNest, CallsInvoked, stage = "expand"
  PROVE  /\ OpenCalls(calls) /\ Len(calls) \in Nat \ {0} /\ calls \in Seq(Frame)
         /\ calls # <<>> /\ FormTypeOK /\ ContentTypeOK
<1>1. FormTypeOK /\ ContentTypeOK /\ calls # <<>> /\ Len(calls) <= MaxFormDepth + 1
  BY DEF TypeOK, CallsNest
<1>2. calls \in Seq(Frame) /\ Len(calls) \in Nat \ {0}
  BY <1>1, CurrentType DEF FormTypeOK, Frame
<1>3. \A k \in 1..Len(calls) : calls[k].next \in 1..(Len(calls[k].items) + 1)
  BY DEF CallsInvoked, Opened
<1>4. Len(calls) \in 1..(MaxFormDepth + 1)
  BY <1>1, <1>2, FormBoundsAreNat
<1>5. QED
  BY <1>1, <1>2, <1>3, <1>4 DEF OpenCalls

(* The form at hand, or the next open call, is invoked by each open form.   *)
LEMMA OpenInvokes ==
  ASSUME TypeOK, CallsNest, CallsInvoked, stage = "expand", expanding # PageScope
  PROVE  /\ expanding \in Forms
         /\ \A k \in 2..Len(calls) :
              /\ calls[k].scope \in Forms
              /\ k < Len(calls) => Invokes(calls[k].scope, calls[k + 1].scope)
              /\ k = Len(calls) => Invokes(calls[k].scope, expanding)
         /\ Len(calls) > 1 => calls[2].scope \in FormItems(joined)
         /\ Len(calls) = 1 => expanding \in FormItems(joined)
<1>1. Len(calls) \in Nat \ {0} /\ Opened(doc.forms, joined, calls) /\ Invited(calls, expanding)
  BY CallsOpen DEF CallsInvoked
<1>2. expanding \in FormItems(calls[Len(calls)].items) /\ expanding \in Forms
  BY <1>1 DEF Invited, FormItems
<1>3. \A k \in 2..Len(calls) :
        /\ calls[k].scope \in FormItems(calls[k - 1].items) /\ calls[k].scope \in Forms
        /\ doc.forms[calls[k].scope].content = "read"
        /\ calls[k].items = doc.forms[calls[k].scope].items
  BY <1>1 DEF Opened, FormItems
<1>4. ASSUME NEW k \in 2..Len(calls), k < Len(calls)
      PROVE  Invokes(calls[k].scope, calls[k + 1].scope)
  <2>1. k + 1 \in 2..Len(calls) /\ (k + 1) - 1 = k
    BY <1>1, <1>4
  <2>2. calls[k + 1].scope \in FormItems(calls[k].items)
    BY <1>3, <2>1
  <2>3. QED
    BY <1>3, <2>2 DEF Invokes
<1>5. ASSUME NEW k \in 2..Len(calls), k = Len(calls)
      PROVE  Invokes(calls[k].scope, expanding)
  BY <1>2, <1>3, <1>5 DEF Invokes
<1>6. Len(calls) > 1 => calls[2].scope \in FormItems(joined)
  <2>1. calls[1].items = joined
    BY <1>1 DEF Opened
  <2>2. Len(calls) > 1 => 2 \in 2..Len(calls) /\ 2 - 1 = 1
    BY <1>1
  <2>3. QED
    BY <1>3, <2>1, <2>2
<1>7. Len(calls) = 1 => expanding \in FormItems(joined)
  BY <1>1, <1>2 DEF Opened
<1>8. QED
  BY <1>2, <1>3, <1>4, <1>5, <1>6, <1>7

(* A form that is open already closes a cycle.                              *)
LEMMA NoCycle ==
  ASSUME TypeOK, CallsNest, CallsInvoked, stage = "expand", expanding # PageScope,
         Shallow(joined)
  PROVE  expanding \notin Active
<1> SUFFICES ASSUME expanding \in Active PROVE FALSE
  OBVIOUS
<1>1. /\ \A k \in 2..Len(calls) :
           /\ calls[k].scope \in Forms
           /\ k < Len(calls) => Invokes(calls[k].scope, calls[k + 1].scope)
           /\ k = Len(calls) => Invokes(calls[k].scope, expanding)
      /\ Len(calls) > 1 => calls[2].scope \in FormItems(joined)
  BY OpenInvokes
<1>2. Len(calls) \in Nat /\ Len(calls) > 1
  <2>1. Len(calls) \in Nat
    BY CallsOpen
  <2>2. PICK k \in 2..Len(calls) : expanding = calls[k].scope
    BY DEF Active
  <2>3. QED
    BY <2>1, <2>2
<1> DEFINE R == {p \in Forms \X Forms : Invokes(p[1], p[2])}
           first == calls[2].scope
<1>3. first \in Active /\ first \in FormItems(joined)
  <2>1. 2 \in 2..Len(calls)
    BY <1>2
  <2>2. QED
    BY <1>1, <1>2, <2>1 DEF Active
<1>4. ASSUME NEW s \in Active
      PROVE  \E t \in Active : <<s, t>> \in R
  <2>1. PICK k \in 2..Len(calls) : s = calls[k].scope
    BY DEF Active
  <2>2. CASE k = Len(calls)
    <3>1. Invokes(s, expanding) /\ s \in Forms /\ expanding \in Forms
      BY <1>1, <2>1, <2>2, OpenInvokes
    <3>2. <<s, expanding>> \in R
      BY <3>1
    <3>3. QED
      BY <3>2
  <2>3. CASE k # Len(calls)
    <3>1. k < Len(calls) /\ k + 1 \in 2..Len(calls)
      BY <1>2, <2>3
    <3>2. Invokes(s, calls[k + 1].scope) /\ s \in Forms /\ calls[k + 1].scope \in Forms
      BY <1>1, <2>1, <3>1
    <3>3. <<s, calls[k + 1].scope>> \in R
      BY <3>2
    <3>4. calls[k + 1].scope \in Active
      BY <3>1 DEF Active
    <3>5. QED
      BY <3>3, <3>4
  <2>4. QED
    BY <2>2, <2>3
<1> HIDE DEF R, first
<1>5. PICK chain \in [0..MaxFormDepth -> Active] :
        /\ chain[0] = first /\ \A k \in 1..MaxFormDepth : <<chain[k - 1], chain[k]>> \in R
  <2>1. Endless(Active, R) /\ first \in Active /\ MaxFormDepth \in Nat
    BY <1>3, <1>4, FormBoundsAreNat DEF Endless
  <2>2. HasChain(Active, R, first, MaxFormDepth)
    BY <2>1, ChainsExist
  <2>3. QED
    BY <2>2 DEF HasChain
<1>6. Active \subseteq Forms
  BY <1>1 DEF Active
<1>7. chain \in [0..MaxFormDepth -> Forms]
  BY <1>6
<1>8. \A k \in 1..MaxFormDepth : Invokes(chain[k - 1], chain[k])
  BY <1>5 DEF R
<1>9. QED
  BY <1>3, <1>5, <1>7, <1>8 DEF Shallow

(* A form too deep ends a chain that is too long.                           *)
LEMMA NotTooDeep ==
  ASSUME TypeOK, CallsNest, CallsInvoked, stage = "expand", expanding # PageScope,
         Shallow(joined)
  PROVE  Cardinality(Active) < MaxFormDepth
<1>1. /\ expanding \in Forms
      /\ \A k \in 2..Len(calls) :
           /\ calls[k].scope \in Forms
           /\ k < Len(calls) => Invokes(calls[k].scope, calls[k + 1].scope)
           /\ k = Len(calls) => Invokes(calls[k].scope, expanding)
      /\ Len(calls) > 1 => calls[2].scope \in FormItems(joined)
      /\ Len(calls) = 1 => expanding \in FormItems(joined)
  BY OpenInvokes
<1>2. /\ Cardinality(Active) = Len(calls) - 1 /\ Len(calls) \in Nat \ {0}
      /\ Len(calls) <= MaxFormDepth + 1
  BY ActiveCount, CallsOpen DEF CallsNest
<1> SUFFICES ASSUME Len(calls) = MaxFormDepth + 1 PROVE FALSE
  BY <1>2, FormBoundsAreNat
<1> DEFINE n == MaxFormDepth
           chain == [k \in 0..n |-> IF k = n THEN expanding ELSE calls[k + 2].scope]
<1>3. n \in Nat /\ n + 1 = Len(calls)
  BY FormBoundsAreNat
<1> HIDE DEF n
<1>4. \A k \in 0..n : k # n => k + 2 \in 2..Len(calls)
  BY <1>3
<1>5. chain \in [0..n -> Forms]
  BY <1>1, <1>4
<1>6. chain[n] = expanding /\ \A k \in 0..n : k # n => chain[k] = calls[k + 2].scope
  BY <1>3
<1> HIDE DEF chain
<1>7. chain[0] \in FormItems(joined)
  <2>1. CASE n = 0
    BY <1>1, <1>3, <1>6, <2>1
  <2>2. CASE n # 0
    <3>1. 0 \in 0..n /\ 0 # n /\ 0 + 2 = 2 /\ Len(calls) > 1
      BY <1>3, <2>2
    <3>2. chain[0] = calls[2].scope
      BY <1>6, <3>1
    <3>3. QED
      BY <1>1, <3>1, <3>2
  <2>3. QED
    BY <2>1, <2>2
<1>8. ASSUME NEW k \in 1..n
      PROVE  Invokes(chain[k - 1], chain[k])
  <2>1. /\ k - 1 \in 0..n /\ k - 1 # n /\ (k - 1) + 2 = k + 1 /\ k + 1 \in 2..Len(calls)
        /\ k \in 0..n
    BY <1>3
  <2>2. chain[k - 1] = calls[k + 1].scope
    BY <1>6, <2>1
  <2>3. CASE k = n
    <3>1. k + 1 = Len(calls)
      BY <1>3, <2>3
    <3>2. QED
      BY <1>1, <1>6, <2>1, <2>2, <2>3, <3>1
  <2>4. CASE k # n
    <3>1. k + 1 < Len(calls) /\ (k + 1) + 1 = k + 2
      BY <1>3, <2>4
    <3>2. Invokes(calls[k + 1].scope, calls[(k + 1) + 1].scope)
      BY <1>1, <2>1, <3>1
    <3>3. chain[k] = calls[k + 2].scope
      BY <1>6, <2>1, <2>4
    <3>4. QED
      BY <2>2, <3>1, <3>2, <3>3
  <2>5. QED
    BY <2>3, <2>4
<1>9. QED
  BY <1>5, <1>7, <1>8 DEF Shallow, n

(* No form is refused: the budget is for all the invocations there are.     *)
LEMMA NoneRefused ==
  ASSUME TypeOK, CallsNest, InvocationsPaid, SInv, stage = "expand", Fits,
         expanding # PageScope
  PROVE  ExpansionRefusal = "none"
<1>1. expanding \notin Active
  BY NoCycle DEF SInv, Fits
<1>2. ~(Cardinality(Active) >= MaxFormDepth)
  <2>1. Cardinality(Active) < MaxFormDepth /\ Cardinality(Active) \in Int
    BY NotTooDeep, ActiveCount, CallsOpen DEF SInv, Fits
  <2>2. QED
    BY <2>1, FormBoundsAreNat
<1>3. remaining_expansions # 0
  <2>1. /\ Cardinality(Refusals(form_skipped)) = 0
        /\ Tells(doc.forms, calls, expanding, entries, FullContent(joined))
    BY DEF SInv, ContentTold
  <2>2. /\ OpenCalls(calls) /\ entries \in Seq(Entry) /\ expanding \in Scope
        /\ remaining_expansions \in 0..MaxExpansions
    BY CallsOpen DEF SInv, FormTypeOK
  <2>3. /\ Cardinality(FormEntries(entries)) <= Invocations(FullContent(joined))
        /\ Invocations(FullContent(joined)) \in Nat
    BY <2>1, <2>2, DocumentForms, ToldCounts
  <2>4. Cardinality(FormEntries(entries)) = (MaxExpansions - remaining_expansions) + 0 + 1
    BY <2>1 DEF InvocationsPaid
  <2>5. Invocations(FullContent(joined)) <= MaxExpansions
    BY DEF Fits
  <2> DEFINE a == Cardinality(FormEntries(entries))
             b == Invocations(FullContent(joined))
  <2>6. a <= b /\ b \in Nat /\ a = (MaxExpansions - remaining_expansions) + 0 + 1 /\ b <= MaxExpansions
    BY <2>3, <2>4, <2>5
  <2> HIDE DEF a, b
  <2>7. QED
    BY <2>2, <2>6, FormBoundsAreNat
<1>4. QED
  BY <1>1, <1>2, <1>3 DEF ExpansionRefusal

LEMMA OpenedMoves ==
  ASSUME NEW forms, NEW items, NEW cs, NEW n \in Nat \ {0}, Len(cs) = n, cs \in Seq(Frame),
         Opened(forms, items, cs), cs[n].next <= Len(cs[n].items),
         NEW more, Len(more) = n,
         \A k \in 1..n : /\ more[k].scope = cs[k].scope /\ more[k].items = cs[k].items
                         /\ more[k].next = IF k = n THEN cs[k].next + 1 ELSE cs[k].next
  PROVE  Opened(forms, items, more)
<1>1. \A k \in 1..n : Len(cs[k].items) \in Nat /\ cs[k].next \in Nat
  <2> TAKE k \in 1..n
  <2>1. cs[k] \in Frame
    BY ElementOfSeq
  <2>2. cs[k].items \in Seq(Operator) /\ cs[k].next \in Nat
    BY <2>1 DEF Frame
  <2>3. QED
    BY <2>2, LenProperties
<1>2. 1 \in 1..n /\ more[1].items = items
  BY DEF Opened
<1>3. ASSUME NEW k \in 1..n
      PROVE  more[k].next \in 1..(Len(more[k].items) + 1)
  <2>1. cs[k].next \in 1..(Len(cs[k].items) + 1)
    BY DEF Opened
  <2>2. QED
    BY <1>1, <2>1
<1>4. ASSUME NEW k \in 2..n
      PROVE  /\ more[k].scope \in FormItems(more[k - 1].items)
             /\ forms[more[k].scope].content = "read"
             /\ more[k].items = forms[more[k].scope].items
  <2>1. k \in 1..n /\ k - 1 \in 1..n
    OBVIOUS
  <2>2. /\ cs[k].scope \in FormItems(cs[k - 1].items)
        /\ forms[cs[k].scope].content = "read"
        /\ cs[k].items = forms[cs[k].scope].items
    BY DEF Opened
  <2>3. QED
    BY <2>1, <2>2
<1>5. QED
  BY <1>2, <1>3, <1>4 DEF Opened

LEMMA OpenedDeeper ==
  ASSUME NEW forms, NEW items, NEW cs, NEW n \in Nat \ {0}, Len(cs) = n,
         Opened(forms, items, cs), NEW form \in Forms, form \in FormItems(cs[n].items),
         forms[form].content = "read", forms[form].items \in Seq(Operator),
         NEW more, Len(more) = n + 1, more[n + 1] = Call(form, forms[form].items),
         \A k \in 1..n : more[k] = cs[k]
  PROVE  Opened(forms, items, more)
<1> DEFINE call == Call(form, forms[form].items)
<1>1. call.scope = form /\ call.items = forms[form].items /\ call.next = 1
  BY DEF Call
<1>2. more[n + 1] = call
  OBVIOUS
<1> HIDE DEF call
<1>3. 1 \in 1..n /\ more[1].items = items
  BY DEF Opened
<1>4. ASSUME NEW k \in 1..(n + 1)
      PROVE  more[k].next \in 1..(Len(more[k].items) + 1)
  <2>1. CASE k = n + 1
    <3>1. Len(forms[form].items) \in Nat
      BY LenProperties
    <3>2. more[k].next = 1 /\ more[k].items = forms[form].items
      BY <1>1, <1>2, <2>1
    <3>3. QED
      BY <3>1, <3>2
  <2>2. CASE k # n + 1
    <3>1. k \in 1..n
      BY <2>2
    <3>2. QED
      BY <3>1 DEF Opened
  <2>3. QED
    BY <2>1, <2>2
<1>5. ASSUME NEW k \in 2..(n + 1)
      PROVE  /\ more[k].scope \in FormItems(more[k - 1].items)
             /\ forms[more[k].scope].content = "read"
             /\ more[k].items = forms[more[k].scope].items
  <2>1. CASE k = n + 1
    <3>1. k - 1 = n /\ n \in 1..n
      BY <2>1
    <3>2. more[k] = call /\ more[k - 1] = cs[n]
      BY <1>2, <2>1, <3>1
    <3>3. QED
      BY <1>1, <3>2
  <2>2. CASE k # n + 1
    <3>1. k \in 2..n /\ k \in 1..n /\ k - 1 \in 1..n
      BY <2>2
    <3>2. /\ cs[k].scope \in FormItems(cs[k - 1].items)
          /\ forms[cs[k].scope].content = "read"
          /\ cs[k].items = forms[cs[k].scope].items
      BY <3>1 DEF Opened
    <3>3. QED
      BY <3>1, <3>2
  <2>3. QED
    BY <2>1, <2>2
<1>6. QED
  BY <1>3, <1>4, <1>5 DEF Opened

LEMMA OpenedReturns ==
  ASSUME NEW forms, NEW items, NEW cs, NEW n \in Nat \ {0}, Len(cs) = n + 1,
         Opened(forms, items, cs), NEW fewer, Len(fewer) = n, \A k \in 1..n : fewer[k] = cs[k]
  PROVE  Opened(forms, items, fewer)
<1>1. 1 \in 1..n /\ fewer[1].items = items
  BY DEF Opened
<1>2. \A k \in 1..n : k \in 1..(n + 1) /\ fewer[k].next \in 1..(Len(fewer[k].items) + 1)
  BY DEF Opened
<1>3. ASSUME NEW k \in 2..n
      PROVE  /\ fewer[k].scope \in FormItems(fewer[k - 1].items)
             /\ forms[fewer[k].scope].content = "read"
             /\ fewer[k].items = forms[fewer[k].scope].items
  <2>1. k \in 2..(n + 1) /\ k \in 1..n /\ k - 1 \in 1..n
    OBVIOUS
  <2>2. /\ cs[k].scope \in FormItems(cs[k - 1].items)
        /\ forms[cs[k].scope].content = "read"
        /\ cs[k].items = forms[cs[k].scope].items
    BY <2>1 DEF Opened
  <2>3. QED
    BY <2>1, <2>2
<1>4. QED
  BY <1>1, <1>2, <1>3 DEF Opened

(* The document and the joined content decide whether a page fits.          *)
LEMMA FitsKept ==
  ASSUME UNCHANGED <<doc, joined>>
  PROVE  /\ Fits' <=> Fits
         /\ FullContent(joined)' = FullContent(joined)
BY DEF Fits, Shallow, Invokes, FullContent

-----------------------------------------------------------------------------
LEMMA EmitTells ==
  ASSUME TypeOK, CallsNest, SInv, stage = "expand", EmitEntry, UNCHANGED <<doc, joined, stage>>
  PROVE  SInv'
<1> DEFINE item == Current.items[Current.next]
           e == [sequence |-> Numbering, scope |-> Current.scope, form |-> item]
           n == Len(calls)
           more == calls'
<1>1. /\ AtItem /\ entries' = Append(entries, e) /\ calls' = MovedOn
      /\ expanding' = IF item \in Forms THEN item ELSE PageScope
      /\ form_skipped' = form_skipped
  BY DEF EmitEntry
<1>2. /\ OpenCalls(calls) /\ n \in Nat \ {0} /\ calls \in Seq(Frame) /\ calls # <<>>
      /\ FormTypeOK
      /\ Opened(doc.forms, joined, calls)
  BY CallsOpen DEF SInv, CallsInvoked
<1>3. /\ expanding = PageScope /\ Current.next <= Len(Current.items) /\ Current = calls[n]
      /\ item \in Operator /\ Current.scope \in Scope /\ Current.next \in Nat \ {0}
  BY <1>1, <1>2, CurrentType DEF AtItem
<1>4. e \in Entry /\ e.scope = calls[n].scope /\ e.form = item
  <2>1. Numbering \in Nat
    BY <1>2, <1>3 DEF Numbering, FormTypeOK
  <2>2. QED
    BY <1>3, <2>1 DEF Entry
<1>5. item = calls[n].items[calls[n].next] /\ calls[n].next <= Len(calls[n].items)
  BY <1>3
<1>6. /\ Len(more) = n
      /\ \A k \in 1..n : /\ more[k].scope = calls[k].scope /\ more[k].items = calls[k].items
                         /\ more[k].next = IF k = n THEN calls[k].next + 1 ELSE calls[k].next
  BY <1>1, <1>2, MovedOnIs
<1>7. \A k \in 1..n : k # n => more[k] = calls[k]
  BY <1>1, <1>2 DEF MovedOn
<1>8. entries \in Seq(Entry)
  BY <1>2 DEF FormTypeOK
<1> HIDE DEF e, item, n
<1>9. CallsInvoked'
  <2>1. Opened(doc.forms, joined, more)
    <3>1. Len(calls) = n
      BY DEF n
    <3> HIDE DEF more
    <3>2. QED
      BY <1>2, <1>5, <1>6, <3>1, OpenedMoves
  <2>2. Invited(more, expanding')
    <3>1. more[n].items = calls[n].items /\ n \in 1..n
      BY <1>2, <1>6
    <3>2. calls[n].next \in 1..Len(calls[n].items)
      <4>1. Len(calls[n].items) \in Nat
        <5>1. calls[n] \in Frame
          BY <1>2, <3>1, ElementOfSeq DEF n
        <5>2. calls[n].items \in Seq(Operator)
          BY <5>1 DEF Frame
        <5>3. QED
          BY <5>2, LenProperties
      <4>2. QED
        BY <1>3, <1>5, <4>1
    <3>3. item \in Forms => item \in FormItems(more[n].items)
      BY <1>5, <3>1, <3>2 DEF FormItems
    <3>4. QED
      BY <1>1, <1>6, <3>3 DEF Invited
  <2>3. QED
    BY <2>1, <2>2 DEF CallsInvoked
<1>10. ContentTold'
  <2> SUFFICES ASSUME Fits
               PROVE  /\ Cardinality(Refusals(form_skipped')) = 0
                      /\ Tells(doc.forms, more, expanding', entries', FullContent(joined))
    BY FitsKept DEF ContentTold
  <2>1. /\ Cardinality(Refusals(form_skipped)) = 0
        /\ Tells(doc.forms, calls, PageScope, entries, FullContent(joined))
    BY <1>3 DEF SInv, ContentTold
  <2> DEFINE all == FullContent(joined)
             forms == doc.forms
  <2>2. /\ FormsTyped(forms) /\ Tells(forms, calls, PageScope, entries, all)
        /\ more[n].scope = calls[n].scope /\ more[n].items = calls[n].items
        /\ more[n].next = calls[n].next + 1
    BY <1>2, <1>6, <2>1, DocumentForms
  <2> HIDE DEF all, forms, more
  <2>3. Tells(forms, more, IF e.form \in Forms THEN e.form ELSE PageScope, Append(entries, e), all)
    BY <1>2, <1>4, <1>5, <1>6, <1>7, <1>8, <2>2, TellsEmit DEF n
  <2>4. QED
    BY <1>1, <1>4, <2>1, <2>3 DEF all, forms
<1>11. QED
  BY <1>9, <1>10 DEF SInv

LEMMA RefuseTells ==
  ASSUME TypeOK, CallsNest, InvocationsPaid, SInv, stage = "expand", RefuseExpansion,
         UNCHANGED <<doc, joined, stage>>
  PROVE  SInv'
<1>1. /\ expanding # PageScope /\ ExpansionRefusal # "none"
      /\ expanding' = PageScope /\ calls' = calls
  BY DEF RefuseExpansion
<1>2. CallsInvoked'
  <2>1. Opened(doc.forms, joined, calls)
    BY DEF SInv, CallsInvoked
  <2>2. Invited(calls', expanding')
    BY <1>1 DEF Invited
  <2>3. QED
    BY <1>1, <2>1, <2>2 DEF CallsInvoked
<1>3. ~Fits'
  BY <1>1, NoneRefused, FitsKept
<1>4. QED
  BY <1>2, <1>3 DEF SInv, ContentTold

LEMMA SkipTells ==
  ASSUME TypeOK, CallsNest, SInv, stage = "expand", SkipUnreadableForm,
         UNCHANGED <<doc, joined, stage>>
  PROVE  SInv'
<1> DEFINE some == IF doc.forms[expanding].content = "unwalkable" THEN CoverageSkips ELSE <<>>
           last == << [form |-> expanding, reason |-> "Content"] >>
<1>1. /\ expanding # PageScope /\ doc.forms[expanding].content # "read"
      /\ form_skipped' = form_skipped \o some \o last
      /\ expanding' = PageScope /\ calls' = calls /\ entries' = entries
  BY DEF SkipUnreadableForm
<1>2. FormTypeOK /\ ContentTypeOK /\ form_skipped \in Seq(Skip)
  BY DEF TypeOK, FormTypeOK, Skip
<1>3. some \in Seq(Skip) /\ \A i \in 1..Len(some) : some[i].reason \notin BudgetReasons
  BY <1>1, <1>2, FormType DEF BudgetReasons
<1>4. last \in Seq(Skip) /\ \A i \in 1..Len(last) : last[i].reason \notin BudgetReasons
  BY <1>1, <1>2, FormType DEF BudgetReasons, Skip, SkipReason
<1> HIDE DEF some, last
<1>5. Refusals(form_skipped \o some) = Refusals(form_skipped)
  BY <1>2, <1>3, RefusalsKept
<1>6. form_skipped \o some \in Seq(Skip)
  BY <1>2, <1>3, ConcatProperties
<1>7. Refusals(form_skipped') = Refusals(form_skipped)
  BY <1>1, <1>4, <1>5, <1>6, RefusalsKept
<1>8. CallsInvoked'
  <2>1. Opened(doc.forms, joined, calls)
    BY DEF SInv, CallsInvoked
  <2>2. Invited(calls', expanding')
    BY <1>1 DEF Invited
  <2>3. QED
    BY <1>1, <2>1, <2>2 DEF CallsInvoked
<1>9. ContentTold'
  <2> SUFFICES ASSUME Fits
               PROVE  /\ Cardinality(Refusals(form_skipped')) = 0
                      /\ Tells(doc.forms, calls, PageScope, entries, FullContent(joined))
    BY <1>1, FitsKept DEF ContentTold
  <2>1. /\ Cardinality(Refusals(form_skipped)) = 0
        /\ Tells(doc.forms, calls, expanding, entries, FullContent(joined))
    BY DEF SInv, ContentTold
  <2>2. expanding \in Forms /\ OpenCalls(calls)
    BY <1>1, <1>2, FormType, CallsOpen DEF SInv
  <2>3. Tells(doc.forms, calls, PageScope, entries, FullContent(joined))
    BY <1>1, <2>1, <2>2, TellsSkip
  <2>4. QED
    BY <1>7, <2>1, <2>3
<1>10. QED
  BY <1>8, <1>9 DEF SInv

LEMMA DescendTells ==
  ASSUME TypeOK, CallsNest, SInv, stage = "expand", DescendIntoForm,
         UNCHANGED <<doc, joined, stage>>
  PROVE  SInv'
<1> DEFINE call == Call(expanding, doc.forms[expanding].items)
           n == Len(calls)
           more == calls'
<1>1. /\ expanding # PageScope /\ ExpansionRefusal = "none"
      /\ doc.forms[expanding].content = "read"
      /\ form_skipped' = form_skipped \o CoverageSkips
      /\ calls' = Append(calls, call) /\ expanding' = PageScope /\ entries' = entries
  BY DEF DescendIntoForm
<1>2. /\ OpenCalls(calls) /\ n \in Nat \ {0} /\ calls \in Seq(Frame) /\ calls # <<>>
      /\ FormTypeOK /\ ContentTypeOK /\ form_skipped \in Seq(Skip)
      /\ Opened(doc.forms, joined, calls) /\ Invited(calls, expanding)
  BY CallsOpen DEF SInv, CallsInvoked, FormTypeOK, Skip
<1>3. /\ expanding \in Forms /\ doc.forms[expanding].items \in Seq(Operator)
      /\ CoverageSkips \in Seq(Skip)
      /\ \A i \in 1..Len(CoverageSkips) : CoverageSkips[i].reason = "Resource"
  BY <1>1, <1>2, FormType
<1>4. call \in Frame
  BY <1>3 DEF Call, Frame, Scope
<1>5. Refusals(form_skipped') = Refusals(form_skipped)
  <2>1. \A i \in 1..Len(CoverageSkips) : CoverageSkips[i].reason \notin BudgetReasons
    BY <1>3 DEF BudgetReasons
  <2>2. QED
    BY <2>1, <1>1, <1>2, <1>3, RefusalsKept
<1> DEFINE F == Frame
<1>6. /\ more \in Seq(F) /\ Len(more) = n + 1 /\ more[n + 1] = call
      /\ \A k \in 1..n : more[k] = calls[k]
  <2>1. calls \in Seq(F) /\ call \in F
    BY <1>2, <1>4
  <2> HIDE DEF call, F
  <2>2. QED
    BY <1>1, <2>1, AppendProperties
<1>7. n <= MaxFormDepth
  <2>1. ~(Cardinality(Active) >= MaxFormDepth)
    BY <1>1 DEF ExpansionRefusal
  <2>2. Cardinality(Active) = n - 1
    BY <1>2, ActiveCount
  <2>3. QED
    BY <1>2, <2>1, <2>2, FormBoundsAreNat
<1> DEFINE forms == doc.forms
<1>8. /\ FormsTyped(forms) /\ forms[expanding].content = "read"
      /\ forms[expanding].items \in Seq(Operator)
      /\ more[n + 1] = Call(expanding, forms[expanding].items)
      /\ Opened(forms, joined, calls)
  BY <1>1, <1>2, <1>3, <1>6, DocumentForms
<1>9. expanding \in FormItems(calls[n].items)
  BY <1>1, <1>2 DEF Invited
<1> HIDE DEF call, forms
<1>10. CallsInvoked'
  <2>1. Opened(forms, joined, more)
    <3>1. Len(calls) = n
      OBVIOUS
    <3> HIDE DEF more, n
    <3>2. QED
      BY <1>2, <1>3, <1>6, <1>8, <1>9, <3>1, OpenedDeeper
  <2>2. Invited(more, expanding')
    BY <1>1 DEF Invited
  <2>3. QED
    BY <2>1, <2>2 DEF CallsInvoked, forms
<1>11. ContentTold'
  <2> SUFFICES ASSUME Fits
               PROVE  /\ Cardinality(Refusals(form_skipped')) = 0
                      /\ Tells(forms, more, PageScope, entries, FullContent(joined))
    BY <1>1, FitsKept DEF ContentTold, forms
  <2> DEFINE all == FullContent(joined)
  <2>1. /\ Cardinality(Refusals(form_skipped)) = 0
        /\ Tells(forms, calls, expanding, entries, all)
    BY DEF SInv, ContentTold, forms
  <2>2. /\ Len(more) = Len(calls) + 1
        /\ more[Len(calls) + 1] = Call(expanding, forms[expanding].items)
        /\ \A k \in 1..Len(calls) : more[k] = calls[k]
        /\ Len(calls) <= MaxFormDepth /\ more \in Seq(Frame)
    BY <1>6, <1>7, <1>8
  <2> HIDE DEF all, more, n
  <2>3. Tells(forms, more, PageScope, entries, all)
    BY <1>2, <1>3, <1>8, <2>1, <2>2, TellsDescend
  <2>4. QED
    BY <1>5, <2>1, <2>3 DEF all
<1>12. QED
  BY <1>10, <1>11 DEF SInv

LEMMA ReturnTells ==
  ASSUME TypeOK, CallsNest, SInv, stage = "expand", ReturnFromForm,
         UNCHANGED <<doc, joined, stage>>
  PROVE  SInv'
<1> DEFINE n == Len(calls) - 1
           fewer == calls'
<1>1. /\ expanding = PageScope /\ Len(calls) > 1 /\ Current.next > Len(Current.items)
      /\ calls' = SubSeq(calls, 1, Len(calls) - 1)
      /\ expanding' = expanding /\ entries' = entries /\ form_skipped' = form_skipped
  BY DEF ReturnFromForm, Front
<1>2. /\ OpenCalls(calls) /\ Len(calls) \in Nat \ {0} /\ calls \in Seq(Frame) /\ calls # <<>>
      /\ Opened(doc.forms, joined, calls)
  BY CallsOpen DEF SInv, CallsInvoked
<1>3. Len(fewer) = n /\ \A k \in 1..n : fewer[k] = calls[k]
  <2>1. calls \in Seq(Frame) /\ calls # <<>>
    BY <1>2
  <2>2. Len(fewer) = Len(calls) - 1 /\ \A k \in 1..Len(fewer) : fewer[k] = calls[k]
    BY <1>1, <2>1, Popped
  <2>3. QED
    BY <2>2
<1>4. n \in Nat \ {0} /\ Len(calls) = n + 1
  BY <1>1, <1>2
<1> DEFINE forms == doc.forms
<1>5. FormsTyped(forms) /\ Opened(forms, joined, calls)
  BY <1>2, DocumentForms
<1> HIDE DEF forms
<1>6. CallsInvoked'
  <2>1. Opened(forms, joined, fewer)
    <3> HIDE DEF fewer, n
    <3>1. QED
      BY <1>3, <1>4, <1>5, OpenedReturns
  <2>2. Invited(fewer, expanding')
    BY <1>1 DEF Invited
  <2>3. QED
    BY <2>1, <2>2 DEF CallsInvoked, forms
<1>7. ContentTold'
  <2> SUFFICES ASSUME Fits
               PROVE  /\ Cardinality(Refusals(form_skipped')) = 0
                      /\ Tells(forms, fewer, PageScope, entries, FullContent(joined))
    BY <1>1, FitsKept DEF ContentTold, forms
  <2> DEFINE all == FullContent(joined)
  <2>1. /\ Cardinality(Refusals(form_skipped)) = 0
        /\ Tells(forms, calls, PageScope, entries, all)
    BY <1>1 DEF SInv, ContentTold, forms
  <2>2. calls[Len(calls)].next > Len(calls[Len(calls)].items)
    BY <1>1 DEF Current
  <2>3. Len(fewer) = Len(calls) - 1 /\ \A k \in 1..(Len(calls) - 1) : fewer[k] = calls[k]
    BY <1>3
  <2> HIDE DEF all, fewer, n
  <2>4. Tells(forms, fewer, PageScope, entries, all)
    BY <1>1, <1>2, <1>5, <2>1, <2>2, <2>3, TellsReturn
  <2>5. QED
    BY <1>1, <2>1, <2>4 DEF all
<1>8. QED
  BY <1>6, <1>7 DEF SInv

(* At the start of a page its operators are all ahead of the page's call.   *)
LEMMA StartTells ==
  ASSUME TypeOK, StartPage
  PROVE  SInv'
<1>1. /\ calls' = <<Call(PageScope, joined)>> /\ expanding' = PageScope /\ entries' = <<>>
      /\ form_skipped' = <<>> /\ Readable /\ UNCHANGED <<doc, joined>>
  BY DEF StartPage, StartExpansion, ContentComplete, contentVars
<1>2. joined \in Seq(Operator)
  BY <1>1, ReadableIsOperators DEF TypeOK
<1> DEFINE call == Call(PageScope, joined)
           cs == <<call>>
<1>3. call.scope = PageScope /\ call.items = joined /\ call.next = 1 /\ Len(cs) = 1 /\ cs[1] = call
  BY DEF Call
<1>4. calls' = cs
  BY <1>1
<1> HIDE DEF call, cs
<1>5. CallsInvoked'
  <2>1. Len(joined) \in Nat
    BY <1>2, LenProperties
  <2>2. /\ cs[1].items = joined /\ \A k \in 1..Len(cs) : k = 1
        /\ cs[1].next \in 1..(Len(cs[1].items) + 1)
    BY <1>3, <2>1
  <2>3. \A k \in 2..Len(cs) : FALSE
    BY <1>3
  <2>4. Opened(doc.forms, joined, cs)
    BY <2>2, <2>3 DEF Opened
  <2>5. Invited(cs, PageScope)
    BY DEF Invited
  <2>6. QED
    BY <1>1, <1>4, <2>4, <2>5 DEF CallsInvoked
<1>6. ContentTold'
  <2>1. Cardinality(Refusals(form_skipped')) = 0
    <3>1. Refusals(form_skipped') = {}
      BY <1>1 DEF Refusals
    <3>2. QED
      BY <3>1, FS_EmptySet
  <2>2. Tells(doc.forms, calls', PageScope, <<>>, FullContent(joined))
    BY <1>1, <1>2, DocumentForms, TellsStart DEF FullContent
  <2>3. FullContent(joined)' = FullContent(joined)
    BY <1>1, FitsKept
  <2>4. QED
    BY <1>1, <2>1, <2>2, <2>3 DEF ContentTold
<1>7. QED
  BY <1>5, <1>6 DEF SInv

(* A page whose forms nest within the limits is inventoried in full and in  *)
(* content order, and no form of it is refused (expand): a form invoked     *)
(* twice, or from two forms, is expanded each time.                         *)
THEOREM ShallowPagesAlwaysComplete == Spec => []ShallowPagesAreComplete
<1>1. Init => SInv
  BY DEF Init, SInv, CallsInvoked, ContentTold
<1>2. IInv /\ SInv /\ [Next]_vars => SInv'
  <2> SUFFICES ASSUME IInv, SInv, [Next]_vars PROVE SInv'
    OBVIOUS
  <2>1. TypeOK /\ CallsNest /\ InvocationsPaid
    BY DEF IInv
  <2>2. CASE UNCHANGED vars
    <3>1. UNCHANGED <<doc, joined, stage, calls, expanding, entries, form_skipped>>
      BY <2>2 DEF vars, contentVars, formVars
    <3>2. QED
      BY <3>1, FitsKept DEF SInv, CallsInvoked, ContentTold
  <2>3. ASSUME stage' # "expand"
        PROVE  SInv'
    BY <2>3 DEF SInv, CallsInvoked, ContentTold
  <2>4. CASE Join
    <3>1. stage' # "expand"
      BY <2>4 DEF Join, JoinStream
    <3>2. QED
      BY <2>3, <3>1
  <2>5. CASE SkipPage \/ FinishPage \/ Finish
    <3>1. stage' # "expand"
      BY <2>5 DEF SkipPage, FinishPage, Finish, NextPage
    <3>2. QED
      BY <2>3, <3>1
  <2>6. CASE Expand
    <3>1. stage = "expand" /\ ExpandStep /\ UNCHANGED <<doc, joined, stage>>
      BY <2>6 DEF Expand, contentVars
    <3>2. QED
      BY <2>1, <3>1, EmitTells, RefuseTells, SkipTells, DescendTells, ReturnTells DEF ExpandStep
  <2>7. QED
    BY <2>1, <2>2, <2>4, <2>5, <2>6, StartTells DEF Next, Answered
<1>3. IInv /\ SInv => ShallowPagesAreComplete
  <2> SUFFICES ASSUME IInv, SInv, stage = "expand", PageExpanded, Fits
               PROVE  /\ Told(entries) = FullContent(joined)
                      /\ Cardinality(Refusals(form_skipped)) = 0
    BY DEF ShallowPagesAreComplete, Told, Fits, Skips, Refusals, BudgetReasons
  <2>1. TypeOK /\ CallsNest
    BY DEF IInv
  <2>2. expanding = PageScope /\ Len(calls) = 1 /\ calls[1].next > Len(calls[1].items)
    BY DEF PageExpanded, Current
  <2>3. /\ Cardinality(Refusals(form_skipped)) = 0
        /\ Tells(doc.forms, calls, PageScope, entries, FullContent(joined))
    BY <2>2 DEF SInv, ContentTold
  <2>4. OpenCalls(calls) /\ entries \in Seq(Entry) /\ FormsTyped(doc.forms)
    BY <2>1, CallsOpen, DocumentForms DEF SInv, FormTypeOK
  <2>5. FullContent(joined) = Told(entries)
    BY <2>2, <2>3, <2>4, TellsAll
  <2>6. QED
    BY <2>3, <2>5
<1>4. QED
  BY <1>1, <1>2, <1>3, ExpansionInvariant, PTL DEF Spec

=============================================================================
