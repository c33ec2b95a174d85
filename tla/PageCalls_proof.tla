--------------------------- MODULE PageCalls_proof ---------------------------
(***************************************************************************)
(* What holds of the calls that are built on the walks, in every document: *)
(* the resource reports, the audit and the check, which read the           *)
(* inventory, and set_page_boxes_incremental.                              *)
(*                                                                         *)
(* The scans of the inventory have each a cursor of their own; both are    *)
(* always where a page's entries start, and what they have found is what   *)
(* the pages before it hold.                                               *)
(***************************************************************************)
EXTENDS SetPageBoxes, DocumentPages_proof

(***************************************************************************)
(* The resource walk reports what the types say, whatever the documents    *)
(* state.                                                                  *)
(***************************************************************************)
ResourceFrame == [node : Objects, next : Nat \ {0}, context : Context]

ResourceInv ==
  /\ resources \in [Objects -> Statement]
  /\ resPhase = "walking" => resFrames # <<>>
  /\ resFrames \in Seq(ResourceFrame)
  /\ resPages \in Seq(Report)

LEMMA ContextsPassDown ==
  ASSUME resources \in [Objects -> Statement], NEW node \in Objects, NEW inherited \in Context
  PROVE  FromDictionary(node, inherited) \in Context
<1>1. resources[node] \in Dictionary \cup {Absent, Unusable}
  BY DEF Statement
<1>2. inherited.skips \in Seq(ResourceSkipReasons) /\ inherited.resources \in Dictionary \cup {Absent}
  BY DEF Context
<1>3. Append(inherited.skips, "UnusableResources") \in Seq(ResourceSkipReasons)
  BY <1>2, AppendProperties DEF ResourceSkipReasons
<1> DEFINE more == Append(inherited.skips, "UnusableResources")
<1>4. \/ FromDictionary(node, inherited) = inherited
      \/ FromDictionary(node, inherited) = [resources |-> Absent, skips |-> more]
      \/ /\ resources[node] \in Dictionary
         /\ FromDictionary(node, inherited) = [inherited EXCEPT !.resources = resources[node]]
  BY <1>1 DEF FromDictionary
<1> HIDE DEF more
<1>5. more \in Seq(ResourceSkipReasons)
  BY <1>3 DEF more
<1>6. QED
  BY <1>2, <1>4, <1>5 DEF Context

LEMMA SkipsOfEntries ==
  ASSUME NEW listed \in XObjectEntries
  PROVE  EntrySkips(listed) \in Seq(ResourceSkipReasons)
<1> DEFINE skip(i) == IF ~First(listed, i) THEN <<"DuplicateXObjectName">>
                      ELSE IF listed[i].target = "Unclassified" THEN <<"UnclassifiedXObject">>
                      ELSE <<>>
           n == Len(listed)
           pieces == [i \in 1..n |-> skip(i)]
<1>1. n \in Nat
  BY LenProperties DEF XObjectEntries
<1>2. ASSUME NEW i \in 1..n
      PROVE  skip(i) \in Seq(ResourceSkipReasons)
  <2>1. skip(i) \in {<<"DuplicateXObjectName">>, <<"UnclassifiedXObject">>, <<>>}
    OBVIOUS
  <2>2. \A reason \in ResourceSkipReasons : <<reason>> \in Seq(ResourceSkipReasons)
    OBVIOUS
  <2>3. {"DuplicateXObjectName", "UnclassifiedXObject"} \subseteq ResourceSkipReasons
    BY DEF ResourceSkipReasons
  <2>4. <<>> \in Seq(ResourceSkipReasons)
    OBVIOUS
  <2> HIDE DEF skip
  <2>5. QED
    BY <2>1, <2>2, <2>3, <2>4
<1>3. EntrySkips(listed) = FlattenSeq(pieces)
  BY DEF EntrySkips
<1> HIDE DEF n, skip
<1>4. pieces \in [1..n -> Seq(ResourceSkipReasons)] /\ Len(pieces) = n
  BY <1>1, <1>2
<1> HIDE DEF pieces
<1>5. FlattenSeq(pieces) \in Seq(ResourceSkipReasons)
  BY <1>1, <1>4, FlattenAny
<1>6. QED
  BY <1>3, <1>5

LEMMA ReportsAreTyped ==
  ASSUME NEW leaf \in Objects, NEW context \in Context
  PROVE  ReportOf(leaf, context) \in Report
<1> DEFINE listed == context.resources.xobject
           report == ReportOf(leaf, context)
           none(reason) == [leaf |-> leaf, images |-> {}, forms |-> {},
                            skipped |-> Append(context.skips, reason)]
<1>1. context.skips \in Seq(ResourceSkipReasons) /\ context.resources \in Dictionary \cup {Absent}
  BY DEF Context
<1>2. ASSUME NEW reason \in ResourceSkipReasons
      PROVE  none(reason) \in Report
  <2>1. Append(context.skips, reason) \in Seq(ResourceSkipReasons)
    BY <1>1, AppendProperties
  <2>2. QED
    BY <2>1 DEF Report
<1>3. CASE context.resources = Absent \/ listed \in {Absent, Unusable}
  <2>1. report \in {none("MissingResources"), none("MissingXObject"), none("UnusableXObject")}
    BY <1>3 DEF ReportOf
  <2> HIDE DEF none, report
  <2>2. {"MissingResources", "MissingXObject", "UnusableXObject"} \subseteq ResourceSkipReasons
    BY DEF ResourceSkipReasons
  <2>3. report \in Report
    BY <1>2, <2>1, <2>2
  <2>4. QED
    BY <2>3 DEF report
<1>4. CASE context.resources # Absent /\ listed \notin {Absent, Unusable}
  <2>1. listed \in XObjectEntries
    BY <1>1, <1>4 DEF Dictionary
  <2>2. ASSUME NEW target
        PROVE  Classified(listed, target) \subseteq Names
    <3>1. \A i \in 1..Len(listed) : listed[i] \in [name : Names, target : Targets]
      BY <2>1, ElementOfSeq DEF XObjectEntries
    <3>2. QED
      BY <3>1 DEF Classified
  <2>3. context.skips \o EntrySkips(listed) \in Seq(ResourceSkipReasons)
    BY <1>1, <2>1, SkipsOfEntries, ConcatProperties
  <2>4. report = [leaf |-> leaf, images |-> Classified(listed, "Image"),
                  forms |-> (Classified(listed, "Form") \X {TRUE})
                              \cup (Classified(listed, "OpaqueForm") \X {FALSE}),
                  skipped |-> context.skips \o EntrySkips(listed)]
    BY <1>4 DEF ReportOf
  <2> DEFINE forms == (Classified(listed, "Form") \X {TRUE}) \cup (Classified(listed, "OpaqueForm") \X {FALSE})
             skipped_ == context.skips \o EntrySkips(listed)
             images_ == Classified(listed, "Image")
  <2>5. forms \in SUBSET (Names \X BOOLEAN) /\ images_ \in SUBSET Names /\ skipped_ \in Seq(ResourceSkipReasons)
    BY <2>2, <2>3
  <2>6. report = [leaf |-> leaf, images |-> images_, forms |-> forms, skipped |-> skipped_]
    BY <2>4
  <2> HIDE DEF forms, skipped_, images_, report
  <2>7. report \in Report
    BY <2>5, <2>6 DEF Report
  <2>8. QED
    BY <2>7 DEF report
<1>5. QED
  BY <1>3, <1>4

LEMMA AdvancedIn ==
  ASSUME NEW S, NEW stack \in Seq(S), stack # <<>>,
         \A frame \in S : [frame EXCEPT !.next = @ + 1] \in S
  PROVE  Advanced(stack) \in Seq(S) /\ Advanced(stack) # <<>>
<1> DEFINE n == Len(stack)
           moved == [stack[n] EXCEPT !.next = @ + 1]
<1>1. n \in Nat \ {0} /\ n \in 1..n /\ stack[n] \in S
  BY EmptySeq, ElementOfSeq
<1>2. moved \in S
  BY <1>1
<1>3. Advanced(stack) = [stack EXCEPT ![n] = moved]
  BY DEF Advanced
<1> HIDE DEF moved
<1>4. Advanced(stack) \in Seq(S) /\ Len(Advanced(stack)) = n
  BY <1>1, <1>2, <1>3, ExceptSeq
<1>5. Advanced(stack) # <<>>
  BY <1>1, <1>4
<1>6. QED
  BY <1>4, <1>5

LEMMA ResourceStepsAreTyped ==
  ASSUME ResourceInv, ResourceStep
  PROVE  ResourceInv'
<1> DEFINE S == ResourceFrame
<1>1. \A frame \in S : [frame EXCEPT !.next = @ + 1] \in S
  BY DEF ResourceFrame
<1>2. /\ resources \in [Objects -> Statement] /\ resFrames \in Seq(S) /\ resPages \in Seq(Report)
      /\ resPhase = "walking" => resFrames # <<>>
  BY DEF ResourceInv
<1>3. resources' = resources
  BY DEF ResourceStep, StartResources, InspectPage, SkipResourceKid, StopResourceDescent,
         DescendResources, ReturnFromResources
<1>4. ASSUME resFrames # <<>>
      PROVE  /\ Advanced(resFrames) \in Seq(S) /\ Advanced(resFrames) # <<>>
             /\ Top(resFrames).context \in Context
  <2> HIDE DEF S
  <2>1. Advanced(resFrames) \in Seq(S) /\ Advanced(resFrames) # <<>>
    BY <1>1, <1>2, <1>4, AdvancedIn
  <2>2. Top(resFrames) \in S
    BY <1>2, <1>4, EmptySeq, ElementOfSeq DEF Top
  <2>3. QED
    BY <2>1, <2>2 DEF S, ResourceFrame
<1>5. ASSUME NEW node \in Objects, NEW context \in Context
      PROVE  [node |-> node, next |-> 1, context |-> context] \in S
  BY DEF ResourceFrame
<1>6. ASSUME resFrames' \in Seq(S), resPages' \in Seq(Report), resPhase' = "walking" => resFrames' # <<>>
      PROVE  ResourceInv'
  BY <1>2, <1>3, <1>6 DEF ResourceInv
<1> HIDE DEF S
<1>7. CASE StartResources
  <2>1. NoContext \in Context
    BY DEF NoContext, Context
  <2>2. FromDictionary(Root, NoContext) \in Context
    BY <1>2, <2>1, RootIsObject, ContextsPassDown
  <2>3. resFrames' = <<[node |-> Root, next |-> 1, context |-> FromDictionary(Root, NoContext)]>>
        /\ resPages' = resPages
    BY <1>7 DEF StartResources
  <2>4. resFrames' \in Seq(S) /\ resFrames' # <<>>
    BY <1>5, <2>2, <2>3, RootIsObject
  <2>5. QED
    BY <1>2, <1>6, <2>3, <2>4
<1>8. CASE InspectPage
  <2>1. PICK leaf \in Objects :
          /\ resFrames # <<>>
          /\ resPages' = Append(resPages, ReportOf(leaf, FromDictionary(leaf, Top(resFrames).context)))
          /\ resFrames' = Advanced(resFrames)
    BY <1>8 DEF InspectPage, AtResourceKid
  <2>2. FromDictionary(leaf, Top(resFrames).context) \in Context
    BY <1>2, <1>4, <2>1, ContextsPassDown
  <2>3. ReportOf(leaf, FromDictionary(leaf, Top(resFrames).context)) \in Report
    BY <2>2, ReportsAreTyped
  <2>4. resPages' \in Seq(Report)
    BY <1>2, <2>1, <2>3, AppendProperties
  <2>5. QED
    BY <1>4, <1>6, <2>1, <2>4
<1>9. CASE SkipResourceKid \/ StopResourceDescent
  <2>1. resFrames # <<>> /\ resFrames' = Advanced(resFrames) /\ resPages' = resPages
    BY <1>9 DEF SkipResourceKid, StopResourceDescent, AtResourceKid
  <2>2. QED
    BY <1>2, <1>4, <1>6, <2>1
<1>10. CASE DescendResources
  <2>1. PICK kid \in Objects :
          /\ resFrames # <<>> /\ resPages' = resPages
          /\ \/ resFrames' = Append(Advanced(resFrames),
                   [node |-> kid, next |-> 1, context |-> FromDictionary(kid, Top(resFrames).context)])
             \/ resFrames' = Advanced(resFrames)
    BY <1>10 DEF DescendResources, AtResourceKid
  <2> DEFINE frame == [node |-> kid, next |-> 1, context |-> FromDictionary(kid, Top(resFrames).context)]
  <2>2. frame \in S
    BY <1>2, <1>4, <1>5, <2>1, ContextsPassDown
  <2>3. resFrames' = Append(Advanced(resFrames), frame) \/ resFrames' = Advanced(resFrames)
    BY <2>1
  <2> HIDE DEF frame
  <2>4. Append(Advanced(resFrames), frame) \in Seq(S) /\ Append(Advanced(resFrames), frame) # <<>>
    BY <1>4, <2>1, <2>2, AppendProperties
  <2>5. QED
    BY <1>2, <1>4, <1>6, <2>1, <2>3, <2>4
<1>11. CASE ReturnFromResources
  <2>1. /\ resFrames # <<>> /\ resFrames' = Front(resFrames) /\ resPages' = resPages
        /\ resPhase' = IF Len(resFrames) = 1 THEN "done" ELSE "walking"
    BY <1>2, <1>11 DEF ReturnFromResources
  <2>2. Front(resFrames) \in Seq(S) /\ Len(Front(resFrames)) = Len(resFrames) - 1 /\ Len(resFrames) \in Nat \ {0}
    BY <1>2, <2>1, Popped DEF Front
  <2>3. resPhase' = "walking" => resFrames' # <<>>
    BY <2>1, <2>2
  <2>4. QED
    BY <1>2, <1>6, <2>1, <2>2, <2>3
<1>12. QED
  BY <1>7, <1>8, <1>9, <1>10, <1>11 DEF ResourceStep

-----------------------------------------------------------------------------
(***************************************************************************)
(* Where each page's entries start in the document's list, and what the    *)
(* two scans have seen when their cursors are at the start of a page.      *)
(***************************************************************************)
EntryShape == [page : Nat, what : Observed]
PageShape ==
  [page_index : Nat, state : {"Inventoried", "Skipped"}, entry_count : Nat, form_skipped : Nat,
   resource_skipped : Seq(ResourceSkipReasons)]
GapShape == [kind : GapKinds, page : Nat]

Starts(start, found, listed) ==
  /\ start \in [1..(Len(listed) + 1) -> 0..Len(found)]
  /\ start[1] = 0 /\ start[Len(listed) + 1] = Len(found)
  /\ \A k \in 1..Len(listed) :
       /\ listed[k].page_index = k - 1
       /\ start[k + 1] = start[k] + listed[k].entry_count
       /\ listed[k].state = "Skipped" => listed[k].entry_count = 0
       /\ \A j \in 1..Len(found) : found[j].page = k - 1 <=> start[k] < j /\ j <= start[k + 1]
  /\ \A j \in 1..Len(found) : found[j].page < Len(listed)

Noted == {"Image", "Rgb", "Unmodeled"}

Clean(found, page, k) ==
  /\ page.state # "Skipped" /\ page.form_skipped = 0
  /\ \A j \in 1..Len(found) : found[j].page = k - 1 => found[j].what \notin Noted

Summarises(start, found, usage, k) ==
  /\ usage.page = k - 1 /\ Len(usage.summary) = start[k + 1] - start[k]
  /\ \A j \in 1..Len(found) :
       start[k] < j /\ j <= start[k + 1] => usage.summary[j - start[k]] = found[j]

OfResources(list) == \A i \in 1..Len(list) : list[i].kind = "PageResourceSkipped"

UsageShape == [page : Nat, summary : Seq(EntryShape)]

Scanned(start) ==
  /\ Starts(start, entries, results)
  /\ auditCursor = start[Len(audited) + 1] /\ checkCursor = start[checked + 1]
  /\ \A k \in 1..Len(audited) : Summarises(start, entries, audited[k], k)

AuditInv ==
  /\ contents \in [Objects -> Content \cup {Absent}]
  /\ entries \in Seq(EntryShape) /\ results \in Seq(PageShape) /\ audited \in Seq(UsageShape)
  /\ gaps \in Seq(GapShape) /\ rgb_findings \in Seq(Nat) /\ findings \in Seq(Finding)
  /\ Len(audited) <= Len(results) /\ checked \in 0..Len(results)
  /\ \E start : Scanned(start)
  /\ rgb_findings = <<>> /\ OfResources(gaps) <=>
       \A k \in 1..Len(audited) : Clean(entries, results[k], k)
  /\ findings = <<>> <=> \A k \in 1..checked : Clean(entries, results[k], k)

(* A page more, with its entries behind all others.                         *)
Follows(n, m, c, found, listed, more, longer) ==
  /\ n \in Nat /\ m \in Nat /\ c \in Nat
  /\ Len(found) = m /\ Len(listed) = n /\ Len(more) = m + c /\ Len(longer) = n + 1
  /\ \A j \in 1..m : more[j] = found[j] /\ found[j].page \in Nat
  /\ \A j \in 1..(m + c) : m < j => more[j].page = n
  /\ \A k \in 1..n : longer[k] = listed[k]
  /\ longer[n + 1].page_index = n /\ longer[n + 1].entry_count = c
  /\ longer[n + 1].state = "Skipped" => c = 0

LEMMA StartsGrow ==
  ASSUME NEW n, NEW m, NEW c, NEW found, NEW listed, NEW more, NEW longer,
         Follows(n, m, c, found, listed, more, longer),
         NEW start, Starts(start, found, listed)
  PROVE  \E next : Starts(next, more, longer) /\ \A k \in 1..(n + 1) : next[k] = start[k]
<1> USE DEF Follows
<1> DEFINE next == [k \in 1..(n + 2) |-> IF k = n + 2 THEN m + c ELSE start[k]]
<1>1. /\ start \in [1..(n + 1) -> 0..m] /\ start[1] = 0 /\ start[n + 1] = m
      /\ \A k \in 1..n :
           /\ listed[k].page_index = k - 1
           /\ start[k + 1] = start[k] + listed[k].entry_count
           /\ listed[k].state = "Skipped" => listed[k].entry_count = 0
           /\ \A j \in 1..m : found[j].page = k - 1 <=> start[k] < j /\ j <= start[k + 1]
      /\ \A j \in 1..m : found[j].page < n
  BY Zenon DEF Starts
<1>2. \A k \in 1..(n + 1) : k \in 1..(n + 2) /\ k # n + 2 /\ start[k] \in 0..m
  BY <1>1
<1>3. /\ next[n + 2] = m + c /\ \A k \in 1..(n + 1) : next[k] = start[k]
      /\ next = [k \in 1..(n + 2) |-> next[k]]
  <2>1. n + 2 \in 1..(n + 2)
    OBVIOUS
  <2>2. QED
    BY <1>2, <2>1
<1> HIDE DEF next
<1>4. next \in [1..(n + 2) -> 0..(m + c)]
  <2>1. \A k \in 1..(n + 2) : next[k] \in 0..(m + c)
    <3>1. \A k \in 1..(n + 2) : k \in 1..(n + 1) \/ k = n + 2
      OBVIOUS
    <3>2. m + c \in 0..(m + c) /\ \A v \in 0..m : v \in 0..(m + c)
      OBVIOUS
    <3>3. \A k \in 1..(n + 1) : next[k] \in 0..m
      BY <1>2, <1>3
    <3>4. next[n + 2] \in 0..(m + c)
      BY <1>3, <3>2, Zenon
    <3>5. QED
      BY <3>1, <3>2, <3>3, <3>4, Zenon
  <2>2. QED
    BY <1>3, <2>1, Zenon
<1>5. next[1] = 0 /\ next[n + 1] = m
  <2>1. 1 \in 1..(n + 1) /\ n + 1 \in 1..(n + 1)
    OBVIOUS
  <2>2. QED
    BY <1>1, <1>3, <2>1
<1>6. \A j \in 1..(m + c) : j \in 1..m \/ m < j
  OBVIOUS
<1>7. \A j \in 1..(m + c) : more[j].page < n + 1
  <2>1. \A j \in 1..m : more[j].page < n + 1
    <3>1. \A j \in 1..m : found[j].page < n /\ found[j].page \in Nat /\ more[j] = found[j]
      BY <1>1
    <3>2. QED
      BY <3>1
  <2>2. \A j \in 1..(m + c) : m < j => more[j].page < n + 1
    OBVIOUS
  <2>3. QED
    BY <1>6, <2>1, <2>2
<1>8. ASSUME NEW k \in 1..n
      PROVE  /\ longer[k].page_index = k - 1
             /\ next[k + 1] = next[k] + longer[k].entry_count
             /\ longer[k].state = "Skipped" => longer[k].entry_count = 0
             /\ \A j \in 1..(m + c) : more[j].page = k - 1 <=> next[k] < j /\ j <= next[k + 1]
  <2>1. k \in 1..(n + 1) /\ k + 1 \in 1..(n + 1) /\ k - 1 # n
    OBVIOUS
  <2>2. longer[k] = listed[k] /\ next[k] = start[k] /\ next[k + 1] = start[k + 1] /\ start[k + 1] \in 0..m
    BY <1>2, <1>3, <2>1
  <2>3. ASSUME NEW j \in 1..(m + c)
        PROVE  more[j].page = k - 1 <=> next[k] < j /\ j <= next[k + 1]
    <3>1. CASE j \in 1..m
      BY <1>1, <2>2, <3>1
    <3>2. CASE m < j
      <4>1. ~(j <= next[k + 1])
        BY <2>2, <3>2
      <4>2. QED
        BY <2>1, <3>2, <4>1
    <3>3. QED
      BY <1>6, <3>1, <3>2
  <2>4. QED
    BY <1>1, <2>2, <2>3
<1>9. ASSUME NEW k \in 1..(n + 1), k = n + 1
      PROVE  /\ longer[k].page_index = k - 1
             /\ next[k + 1] = next[k] + longer[k].entry_count
             /\ longer[k].state = "Skipped" => longer[k].entry_count = 0
             /\ \A j \in 1..(m + c) : more[j].page = k - 1 <=> next[k] < j /\ j <= next[k + 1]
  <2>1. k - 1 = n /\ k + 1 = n + 2
    BY <1>9
  <2>2. next[k] = m /\ next[k + 1] = m + c
    BY <1>3, <1>5, <1>9, <2>1
  <2>3. ASSUME NEW j \in 1..(m + c)
        PROVE  more[j].page = k - 1 <=> next[k] < j /\ j <= next[k + 1]
    <3>1. CASE j \in 1..m
      <4>1. more[j].page # n /\ ~(m < j)
        BY <1>1, <3>1
      <4>2. QED
        BY <2>1, <2>2, <4>1
    <3>2. CASE m < j
      BY <2>1, <2>2, <3>2
    <3>3. QED
      BY <1>6, <3>1, <3>2
  <2>4. QED
    BY <1>9, <2>1, <2>2, <2>3
<1>10. ASSUME NEW k \in 1..(n + 1)
       PROVE  /\ longer[k].page_index = k - 1
              /\ next[k + 1] = next[k] + longer[k].entry_count
              /\ longer[k].state = "Skipped" => longer[k].entry_count = 0
              /\ \A j \in 1..(m + c) : more[j].page = k - 1 <=> next[k] < j /\ j <= next[k + 1]
  <2>1. k \in 1..n \/ k = n + 1
    OBVIOUS
  <2>2. QED
    BY <1>8, <1>9, <2>1
<1>11. (n + 1) + 1 = n + 2
  OBVIOUS
<1>12. Starts(next, more, longer)
  BY <1>3, <1>4, <1>5, <1>7, <1>10, <1>11 DEF Starts
<1>13. QED
  BY <1>3, <1>12

(* The slice between two bounds that are in the list is what lies there.    *)
LEMMA SliceIsBetween ==
  ASSUME entries \in Seq(EntryShape), NEW from \in Nat, NEW count \in Nat,
         from + count <= Len(entries)
  PROVE  /\ Slice(from, count) \in Seq(EntryShape) /\ Len(Slice(from, count)) = count
         /\ \A i \in 1..count : Slice(from, count)[i] = entries[from + i]
<1> DEFINE until == Min({from + count, Len(entries)})
           slice == Slice(from, count)
           n == Len(entries)
<1>1. n \in Nat /\ \A j \in 1..n : entries[j] \in EntryShape
  BY LenProperties, ElementOfSeq
<1>2. until = from + count
  <2>1. \A v \in {from + count, n} : from + count <= v
    BY <1>1
  <2>2. \A v \in {from + count, n} : (\A w \in {from + count, n} : v <= w) => v = from + count
    BY <1>1
  <2>3. from + count \in {from + count, n}
    OBVIOUS
  <2>4. until = CHOOSE v \in {from + count, n} : \A w \in {from + count, n} : v <= w
    BY DEF Min
  <2> HIDE DEF until, n
  <2>5. QED
    BY <2>1, <2>2, <2>3, <2>4
<1>3. slice = SubSeq(entries, from + 1, from + count)
  BY <1>2 DEF Slice
<1>4. slice = [i \in 1..count |-> entries[from + i]]
  <2>1. (from + count) - (from + 1) + 1 = count
    OBVIOUS
  <2>2. \A i \in 1..count : i + (from + 1) - 1 = from + i
    OBVIOUS
  <2>3. slice = [i \in 1..count |-> entries[i + (from + 1) - 1]]
    BY <1>3, <2>1
  <2> HIDE DEF slice
  <2>4. QED
    BY <2>2, <2>3
<1>5. \A i \in 1..count : from + i \in 1..n
  BY <1>1
<1>6. slice \in [1..count -> EntryShape] /\ \A i \in 1..count : slice[i] = entries[from + i]
  <2> HIDE DEF slice, n
  <2>1. QED
    BY <1>1, <1>4, <1>5
<1> HIDE DEF slice
<1>7. slice \in Seq(EntryShape)
  BY <1>6
<1>8. Len(slice) = count
  BY <1>6, <1>7
<1>9. QED
  BY <1>6, <1>7, <1>8 DEF slice

-----------------------------------------------------------------------------
(* A page's entries are silent about what is in a set.                      *)
Silent(slice, whats) == \A i \in 1..Len(slice) : slice[i].what \notin whats

OtherGap == [kind : GapKinds \ {"PageResourceSkipped"}, page : Nat]

LEMMA GapsOfEntries ==
  ASSUME NEW slice \in Seq(EntryShape)
  PROVE  /\ EntryGaps(slice) \in Seq(OtherGap)
         /\ EntryGaps(slice) = <<>> <=> Silent(slice, {"Image", "Unmodeled"})
<1> DEFINE n == Len(slice)
           gap(entry) ==
             CASE entry.what = "Image" -> <<[kind |-> "ImageColorUndecoded", page |-> entry.page]>>
               [] entry.what = "Unmodeled" -> <<[kind |-> "UnmodeledColorSpace", page |-> entry.page]>>
               [] OTHER -> <<>>
           pieces == [i \in 1..n |-> gap(slice[i])]
<1>1. n \in Nat /\ \A i \in 1..n : slice[i] \in EntryShape
  BY LenProperties, ElementOfSeq
<1>2. ASSUME NEW entry \in EntryShape
      PROVE  /\ gap(entry) \in Seq(OtherGap)
             /\ gap(entry) = <<>> <=> entry.what \notin {"Image", "Unmodeled"}
  <2> DEFINE image == [kind |-> "ImageColorUndecoded", page |-> entry.page]
             unmodeled == [kind |-> "UnmodeledColorSpace", page |-> entry.page]
  <2>1. image \in OtherGap /\ unmodeled \in OtherGap
    BY DEF EntryShape, OtherGap, GapKinds
  <2>2. /\ entry.what = "Image" => gap(entry) = <<image>>
        /\ entry.what = "Unmodeled" => gap(entry) = <<unmodeled>>
        /\ entry.what \notin {"Image", "Unmodeled"} => gap(entry) = <<>>
    OBVIOUS
  <2> HIDE DEF gap, image, unmodeled
  <2>3. <<>> \in Seq(OtherGap) /\ \A v \in OtherGap : <<v>> \in Seq(OtherGap) /\ <<v>> # <<>>
    OBVIOUS
  <2>4. QED
    BY <2>1, <2>2, <2>3
<1>3. EntryGaps(slice) = FlattenSeq(pieces)
  BY DEF EntryGaps
<1> HIDE DEF n, gap
<1>4. pieces \in [1..n -> Seq(OtherGap)] /\ Len(pieces) = n /\ \A i \in 1..n : pieces[i] = gap(slice[i])
  BY <1>1, <1>2
<1> HIDE DEF pieces
<1>5. /\ FlattenSeq(pieces) \in Seq(OtherGap)
      /\ FlattenSeq(pieces) = <<>> <=> \A i \in 1..n : pieces[i] = <<>>
  BY <1>1, <1>4, FlattenAny
<1>6. (\A i \in 1..n : pieces[i] = <<>>) <=> Silent(slice, {"Image", "Unmodeled"})
  BY <1>1, <1>2, <1>4 DEF Silent, n
<1>7. QED
  BY <1>3, <1>5, <1>6, Zenon

LEMMA RgbOfEntries ==
  ASSUME NEW slice \in Seq(EntryShape)
  PROVE  /\ RgbPages(slice) \in Seq(Nat)
         /\ RgbPages(slice) = <<>> <=> Silent(slice, {"Rgb"})
<1> DEFINE n == Len(slice)
           rgb(entry) == IF entry.what = "Rgb" THEN <<entry.page>> ELSE <<>>
           pieces == [i \in 1..n |-> rgb(slice[i])]
<1>1. n \in Nat /\ \A i \in 1..n : slice[i] \in EntryShape
  BY LenProperties, ElementOfSeq
<1>2. ASSUME NEW entry \in EntryShape
      PROVE  rgb(entry) \in Seq(Nat) /\ (rgb(entry) = <<>> <=> entry.what \notin {"Rgb"})
  <2>1. entry.page \in Nat
    BY DEF EntryShape
  <2>2. \A v \in Nat : <<v>> \in Seq(Nat) /\ <<v>> # <<>>
    OBVIOUS
  <2>3. QED
    BY <2>1, <2>2
<1>3. RgbPages(slice) = FlattenSeq(pieces)
  BY DEF RgbPages
<1> HIDE DEF n, rgb
<1>4. pieces \in [1..n -> Seq(Nat)] /\ Len(pieces) = n /\ \A i \in 1..n : pieces[i] = rgb(slice[i])
  BY <1>1, <1>2
<1> HIDE DEF pieces
<1>5. /\ FlattenSeq(pieces) \in Seq(Nat)
      /\ FlattenSeq(pieces) = <<>> <=> \A i \in 1..n : pieces[i] = <<>>
  BY <1>1, <1>4, FlattenAny
<1>6. (\A i \in 1..n : pieces[i] = <<>>) <=> Silent(slice, {"Rgb"})
  BY <1>1, <1>2, <1>4 DEF Silent, n
<1>7. QED
  BY <1>3, <1>5, <1>6, Zenon

LEMMA FindingsOfEntries ==
  ASSUME NEW slice \in Seq(EntryShape)
  PROVE  /\ EntryFindings(slice) \in Seq(Finding)
         /\ EntryFindings(slice) = <<>> <=> Silent(slice, Noted)
<1> DEFINE n == Len(slice)
           finding(entry) ==
             CASE entry.what = "Image" -> <<Coverage(entry.page)>>
               [] entry.what = "Rgb" ->
                    <<[severity |-> "Error", reason |-> "RgbDeviceColor", page |-> entry.page]>>
               [] entry.what = "Unmodeled" ->
                    <<[severity |-> "Review", reason |-> "UnmodeledOrUnresolvedColorSpace",
                       page |-> entry.page]>>
               [] OTHER -> <<>>
           pieces == [i \in 1..n |-> finding(slice[i])]
<1>1. n \in Nat /\ \A i \in 1..n : slice[i] \in EntryShape
  BY LenProperties, ElementOfSeq
<1>2. ASSUME NEW entry \in EntryShape
      PROVE  /\ finding(entry) \in Seq(Finding)
             /\ finding(entry) = <<>> <=> entry.what \notin Noted
  <2> DEFINE image == Coverage(entry.page)
             rgb == [severity |-> "Error", reason |-> "RgbDeviceColor", page |-> entry.page]
             unmodeled == [severity |-> "Review", reason |-> "UnmodeledOrUnresolvedColorSpace",
                           page |-> entry.page]
  <2>1. image \in Finding /\ rgb \in Finding /\ unmodeled \in Finding
    BY DEF EntryShape, Finding, Coverage
  <2>2. /\ entry.what = "Image" => finding(entry) = <<image>>
        /\ entry.what = "Rgb" => finding(entry) = <<rgb>>
        /\ entry.what = "Unmodeled" => finding(entry) = <<unmodeled>>
        /\ entry.what \notin Noted => finding(entry) = <<>>
    BY DEF Noted
  <2> HIDE DEF finding, image, rgb, unmodeled
  <2>3. <<>> \in Seq(Finding) /\ \A v \in Finding : <<v>> \in Seq(Finding) /\ <<v>> # <<>>
    OBVIOUS
  <2>4. QED
    BY <2>1, <2>2, <2>3 DEF Noted
<1>3. EntryFindings(slice) = FlattenSeq(pieces)
  BY DEF EntryFindings
<1> HIDE DEF n, finding
<1>4. pieces \in [1..n -> Seq(Finding)] /\ Len(pieces) = n /\ \A i \in 1..n : pieces[i] = finding(slice[i])
  BY <1>1, <1>2
<1> HIDE DEF pieces
<1>5. /\ FlattenSeq(pieces) \in Seq(Finding)
      /\ FlattenSeq(pieces) = <<>> <=> \A i \in 1..n : pieces[i] = <<>>
  BY <1>1, <1>4, FlattenAny
<1>6. (\A i \in 1..n : pieces[i] = <<>>) <=> Silent(slice, Noted)
  BY <1>1, <1>2, <1>4 DEF Silent, n
<1>7. QED
  BY <1>3, <1>5, <1>6, Zenon

LEMMA Repeats ==
  ASSUME NEW S, NEW value \in S, NEW times \in Nat
  PROVE  /\ Repeat(times, value) \in Seq(S) /\ Len(Repeat(times, value)) = times
         /\ Repeat(times, value) = <<>> <=> times = 0
         /\ \A i \in 1..times : Repeat(times, value)[i] = value
<1> DEFINE all == Repeat(times, value)
<1>1. all \in [1..times -> S] /\ \A i \in 1..times : all[i] = value
  BY DEF Repeat
<1> HIDE DEF all
<1>2. all \in Seq(S)
  BY <1>1
<1>3. Len(all) = times
  BY <1>1, <1>2
<1>4. all = <<>> <=> times = 0
  BY <1>2, <1>3, EmptySeq
<1>5. QED
  BY <1>1, <1>2, <1>3, <1>4 DEF all

(* What a page of the audit adds to the gaps: those of its resources, and   *)
(* the others.                                                              *)
LEMMA GapsAdded ==
  ASSUME NEW old \in Seq(GapShape), NEW ofPage \in Seq(GapShape), OfResources(ofPage),
         NEW others \in Seq(OtherGap)
  PROVE  /\ (old \o ofPage) \o others \in Seq(GapShape)
         /\ OfResources((old \o ofPage) \o others) <=> OfResources(old) /\ others = <<>>
<1> DEFINE n == Len(old)
           p == Len(ofPage)
           x == Len(others)
           front == old \o ofPage
           all == front \o others
<1>1. n \in Nat /\ p \in Nat /\ x \in Nat
  BY LenProperties
<1>2. others \in Seq(GapShape) /\ \A i \in 1..x : others[i].kind # "PageResourceSkipped"
  <2>1. \A i \in 1..x : others[i] \in OtherGap
    BY ElementOfSeq
  <2>2. \A v \in OtherGap : v \in GapShape /\ v.kind # "PageResourceSkipped"
    BY DEF OtherGap, GapShape
  <2>3. others = [i \in 1..x |-> others[i]]
    BY LenProperties
  <2> HIDE DEF x
  <2>4. others \in [1..x -> GapShape]
    BY <2>1, <2>2, <2>3, Zenon
  <2>5. others \in Seq(GapShape)
    BY <1>1, <2>4
  <2>6. QED
    BY <2>1, <2>2, <2>5
<1>3. /\ front \in Seq(GapShape) /\ Len(front) = n + p
      /\ \A i \in 1..(n + p) : front[i] = IF i <= n THEN old[i] ELSE ofPage[i - n]
  BY ConcatProperties
<1> HIDE DEF front
<1>4. /\ all \in Seq(GapShape) /\ Len(all) = (n + p) + x
      /\ \A i \in 1..((n + p) + x) :
           all[i] = IF i <= n + p THEN front[i] ELSE others[i - (n + p)]
  <2>1. /\ front \o others \in Seq(GapShape) /\ Len(front \o others) = Len(front) + Len(others)
        /\ \A i \in 1..(Len(front) + Len(others)) :
             (front \o others)[i] = IF i <= Len(front) THEN front[i] ELSE others[i - Len(front)]
    <3>1. front \in Seq(GapShape) /\ others \in Seq(GapShape)
      BY <1>2, <1>3, Zenon
    <3>2. QED
      BY <3>1, ConcatProperties
  <2>2. Len(front) = n + p /\ Len(others) = x
    BY <1>3
  <2>3. QED
    BY <2>1, <2>2, Zenon
<1>5. others = <<>> <=> x = 0
  BY EmptySeq
<1>6. /\ OfResources(old) <=> \A i \in 1..n : old[i].kind = "PageResourceSkipped"
      /\ \A i \in 1..p : ofPage[i].kind = "PageResourceSkipped"
  BY DEF OfResources
<1> HIDE DEF n, p, x, all
<1>7. ASSUME OfResources(all)
      PROVE  OfResources(old) /\ others = <<>>
  <2>1. \A i \in 1..((n + p) + x) : all[i].kind = "PageResourceSkipped"
    BY <1>4, <1>7 DEF OfResources
  <2>2. \A i \in 1..n : i \in 1..((n + p) + x) /\ i \in 1..(n + p) /\ i <= n + p /\ i <= n
    BY <1>1
  <2>3. \A i \in 1..n : old[i].kind = "PageResourceSkipped"
    BY <1>3, <1>4, <2>1, <2>2
  <2>4. ASSUME x # 0
        PROVE  FALSE
    <3>1. /\ (n + p) + x \in 1..((n + p) + x) /\ ~((n + p) + x <= n + p)
          /\ ((n + p) + x) - (n + p) = x /\ x \in 1..x
      BY <1>1, <2>4
    <3>2. all[(n + p) + x] = others[x]
      BY <1>4, <3>1
    <3>3. QED
      BY <1>2, <2>1, <3>1, <3>2 DEF x
  <2>5. QED
    BY <1>5, <1>6, <2>3, <2>4
<1>8. ASSUME OfResources(old), others = <<>>
      PROVE  OfResources(all)
  <2>1. x = 0 /\ (n + p) + x = n + p
    BY <1>1, <1>5, <1>8
  <2>2. ASSUME NEW i \in 1..(n + p)
        PROVE  front[i].kind = "PageResourceSkipped"
    <3>1. CASE i <= n
      <4>1. i \in 1..n
        BY <1>1, <3>1
      <4>2. QED
        BY <1>3, <1>6, <1>8, <3>1, <4>1
    <3>2. CASE ~(i <= n)
      <4>1. i - n \in 1..p
        BY <1>1, <3>2
      <4>2. QED
        BY <1>3, <1>6, <3>2, <4>1
    <3>3. QED
      BY <3>1, <3>2
  <2>3. \A i \in 1..(n + p) : all[i] = front[i]
    BY <1>1, <1>4, <2>1
  <2>4. QED
    BY <1>4, <2>1, <2>2, <2>3 DEF OfResources
<1>9. QED
  BY <1>4, <1>7, <1>8 DEF all, front

-----------------------------------------------------------------------------
(* A page that is scanned stays as it was when more follow.                 *)
LEMMA MoreKeepsClean ==
  ASSUME NEW n, NEW m, NEW c, NEW found, NEW listed, NEW more, NEW longer,
         Follows(n, m, c, found, listed, more, longer), NEW k \in 1..n, NEW page
  PROVE  Clean(more, page, k) <=> Clean(found, page, k)
<1> USE DEF Follows
<1>1. \A j \in 1..(m + c) : j \in 1..m \/ m < j
  OBVIOUS
<1>2. \A j \in 1..m : j \in 1..(m + c)
  OBVIOUS
<1>3. k - 1 # n
  OBVIOUS
<1>4. (\A j \in 1..(m + c) : more[j].page = k - 1 => more[j].what \notin Noted)
        <=> \A j \in 1..m : found[j].page = k - 1 => found[j].what \notin Noted
  BY <1>1, <1>2, <1>3
<1>5. QED
  BY <1>4 DEF Clean

LEMMA MoreKeepsSummary ==
  ASSUME NEW n, NEW m, NEW c, NEW found, NEW listed, NEW more, NEW longer,
         Follows(n, m, c, found, listed, more, longer), NEW k \in 1..n,
         NEW usage, NEW start, NEW next, start[k] \in 0..m, start[k + 1] \in 0..m,
         next[k] = start[k], next[k + 1] = start[k + 1], Summarises(start, found, usage, k)
  PROVE  Summarises(next, more, usage, k)
<1> USE DEF Follows
<1>1. \A j \in 1..(m + c) : j <= start[k + 1] => j \in 1..m
  OBVIOUS
<1>2. QED
  BY <1>1 DEF Summarises

(* What the two constructors of a page leave behind.                        *)
Adds(page, made) == entries' = entries \o made /\ results' = Append(results, page)

LEMMA PageAdded ==
  ASSUME AuditInv, NEW page \in PageShape, page.page_index = Len(results),
         NEW made \in Seq(EntryShape), page.entry_count = Len(made),
         \A i \in 1..Len(made) : made[i].page = Len(results),
         page.state = "Skipped" => Len(made) = 0,
         Adds(page, made), UNCHANGED <<contents, scanVars>>
  PROVE  AuditInv'
<1> DEFINE n == Len(results)
           m == Len(entries)
           c == Len(made)
           a == Len(audited)
<1>1. n \in Nat /\ m \in Nat /\ c \in Nat /\ a \in Nat /\ a <= n /\ checked \in 0..n
  BY LenProperties DEF AuditInv
<1>2. /\ entries' \in Seq(EntryShape) /\ Len(entries') = m + c
      /\ \A j \in 1..(m + c) : entries'[j] = IF j <= m THEN entries[j] ELSE made[j - m]
  <2>1. entries \in Seq(EntryShape)
    BY DEF AuditInv
  <2>2. QED
    BY <2>1, ConcatProperties DEF Adds
<1>3. /\ results' \in Seq(PageShape) /\ Len(results') = n + 1 /\ results'[n + 1] = page
      /\ \A k \in 1..n : results'[k] = results[k]
  <2>1. results \in Seq(PageShape)
    BY DEF AuditInv
  <2>2. QED
    BY <2>1, AppendProperties DEF Adds
<1>4. \A i \in 1..c : made[i].page = n
  OBVIOUS
<1>5. \A j \in 1..m : entries[j].page \in Nat
  <2>1. \A j \in 1..m : entries[j] \in EntryShape
    BY ElementOfSeq DEF AuditInv
  <2>2. QED
    BY <2>1 DEF EntryShape
<1>6. page.page_index = n /\ page.entry_count = c /\ (page.state = "Skipped" => c = 0)
  OBVIOUS
<1>7. /\ audited' = audited /\ auditCursor' = auditCursor /\ rgb_findings' = rgb_findings
      /\ gaps' = gaps /\ checked' = checked /\ checkCursor' = checkCursor
      /\ findings' = findings /\ contents' = contents
  BY DEF scanVars
<1>8. PICK start : Scanned(start)
  BY DEF AuditInv
<1>9. Starts(start, entries, results) /\ start \in [1..(n + 1) -> 0..m]
  BY <1>8 DEF Scanned, Starts
<1>10. /\ auditCursor = start[a + 1] /\ checkCursor = start[checked + 1]
       /\ \A k \in 1..a : Summarises(start, entries, audited[k], k)
  BY <1>8 DEF Scanned
<1> HIDE DEF n, m, c
<1>11. \A j \in 1..m : entries'[j] = entries[j]
  BY <1>1, <1>2
<1>12. \A j \in 1..(m + c) : m < j => entries'[j].page = n
  <2> SUFFICES ASSUME NEW j \in 1..(m + c), m < j PROVE entries'[j].page = n
    OBVIOUS
  <2>1. ~(j <= m) /\ j - m \in 1..c
    BY <1>1
  <2>2. QED
    BY <1>2, <1>4, <2>1
<1> DEFINE more == entries'
           longer == results'
<1>13. Follows(n, m, c, entries, results, more, longer)
  BY <1>1, <1>2, <1>3, <1>5, <1>6, <1>11, <1>12 DEF n, m, Follows
<1> HIDE DEF more, longer
<1>14. PICK next : Starts(next, more, longer) /\ \A k \in 1..(n + 1) : next[k] = start[k]
  <2>1. Starts(start, entries, results)
    BY <1>9, Zenon
  <2>2. QED
    BY <1>13, <2>1, StartsGrow
<1>15. /\ \A k \in 1..a : k \in 1..n /\ k \in 1..(n + 1) /\ k + 1 \in 1..(n + 1)
       /\ \A k \in 1..checked : k \in 1..n
       /\ a + 1 \in 1..(n + 1) /\ checked + 1 \in 1..(n + 1)
  BY <1>1
<1>16. \A k \in 1..n : \A p : Clean(more, p, k) <=> Clean(entries, p, k)
  BY <1>13, MoreKeepsClean
<1>17. ASSUME NEW k \in 1..a
       PROVE  Summarises(next, more, audited[k], k)
  <2> DEFINE usage == audited[k]
  <2>1. k \in 1..n /\ start[k] \in 0..m /\ start[k + 1] \in 0..m
        /\ next[k] = start[k] /\ next[k + 1] = start[k + 1]
    BY <1>9, <1>14, <1>15
  <2>2. Summarises(start, entries, usage, k)
    BY <1>10
  <2> HIDE DEF usage
  <2>3. Summarises(next, more, usage, k)
    BY <1>13, <2>1, <2>2, MoreKeepsSummary
  <2>4. QED
    BY <2>3 DEF usage
<1>18. Scanned(next)'
  <2>1. auditCursor = next[a + 1] /\ checkCursor = next[checked + 1]
    BY <1>10, <1>14, <1>15
  <2>2. QED
    BY <1>7, <1>14, <1>17, <2>1 DEF Scanned, more, longer
<1>19. \A k \in 1..n : Clean(more, longer[k], k) <=> Clean(entries, results[k], k)
  BY <1>3, <1>16 DEF longer
<1>20. /\ rgb_findings = <<>> /\ OfResources(gaps) <=>
            \A k \in 1..a : Clean(more, longer[k], k)
       /\ findings = <<>> <=> \A k \in 1..checked : Clean(more, longer[k], k)
  <2>1. /\ rgb_findings = <<>> /\ OfResources(gaps) <=>
             \A k \in 1..a : Clean(entries, results[k], k)
        /\ findings = <<>> <=> \A k \in 1..checked : Clean(entries, results[k], k)
    BY DEF AuditInv
  <2>2. QED
    BY <1>15, <1>19, <2>1, Zenon
<1>21. Len(audited') <= Len(results') /\ checked' \in 0..Len(results')
  BY <1>1, <1>3, <1>7
<1>22. /\ contents' \in [Objects -> Content \cup {Absent}] /\ audited' \in Seq(UsageShape)
       /\ gaps' \in Seq(GapShape) /\ rgb_findings' \in Seq(Nat) /\ findings' \in Seq(Finding)
  BY <1>7 DEF AuditInv
<1>23. \E nxt : Scanned(nxt)'
  BY <1>18, Zenon
<1>24. QED
  BY <1>2, <1>3, <1>7, <1>20, <1>21, <1>22, <1>23 DEF AuditInv, more, longer

-----------------------------------------------------------------------------
LEMMA EntriesAreOfThePage ==
  ASSUME NEW leaf, contents[leaf] \in Content, NEW index \in Nat, NEW report
  PROVE  /\ EntriesOf(leaf, index, report) \in Seq(EntryShape)
         /\ \A i \in 1..Len(EntriesOf(leaf, index, report)) :
              EntriesOf(leaf, index, report)[i].page = index
<1> DEFINE T == {e \in EntryShape : e.page = index}
           entry(item) ==
             CASE item \in Paints -> <<[page |-> index, what |-> item]>>
               [] item \in report.images -> <<[page |-> index, what |-> "Image"]>>
               [] \E form \in report.forms : form[1] = item -> <<[page |-> index, what |-> "Form"]>>
               [] OTHER -> <<>>
           items == contents[leaf].items
           n == Len(items)
           pieces == [i \in 1..n |-> entry(items[i])]
           made == EntriesOf(leaf, index, report)
<1>1. n \in Nat
  <2>1. items \in Seq(Paints \cup Names)
    BY DEF Content
  <2>2. QED
    BY <2>1, LenProperties
<1>2. ASSUME NEW item
      PROVE  entry(item) \in Seq(T)
  <2> DEFINE of(what) == [page |-> index, what |-> what]
  <2>1. \A what \in Observed : of(what) \in T
    BY DEF EntryShape
  <2>2. \/ item \in Paints /\ entry(item) = <<of(item)>>
        \/ entry(item) \in {<<of("Image")>>, <<of("Form")>>, <<>>}
    OBVIOUS
  <2>3. Paints \subseteq Observed /\ "Image" \in Observed /\ "Form" \in Observed
    BY DEF Observed
  <2> HIDE DEF T, of, entry
  <2>4. <<>> \in Seq(T) /\ \A v \in T : <<v>> \in Seq(T)
    OBVIOUS
  <2>5. QED
    BY <2>1, <2>2, <2>3, <2>4
<1>3. made = FlattenSeq(pieces)
  BY DEF EntriesOf
<1> HIDE DEF n, entry, items
<1>4. pieces \in [1..n -> Seq(T)] /\ Len(pieces) = n
  BY <1>1, <1>2
<1> HIDE DEF pieces, made
<1>5. made \in Seq(T)
  <2> HIDE DEF T
  <2>1. QED
    BY <1>1, <1>3, <1>4, FlattenAny
<1>6. Len(made) \in Nat /\ \A i \in 1..Len(made) : made[i] \in T
  <2> HIDE DEF T
  <2>1. QED
    BY <1>5, LenProperties, ElementOfSeq
<1>7. made = [i \in 1..Len(made) |-> made[i]]
  BY <1>5, LenProperties
<1>8. \A i \in 1..Len(made) : made[i] \in EntryShape /\ made[i].page = index
  BY <1>6
<1>9. made \in Seq(EntryShape)
  <2>1. made \in [1..Len(made) -> EntryShape]
    BY <1>7, <1>8, Zenon
  <2>2. QED
    BY <1>6, <2>1
<1>10. QED
  BY <1>8, <1>9 DEF made

LEMMA SkipsAreCounted ==
  ASSUME NEW leaf, contents[leaf] \in Content, NEW report
  PROVE  FormSkips(leaf, report) \in Nat
<1> DEFINE items == contents[leaf].items
           n == Len(items)
           S == {i \in 1..n : <<items[i], FALSE>> \in report.forms}
<1>1. n \in Nat
  <2>1. items \in Seq(Paints \cup Names)
    BY DEF Content
  <2>2. QED
    BY <2>1, LenProperties
<1> HIDE DEF items, n
<1>2. IsFiniteSet(1..n)
  <2>1. 1 \in Int /\ n \in Int
    BY <1>1
  <2>2. QED
    BY <2>1, FS_Interval, Zenon
<1>3. S \in SUBSET (1..n)
  OBVIOUS
<1> HIDE DEF S
<1>4. IsFiniteSet(S)
  BY <1>2, <1>3, FS_Subset
<1>5. Cardinality(S) \in Nat
  BY <1>4, FS_CardinalityType
<1>6. FormSkips(leaf, report) = Cardinality(S)
  BY DEF FormSkips, S, n, items
<1>7. QED
  BY <1>5, <1>6

LEMMA ReportsSkip ==
  ASSUME ResourceInv, NEW ordinal \in Nat \ {0}
  PROVE  ReportAt(ordinal).skipped \in Seq(ResourceSkipReasons)
<1>1. CASE ordinal <= Len(resPages)
  <2>1. resPages \in Seq(Report)
    BY DEF ResourceInv
  <2>2. ordinal \in 1..Len(resPages)
    BY <1>1, <2>1, LenProperties
  <2>3. resPages[ordinal] \in Report
    BY <2>1, <2>2, ElementOfSeq
  <2>4. QED
    BY <1>1, <2>3 DEF ReportAt, Report
<1>2. CASE ~(ordinal <= Len(resPages))
  BY <1>2 DEF ReportAt, NoReport
<1>3. QED
  BY <1>1, <1>2

LEMMA InventoryKeepsScans ==
  ASSUME ResourceInv, AuditInv, InventoryPage, UNCHANGED scanVars
  PROVE  AuditInv'
<1>1. PICK leaf \in Objects :
        /\ contents[leaf] # Absent
        /\ LET index == Len(results)
               report == ReportAt(index + 1)
               made == EntriesOf(leaf, index, report)
           IN  /\ entries' = entries \o made
               /\ results' = Append(results,
                    [page_index |-> index, state |-> "Inventoried", entry_count |-> Len(made),
                     form_skipped |-> FormSkips(leaf, report),
                     resource_skipped |-> report.skipped])
        /\ contents' = contents
  BY Zenon DEF InventoryPage, Inventoried
<1> DEFINE index == Len(results)
           report == ReportAt(index + 1)
           made == EntriesOf(leaf, index, report)
           page == [page_index |-> index, state |-> "Inventoried", entry_count |-> Len(made),
                    form_skipped |-> FormSkips(leaf, report), resource_skipped |-> report.skipped]
<1>2. contents[leaf] \in Content
  BY <1>1 DEF AuditInv
<1>3. index \in Nat
  BY LenProperties DEF AuditInv
<1>4. Adds(page, made)
  BY <1>1, Zenon DEF Adds
<1>5. report.skipped \in Seq(ResourceSkipReasons)
  BY <1>3, ReportsSkip
<1> HIDE DEF report
<1>6. made \in Seq(EntryShape) /\ \A i \in 1..Len(made) : made[i].page = Len(results)
  BY <1>2, <1>3, EntriesAreOfThePage
<1>7. Len(made) \in Nat
  BY <1>6, LenProperties
<1>8. FormSkips(leaf, report) \in Nat
  BY <1>2, SkipsAreCounted
<1>9. /\ page \in PageShape /\ page.page_index = Len(results) /\ page.entry_count = Len(made)
      /\ page.state # "Skipped"
  <2> HIDE DEF made
  <2>1. QED
    BY <1>3, <1>5, <1>7, <1>8 DEF PageShape
<1>10. UNCHANGED <<contents, scanVars>>
  BY <1>1
<1> HIDE DEF made, page
<1>11. QED
  BY <1>4, <1>6, <1>9, <1>10, PageAdded

LEMMA SkippingKeepsScans ==
  ASSUME ResourceInv, AuditInv, SkipPage, UNCHANGED scanVars
  PROVE  AuditInv'
<1> DEFINE index == Len(results)
           skips == ReportAt(index + 1).skipped
           page == [page_index |-> index, state |-> "Skipped", entry_count |-> 0,
                    form_skipped |-> 0, resource_skipped |-> skips]
<1>1. results' = Append(results, page) /\ contents' = contents /\ entries' = entries
  BY DEF SkipPage
<1>2. index \in Nat /\ entries \in Seq(EntryShape)
  BY LenProperties DEF AuditInv
<1>3. skips \in Seq(ResourceSkipReasons)
  BY <1>2, ReportsSkip
<1> HIDE DEF skips
<1>4. PICK none \in Seq(EntryShape) : Len(none) = 0 /\ none = <<>>
  <2>1. <<>> \in Seq(EntryShape) /\ Len(<<>>) = 0
    OBVIOUS
  <2>2. QED
    BY <2>1, Zenon
<1>5. Adds(page, none)
  <2>1. entries \o <<>> = entries
    BY <1>2, ConcatEmptySeq
  <2>2. entries \o none = entries
    BY <1>4, <2>1, Zenon
  <2>3. QED
    BY <1>1, <2>2, Zenon DEF Adds
<1>6. /\ page \in PageShape /\ page.page_index = Len(results) /\ page.entry_count = Len(none)
      /\ \A i \in 1..Len(none) : none[i].page = Len(results)
  BY <1>2, <1>3, <1>4 DEF PageShape
<1>7. UNCHANGED <<contents, scanVars>>
  BY <1>1
<1>8. page.state = "Skipped" => Len(none) = 0
  BY <1>4
<1> HIDE DEF page
<1>9. QED
  BY <1>5, <1>6, <1>7, <1>8, PageAdded, Zenon

-----------------------------------------------------------------------------
(* A cursor at the start of a page slices that page.                        *)
Mentions(found, k, whats) ==
  \A j \in 1..Len(found) : found[j].page = k - 1 => found[j].what \notin whats

SliceIs(slice, start, k) ==
  /\ slice \in Seq(EntryShape) /\ Len(slice) \in Nat
  /\ start[k] \in Nat /\ start[k + 1] = start[k] + Len(slice)
  /\ \A j \in 1..Len(entries) :
       start[k] < j /\ j <= start[k + 1] => slice[j - start[k]] = entries[j]
  /\ \A whats : Silent(slice, whats) <=> Mentions(entries, k, whats)

LEMMA SlicesOfPages ==
  ASSUME AuditInv, NEW start, Scanned(start), NEW k \in 1..Len(results)
  PROVE  SliceIs(Slice(start[k], results[k].entry_count), start, k)
<1> DEFINE n == Len(results)
           m == Len(entries)
           from == start[k]
           to == start[k + 1]
           c == results[k].entry_count
           slice == Slice(from, c)
<1>1. n \in Nat /\ m \in Nat /\ entries \in Seq(EntryShape)
  BY LenProperties DEF AuditInv
<1>2. /\ start \in [1..(n + 1) -> 0..m] /\ to = from + c
      /\ \A j \in 1..m : entries[j].page = k - 1 <=> from < j /\ j <= to
  BY DEF Scanned, Starts
<1>3. c \in Nat
  <2>1. results[k] \in PageShape
    BY ElementOfSeq DEF AuditInv
  <2>2. QED
    BY <2>1 DEF PageShape
<1>4. from \in 0..m /\ to \in 0..m
  <2>1. k \in 1..(n + 1) /\ k + 1 \in 1..(n + 1)
    BY <1>1
  <2>2. QED
    BY <1>2, <2>1
<1>5. from \in Nat /\ from + c <= m
  BY <1>1, <1>2, <1>3, <1>4
<1>6. /\ slice \in Seq(EntryShape) /\ Len(slice) = c
      /\ \A i \in 1..c : slice[i] = entries[from + i]
  BY <1>1, <1>3, <1>5, SliceIsBetween
<1> HIDE DEF slice, c, to, from, m
<1>7. \A j \in 1..m : from < j /\ j <= to => j - from \in 1..c /\ from + (j - from) = j
  BY <1>1, <1>2, <1>3, <1>5
<1>8. \A j \in 1..m : from < j /\ j <= to => slice[j - from] = entries[j]
  BY <1>6, <1>7
<1>9. \A i \in 1..c : from + i \in 1..m /\ from < from + i /\ from + i <= to
  BY <1>1, <1>2, <1>3, <1>5
<1>10. ASSUME NEW whats
       PROVE  Silent(slice, whats) <=> Mentions(entries, k, whats)
  <2>1. ASSUME Silent(slice, whats), NEW j \in 1..m, entries[j].page = k - 1
        PROVE  entries[j].what \notin whats
    <3>1. j - from \in 1..c /\ slice[j - from] = entries[j]
      BY <1>2, <1>7, <1>8, <2>1
    <3>2. \A i \in 1..c : slice[i].what \notin whats
      BY <1>6, <2>1 DEF Silent
    <3>3. QED
      BY <3>1, <3>2
  <2>2. ASSUME Mentions(entries, k, whats), NEW i \in 1..c
        PROVE  slice[i].what \notin whats
    <3>1. from + i \in 1..m /\ entries[from + i].page = k - 1 /\ slice[i] = entries[from + i]
      BY <1>2, <1>6, <1>9
    <3>2. \A j \in 1..m : entries[j].page = k - 1 => entries[j].what \notin whats
      BY <2>2 DEF Mentions, m
    <3>3. QED
      BY <3>1, <3>2
  <2>3. QED
    BY <1>6, <2>1, <2>2 DEF Silent, Mentions, m
<1>11. Len(slice) \in Nat /\ to = from + Len(slice)
  BY <1>2, <1>3, <1>6
<1>12. SliceIs(slice, start, k)
  BY <1>5, <1>6, <1>8, <1>10, <1>11 DEF SliceIs, from, to, m
<1>13. QED
  BY <1>12 DEF slice, from, c

(* What one page adds to the gaps of the audit, beside its resources.       *)
OtherGaps(page, slice) ==
  IF page.state = "Skipped" THEN <<[kind |-> "SkippedPage", page |-> page.page_index]>>
  ELSE EntryGaps(slice)
         \o Repeat(page.form_skipped, [kind |-> "FormExpansionSkipped", page |-> page.page_index])

Summary(page, slice) == IF page.state = "Skipped" THEN <<>> ELSE slice

LEMMA AuditOfPage ==
  ASSUME AuditInv, NEW start, NEW k \in 1..Len(results), NEW slice, SliceIs(slice, start, k)
  PROVE  /\ OtherGaps(results[k], slice) \in Seq(OtherGap)
         /\ RgbPages(Summary(results[k], slice)) \in Seq(Nat)
         /\ OtherGaps(results[k], slice) = <<>> /\ RgbPages(Summary(results[k], slice)) = <<>>
              <=> Clean(entries, results[k], k)
<1> DEFINE page == results[k]
           summary == Summary(page, slice)
<1>1. page \in PageShape
  BY ElementOfSeq DEF AuditInv
<1>2. slice \in Seq(EntryShape) /\ \A whats : Silent(slice, whats) <=> Mentions(entries, k, whats)
  BY DEF SliceIs
<1> HIDE DEF page
<1>3. page.page_index \in Nat /\ page.form_skipped \in Nat /\ page.state \in {"Inventoried", "Skipped"}
  BY <1>1 DEF PageShape
<1>4. CASE page.state = "Skipped"
  <2> DEFINE gap == [kind |-> "SkippedPage", page |-> page.page_index]
  <2>1. gap \in OtherGap
    BY <1>3 DEF OtherGap, GapKinds
  <2>2. OtherGaps(page, slice) = <<gap>> /\ summary = <<>>
    BY <1>4 DEF OtherGaps, Summary
  <2> HIDE DEF gap
  <2>3. <<gap>> \in Seq(OtherGap) /\ <<gap>> # <<>>
    BY <2>1
  <2>4. ~Clean(entries, page, k)
    BY <1>4 DEF Clean
  <2>5. PICK none \in Seq(EntryShape) : none = <<>>
    BY Zenon, EmptySeq
  <2>6. RgbPages(none) \in Seq(Nat)
    BY RgbOfEntries
  <2>7. QED
    BY <2>2, <2>3, <2>4, <2>5, <2>6 DEF page
<1>5. CASE page.state # "Skipped"
  <2> DEFINE gap == [kind |-> "FormExpansionSkipped", page |-> page.page_index]
             forms == Repeat(page.form_skipped, gap)
  <2>1. gap \in OtherGap
    BY <1>3 DEF OtherGap, GapKinds
  <2>2. OtherGaps(page, slice) = EntryGaps(slice) \o forms /\ summary = slice
    BY <1>5 DEF OtherGaps, Summary
  <2> HIDE DEF gap
  <2>3. forms \in Seq(OtherGap) /\ (forms = <<>> <=> page.form_skipped = 0)
    BY <1>3, <2>1, Repeats
  <2> HIDE DEF forms
  <2>4. /\ EntryGaps(slice) \in Seq(OtherGap)
        /\ EntryGaps(slice) = <<>> <=> Mentions(entries, k, {"Image", "Unmodeled"})
    BY <1>2, GapsOfEntries
  <2>5. /\ RgbPages(slice) \in Seq(Nat)
        /\ RgbPages(slice) = <<>> <=> Mentions(entries, k, {"Rgb"})
    BY <1>2, RgbOfEntries
  <2>6. /\ OtherGaps(page, slice) \in Seq(OtherGap)
        /\ OtherGaps(page, slice) = <<>> <=> EntryGaps(slice) = <<>> /\ forms = <<>>
    BY <2>2, <2>3, <2>4, EmptyJoin
  <2>7. Clean(entries, page, k) <=>
          /\ page.form_skipped = 0
          /\ Mentions(entries, k, {"Image", "Unmodeled"}) /\ Mentions(entries, k, {"Rgb"})
    BY <1>5 DEF Clean, Mentions, Noted
  <2> HIDE DEF summary
  <2>8. RgbPages(summary) = RgbPages(slice)
    BY <2>2
  <2>9. QED
    BY <2>3, <2>4, <2>5, <2>6, <2>7, <2>8 DEF page, summary
<1>6. QED
  BY <1>4, <1>5

LEMMA FindingsOfPage ==
  ASSUME AuditInv, NEW start, NEW k \in 1..Len(results), NEW slice, SliceIs(slice, start, k)
  PROVE  /\ PageFindings(results[k], slice) \in Seq(Finding)
         /\ PageFindings(results[k], slice) = <<>> <=> Clean(entries, results[k], k)
<1> DEFINE page == results[k]
<1>1. page \in PageShape
  BY ElementOfSeq DEF AuditInv
<1>2. slice \in Seq(EntryShape) /\ \A whats : Silent(slice, whats) <=> Mentions(entries, k, whats)
  BY DEF SliceIs
<1> HIDE DEF page
<1>3. page.page_index \in Nat /\ page.form_skipped \in Nat /\ page.state \in {"Inventoried", "Skipped"}
  BY <1>1 DEF PageShape
<1> DEFINE missed == Coverage(page.page_index)
           forms == Repeat(page.form_skipped, missed)
<1>4. missed \in Finding
  BY <1>3 DEF Coverage, Finding
<1>5. CASE page.state = "Skipped"
  <2>1. PageFindings(page, slice) = <<missed>> /\ ~Clean(entries, page, k)
    BY <1>5 DEF PageFindings, Clean
  <2> HIDE DEF missed
  <2>2. <<missed>> \in Seq(Finding) /\ <<missed>> # <<>>
    BY <1>4
  <2>3. QED
    BY <2>1, <2>2 DEF page
<1>6. CASE page.state # "Skipped"
  <2>1. PageFindings(page, slice) = EntryFindings(slice) \o forms
    BY <1>6 DEF PageFindings
  <2> HIDE DEF missed
  <2>2. forms \in Seq(Finding) /\ (forms = <<>> <=> page.form_skipped = 0)
    BY <1>3, <1>4, Repeats
  <2> HIDE DEF forms
  <2>3. /\ EntryFindings(slice) \in Seq(Finding)
        /\ EntryFindings(slice) = <<>> <=> Mentions(entries, k, Noted)
    BY <1>2, FindingsOfEntries
  <2>4. /\ PageFindings(page, slice) \in Seq(Finding)
        /\ PageFindings(page, slice) = <<>> <=> EntryFindings(slice) = <<>> /\ forms = <<>>
    BY <2>1, <2>2, <2>3, EmptyJoin
  <2>5. Clean(entries, page, k) <=> page.form_skipped = 0 /\ Mentions(entries, k, Noted)
    BY <1>6 DEF Clean, Mentions
  <2>6. QED
    BY <2>2, <2>3, <2>4, <2>5 DEF page
<1>7. QED
  BY <1>5, <1>6

-----------------------------------------------------------------------------
LEMMA ResourceGapsAreOfResources ==
  ASSUME NEW page \in PageShape
  PROVE  ResourceGaps(page) \in Seq(GapShape) /\ OfResources(ResourceGaps(page))
<1> DEFINE skips == page.resource_skipped
           n == Len(skips)
           S == {i \in 1..n : UnclassifiedSkip(skips[i])}
           gap == [kind |-> "PageResourceSkipped", page |-> page.page_index]
           times == Cardinality(S)
           all == Repeat(times, gap)
<1>1. n \in Nat
  <2>1. skips \in Seq(ResourceSkipReasons)
    BY DEF PageShape
  <2>2. QED
    BY <2>1, LenProperties
<1>2. gap \in GapShape /\ gap.kind = "PageResourceSkipped"
  BY DEF PageShape, GapShape, GapKinds
<1>3. ResourceGaps(page) = all
  BY DEF ResourceGaps
<1>4. times \in Nat
  <2> HIDE DEF n, skips
  <2>1. 1 \in Int /\ n \in Int
    BY <1>1
  <2>2. IsFiniteSet(1..n)
    BY <2>1, FS_Interval, Zenon
  <2>3. S \in SUBSET (1..n)
    OBVIOUS
  <2> HIDE DEF S
  <2>4. IsFiniteSet(S)
    BY <2>2, <2>3, FS_Subset
  <2>5. QED
    BY <2>4, FS_CardinalityType
<1> HIDE DEF times, gap
<1>5. /\ all \in Seq(GapShape) /\ Len(all) = times
      /\ \A i \in 1..times : all[i] = gap
  BY <1>2, <1>4, Repeats
<1>6. \A i \in 1..Len(all) : all[i].kind = "PageResourceSkipped"
  BY <1>2, <1>5
<1>7. QED
  BY <1>3, <1>5, <1>6 DEF OfResources

LEMMA AuditKeepsScans ==
  ASSUME AuditInv, AuditPage
  PROVE  AuditInv'
<1> DEFINE a == Len(audited)
           k == a + 1
           page == results[k]
           slice == Slice(auditCursor, page.entry_count)
           summary == Summary(page, slice)
           usage == [page |-> page.page_index, summary |-> summary]
           others == OtherGaps(page, slice)
           rgb == RgbPages(summary)
<1>1. /\ gaps' = (gaps \o ResourceGaps(page)) \o others
      /\ rgb_findings' = rgb_findings \o rgb
      /\ audited' = Append(audited, usage)
      /\ auditCursor' = auditCursor + Len(summary)
  BY DEF AuditPage, OtherGaps, Summary
<1>2. /\ contents' = contents /\ entries' = entries /\ results' = results
      /\ checked' = checked /\ checkCursor' = checkCursor /\ findings' = findings
  BY DEF AuditPage, pdfVars
<1>3. /\ a \in Nat /\ Len(results) \in Nat /\ a < Len(results) /\ k \in 1..Len(results)
      /\ checked \in 0..Len(results)
  <2>1. a \in Nat /\ Len(results) \in Nat /\ checked \in 0..Len(results)
    BY LenProperties DEF AuditInv
  <2>2. a < Len(results)
    BY DEF AuditPage
  <2>3. QED
    BY <2>1, <2>2
<1>4. PICK start : Scanned(start)
  BY DEF AuditInv
<1>5. /\ Starts(start, entries, results) /\ auditCursor = start[k] /\ checkCursor = start[checked + 1]
      /\ \A i \in 1..a : Summarises(start, entries, audited[i], i)
  BY <1>4 DEF Scanned
<1>6. SliceIs(slice, start, k)
  BY <1>3, <1>4, <1>5, SlicesOfPages
<1> HIDE DEF slice
<1>7. /\ others \in Seq(OtherGap) /\ rgb \in Seq(Nat)
      /\ others = <<>> /\ rgb = <<>> <=> Clean(entries, page, k)
  BY <1>3, <1>6, AuditOfPage
<1>8. page \in PageShape
  BY <1>3, ElementOfSeq DEF AuditInv
<1>9. page.page_index = k - 1 /\ start[k + 1] = start[k] + page.entry_count
      /\ (page.state = "Skipped" => page.entry_count = 0)
  BY <1>3, <1>5 DEF Starts
<1> HIDE DEF a, page, others, rgb
<1>10. /\ summary \in Seq(EntryShape) /\ start[k + 1] = start[k] + Len(summary)
       /\ Summarises(start, entries, usage, k)
  <2>1. /\ slice \in Seq(EntryShape) /\ Len(slice) \in Nat
        /\ start[k] \in Nat /\ start[k + 1] = start[k] + Len(slice)
        /\ \A j \in 1..Len(entries) :
             start[k] < j /\ j <= start[k + 1] => slice[j - start[k]] = entries[j]
    BY <1>6 DEF SliceIs
  <2>2. CASE page.state = "Skipped"
    <3>1. page.entry_count = 0 /\ start[k + 1] = start[k]
      BY <1>9, <2>1, <2>2
    <3>2. PICK none \in Seq(EntryShape) : none = <<>> /\ Len(none) = 0
      <4>1. <<>> \in Seq(EntryShape) /\ Len(<<>>) = 0
        OBVIOUS
      <4>2. QED
        BY <4>1, Zenon
    <3>3. summary = none
      BY <2>2, <3>2 DEF Summary
    <3> HIDE DEF summary
    <3>4. \A j \in 1..Len(entries) : ~(start[k] < j /\ j <= start[k + 1])
      <4>1. Len(entries) \in Nat
        BY LenProperties DEF AuditInv
      <4>2. QED
        BY <2>1, <3>1, <4>1
    <3>5. Len(summary) = 0 /\ start[k + 1] - start[k] = 0 /\ start[k] + 0 = start[k]
      BY <2>1, <3>1, <3>2, <3>3
    <3>6. usage.page = k - 1 /\ usage.summary = summary
      BY <1>9
    <3>7. QED
      BY <3>1, <3>2, <3>3, <3>4, <3>5, <3>6 DEF Summarises
  <2>3. CASE page.state # "Skipped"
    <3>1. summary = slice
      BY <2>3 DEF Summary
    <3> HIDE DEF summary
    <3>2. start[k + 1] - start[k] = Len(slice)
      BY <2>1
    <3>3. usage.page = k - 1 /\ usage.summary = slice
      BY <1>9, <3>1
    <3>4. QED
      BY <2>1, <3>1, <3>2, <3>3 DEF Summarises
  <2>4. QED
    BY <2>2, <2>3
<1> HIDE DEF summary
<1>11. usage \in UsageShape
  BY <1>8, <1>10 DEF UsageShape, PageShape
<1> HIDE DEF usage
<1>12. /\ audited' \in Seq(UsageShape) /\ Len(audited') = k /\ audited'[k] = usage
       /\ \A i \in 1..a : audited'[i] = audited[i]
  <2>1. audited \in Seq(UsageShape)
    BY DEF AuditInv
  <2>2. QED
    BY <1>1, <1>11, <2>1, AppendProperties DEF a
<1>13. \A i \in 1..k : i \in 1..a \/ i = k
  BY <1>3
<1>14. Scanned(start)'
  <2>1. \A i \in 1..k : Summarises(start, entries, audited'[i], i)
    BY <1>5, <1>10, <1>12, <1>13
  <2>2. auditCursor' = start[k + 1]
    BY <1>1, <1>5, <1>10
  <2> HIDE DEF k
  <2>3. QED
    BY <1>2, <1>5, <1>12, <2>1, <2>2 DEF Scanned
<1>15. rgb_findings' \in Seq(Nat) /\ (rgb_findings' = <<>> <=> rgb_findings = <<>> /\ rgb = <<>>)
  <2>1. rgb_findings \in Seq(Nat)
    BY DEF AuditInv
  <2>2. QED
    BY <1>1, <1>7, <2>1, EmptyJoin
<1>16. gaps' \in Seq(GapShape) /\ (OfResources(gaps') <=> OfResources(gaps) /\ others = <<>>)
  <2>1. gaps \in Seq(GapShape)
    BY DEF AuditInv
  <2>2. ResourceGaps(page) \in Seq(GapShape) /\ OfResources(ResourceGaps(page))
    BY <1>8, ResourceGapsAreOfResources
  <2>3. LET new == (gaps \o ResourceGaps(page)) \o others
        IN  new \in Seq(GapShape) /\ (OfResources(new) <=> OfResources(gaps) /\ others = <<>>)
    BY <1>7, <2>1, <2>2, GapsAdded
  <2>4. QED
    BY <1>1, <2>3, Zenon
<1>17. rgb_findings' = <<>> /\ OfResources(gaps') <=>
         \A i \in 1..k : Clean(entries, results[i], i)
  <2>1. rgb_findings = <<>> /\ OfResources(gaps) <=>
          \A i \in 1..a : Clean(entries, results[i], i)
    BY DEF AuditInv, a
  <2>2. (\A i \in 1..k : Clean(entries, results[i], i)) <=>
          (\A i \in 1..a : Clean(entries, results[i], i)) /\ Clean(entries, page, k)
    <3>1. k \in 1..k /\ \A i \in 1..a : i \in 1..k
      BY <1>3
    <3>2. page = results[k]
      BY DEF page
    <3> HIDE DEF k
    <3>3. QED
      BY <1>13, <3>1, <3>2
  <2>3. QED
    BY <1>7, <1>15, <1>16, <2>1, <2>2
<1>18. \E s : Scanned(s)'
  BY <1>14, Zenon
<1>19. k <= Len(results)
  BY <1>3
<1>20. /\ contents \in [Objects -> Content \cup {Absent}]
       /\ entries \in Seq(EntryShape) /\ results \in Seq(PageShape) /\ findings \in Seq(Finding)
       /\ findings = <<>> <=> \A i \in 1..checked : Clean(entries, results[i], i)
  BY DEF AuditInv
<1> HIDE DEF k
<1>21. QED
  BY <1>2, <1>3, <1>12, <1>15, <1>16, <1>17, <1>18, <1>19, <1>20 DEF AuditInv

LEMMA CheckKeepsScans ==
  ASSUME AuditInv, CheckPage
  PROVE  AuditInv'
<1> DEFINE k == checked + 1
           page == results[k]
           slice == Slice(checkCursor, page.entry_count)
           found == PageFindings(page, slice)
<1>1. /\ findings' = findings \o found
      /\ checkCursor' = checkCursor + (IF page.state = "Skipped" THEN 0 ELSE Len(slice))
      /\ checked' = k
  BY DEF CheckPage
<1>2. /\ contents' = contents /\ entries' = entries /\ results' = results
      /\ audited' = audited /\ auditCursor' = auditCursor /\ rgb_findings' = rgb_findings
      /\ gaps' = gaps
  BY DEF CheckPage, pdfVars
<1>3. /\ checked \in 0..Len(results) /\ Len(results) \in Nat /\ k \in 1..Len(results)
      /\ Len(audited) <= Len(results)
  <2>1. checked \in 0..Len(results) /\ Len(results) \in Nat /\ Len(audited) <= Len(results)
    BY LenProperties DEF AuditInv
  <2>2. checked < Len(results)
    BY DEF CheckPage
  <2>3. QED
    BY <2>1, <2>2
<1>4. PICK start : Scanned(start)
  BY DEF AuditInv
<1>5. /\ Starts(start, entries, results) /\ checkCursor = start[k]
      /\ auditCursor = start[Len(audited) + 1]
      /\ \A i \in 1..Len(audited) : Summarises(start, entries, audited[i], i)
  BY <1>4 DEF Scanned
<1>6. SliceIs(slice, start, k)
  BY <1>3, <1>4, <1>5, SlicesOfPages
<1> HIDE DEF slice
<1>7. found \in Seq(Finding) /\ (found = <<>> <=> Clean(entries, page, k))
  BY <1>3, <1>6, FindingsOfPage
<1>8. start[k + 1] = start[k] + page.entry_count /\ (page.state = "Skipped" => page.entry_count = 0)
  BY <1>3, <1>5 DEF Starts
<1>9. start[k] \in Nat /\ start[k + 1] = start[k] + Len(slice)
  BY <1>6 DEF SliceIs
<1> HIDE DEF page, found
<1>10. checkCursor' = start[k + 1]
  <2>1. CASE page.state = "Skipped"
    BY <1>1, <1>5, <1>8, <1>9, <2>1
  <2>2. CASE page.state # "Skipped"
    BY <1>1, <1>5, <1>9, <2>2
  <2>3. QED
    BY <2>1, <2>2
<1>11. findings' \in Seq(Finding) /\ (findings' = <<>> <=> findings = <<>> /\ found = <<>>)
  <2>1. findings \in Seq(Finding)
    BY DEF AuditInv
  <2>2. QED
    BY <1>1, <1>7, <2>1, EmptyJoin
<1>12. findings' = <<>> <=> \A i \in 1..k : Clean(entries, results[i], i)
  <2>1. findings = <<>> <=> \A i \in 1..checked : Clean(entries, results[i], i)
    BY DEF AuditInv
  <2>2. k \in 1..k /\ \A i \in 1..checked : i \in 1..k
    BY <1>3
  <2>3. page = results[k] /\ \A i \in 1..k : i \in 1..checked \/ i = k
    BY <1>3 DEF page
  <2> HIDE DEF k
  <2>4. QED
    BY <1>7, <1>11, <2>1, <2>2, <2>3
<1>13. Scanned(start)'
  <2> HIDE DEF k
  <2>1. QED
    BY <1>1, <1>2, <1>5, <1>10 DEF Scanned
<1>14. \E s : Scanned(s)'
  BY <1>13, Zenon
<1>15. k \in 0..Len(results)
  BY <1>3
<1>16. /\ contents \in [Objects -> Content \cup {Absent}]
       /\ entries \in Seq(EntryShape) /\ results \in Seq(PageShape) /\ audited \in Seq(UsageShape)
       /\ gaps \in Seq(GapShape) /\ rgb_findings \in Seq(Nat)
       /\ rgb_findings = <<>> /\ OfResources(gaps) <=>
            \A i \in 1..Len(audited) : Clean(entries, results[i], i)
  BY DEF AuditInv
<1> HIDE DEF k
<1>17. QED
  BY <1>1, <1>2, <1>3, <1>11, <1>12, <1>14, <1>15, <1>16 DEF AuditInv

-----------------------------------------------------------------------------
LEMMA ScansStart == ReadInit => ResourceInv /\ AuditInv
<1> SUFFICES ASSUME ReadInit PROVE ResourceInv /\ AuditInv
  OBVIOUS
<1>1. resources \in [Objects -> Statement] /\ contents \in [Objects -> Content \cup {Absent}]
  BY PdfDocumentsAreShaped DEF ReadInit
<1>2. resPhase = "idle" /\ resFrames = <<>> /\ resPages = <<>>
  BY DEF ReadInit, PdfInit, ResourceInit
<1>3. ResourceInv
  BY <1>1, <1>2 DEF ResourceInv
<1>4. /\ entries = <<>> /\ results = <<>> /\ audited = <<>> /\ auditCursor = 0
      /\ rgb_findings = <<>> /\ gaps = <<>> /\ checked = 0 /\ checkCursor = 0 /\ findings = <<>>
  BY DEF ReadInit, PdfInit
<1>5. Len(entries) = 0 /\ Len(results) = 0 /\ Len(audited) = 0 /\ Len(gaps) = 0
  BY <1>4
<1> DEFINE start == [k \in 1..1 |-> 0]
<1>6. start \in [1..(0 + 1) -> 0..0] /\ start[1] = 0 /\ start[0 + 1] = 0
  OBVIOUS
<1> HIDE DEF start
<1>7. \A k \in 1..0 : FALSE
  OBVIOUS
<1>8. Starts(start, entries, results)
  BY <1>5, <1>6, <1>7 DEF Starts
<1>9. Scanned(start)
  BY <1>4, <1>5, <1>6, <1>7, <1>8 DEF Scanned
<1>10. OfResources(gaps)
  BY <1>5, <1>7 DEF OfResources
<1>11. /\ entries \in Seq(EntryShape) /\ results \in Seq(PageShape) /\ audited \in Seq(UsageShape)
       /\ gaps \in Seq(GapShape) /\ rgb_findings \in Seq(Nat) /\ findings \in Seq(Finding)
  BY <1>4, EmptySeq
<1>12. Len(audited) <= Len(results) /\ checked \in 0..Len(results)
  BY <1>4, <1>5
<1>13. AuditInv
  BY <1>1, <1>4, <1>5, <1>7, <1>9, <1>10, <1>11, <1>12, Zenon DEF AuditInv
<1>14. QED
  BY <1>3, <1>13

LEMMA OtherStepsKeepScans ==
  ASSUME AuditInv, UNCHANGED <<contents, entries, results, scanVars>>
  PROVE  AuditInv'
<1>1. /\ contents' = contents /\ entries' = entries /\ results' = results /\ audited' = audited
      /\ auditCursor' = auditCursor /\ rgb_findings' = rgb_findings /\ gaps' = gaps
      /\ checked' = checked /\ checkCursor' = checkCursor /\ findings' = findings
  BY DEF scanVars
<1>2. \A start : Scanned(start) => Scanned(start)'
  BY <1>1 DEF Scanned
<1>3. \E start : Scanned(start)'
  BY <1>2 DEF AuditInv
<1>4. QED
  BY <1>1, <1>3 DEF AuditInv

LEMMA OtherStepsKeepReports ==
  ASSUME ResourceInv, UNCHANGED <<resources, resVars>>
  PROVE  ResourceInv'
BY DEF ResourceInv, resVars

LEMMA ReadStepsKeepScans ==
  ASSUME ResourceInv, AuditInv, [ReadNext]_readVars
  PROVE  ResourceInv' /\ AuditInv'
<1>1. CASE InspectPageBoxes \/ OpenForAudit \/ UNCHANGED readVars
  <2>1. UNCHANGED <<resources, resVars>> /\ UNCHANGED <<contents, entries, results, scanVars>>
    BY <1>1 DEF InspectPageBoxes, OpenForAudit, readVars, pdfVars
  <2>2. QED
    BY <2>1, OtherStepsKeepScans, OtherStepsKeepReports
<1>2. CASE BuildInventory
  <2>1. UNCHANGED scanVars
    BY <1>2 DEF BuildInventory
  <2>2. CASE LocateContent
    <3>1. UNCHANGED <<resources, resVars>> /\ UNCHANGED <<contents, entries, results>>
      BY <2>2 DEF LocateContent
    <3>2. QED
      BY <2>1, <3>1, OtherStepsKeepScans, OtherStepsKeepReports
  <2>3. CASE InspectResources
    <3>1. ResourceStep /\ UNCHANGED <<contents, entries, results>>
      BY <2>3 DEF InspectResources
    <3>2. QED
      BY <2>1, <3>1, OtherStepsKeepScans, ResourceStepsAreTyped
  <2>4. CASE InventoryPage
    <3>1. UNCHANGED <<resources, resVars>>
      BY <2>4 DEF InventoryPage
    <3>2. QED
      BY <2>1, <2>4, <3>1, InventoryKeepsScans, OtherStepsKeepReports
  <2>5. CASE SkipPage
    <3>1. UNCHANGED <<resources, resVars>>
      BY <2>5 DEF SkipPage
    <3>2. QED
      BY <2>1, <2>5, <3>1, SkippingKeepsScans, OtherStepsKeepReports
  <2>6. QED
    BY <1>2, <2>2, <2>3, <2>4, <2>5 DEF BuildInventory, PdfStep
<1>3. CASE AuditPage
  <2>1. UNCHANGED <<resources, resVars>>
    BY <1>3 DEF AuditPage, pdfVars
  <2>2. QED
    BY <1>3, <2>1, AuditKeepsScans, OtherStepsKeepReports
<1>4. CASE CheckPage
  <2>1. UNCHANGED <<resources, resVars>>
    BY <1>4 DEF CheckPage, pdfVars
  <2>2. QED
    BY <1>4, <2>1, CheckKeepsScans, OtherStepsKeepReports
<1>5. QED
  BY <1>1, <1>2, <1>3, <1>4 DEF ReadNext, AuditStep, AuditAnswered

(***************************************************************************)
(* The check passes if and only if it found nothing, and it finds nothing  *)
(* exactly on the pages where the audit sees no DeviceRGB and no gap but   *)
(* in the resources.                                                       *)
(***************************************************************************)
THEOREM VerdictsAlwaysAgree == ReadSpec => []VerdictsAgree
<1>1. ReadInit => ResourceInv /\ AuditInv
  BY ScansStart
<1>2. ResourceInv /\ AuditInv /\ [ReadNext]_readVars => ResourceInv' /\ AuditInv'
  BY ReadStepsKeepScans
<1>3. AuditInv => VerdictsAgree
  <2> SUFFICES ASSUME AuditInv, Checked
               PROVE  PreflightStatus = "Pass" <=>
                        rgb_findings = <<>> /\ \A i \in 1..Len(gaps) : gaps[i].kind = "PageResourceSkipped"
    BY DEF VerdictsAgree
  <2>1. PreflightStatus = "Pass" <=> findings = <<>>
    <3> DEFINE n == Len(findings)
               severities == {findings[i].severity : i \in 1..n}
    <3>1. n \in Nat /\ (findings = <<>> <=> n = 0) /\ \A i \in 1..n : findings[i] \in Finding
      BY LenProperties, ElementOfSeq, EmptySeq DEF AuditInv
    <3>2. PreflightStatus = IF "Error" \in severities THEN "Fail"
                            ELSE IF "Review" \in severities THEN "NeedsReview" ELSE "Pass"
      BY DEF PreflightStatus
    <3>3. \A i \in 1..n : findings[i].severity \in {"Error", "Review"}
      BY <3>1 DEF Finding
    <3> HIDE DEF n
    <3>4. severities \subseteq {"Error", "Review"} /\ (severities = {} <=> n = 0)
      <4>1. n # 0 => 1 \in 1..n
        BY <3>1
      <4>2. n = 0 => 1..n = {}
        OBVIOUS
      <4>3. QED
        BY <3>3, <4>1, <4>2
    <3> HIDE DEF severities
    <3>5. PreflightStatus = "Pass" <=> "Error" \notin severities /\ "Review" \notin severities
      BY <3>2
    <3>6. QED
      BY <3>1, <3>4, <3>5
  <2>2. Len(audited) = Len(results) /\ checked = Len(results)
    BY DEF Checked, Audited
  <2>3. findings = <<>> <=> rgb_findings = <<>> /\ OfResources(gaps)
    BY <2>2, Zenon DEF AuditInv
  <2>4. QED
    BY <2>1, <2>3 DEF OfResources
<1>4. QED
  BY <1>1, <1>2, <1>3, PTL DEF ReadSpec

(* The places between two bounds, and how many they are.                    *)
LEMMA PlacesBetween ==
  ASSUME NEW from \in Nat, NEW to \in Nat, from <= to, NEW S,
         \A j : j \in S <=> j \in Nat /\ from < j /\ j <= to
  PROVE  Cardinality(S) = to - from
<1>1. S = (from + 1)..to
  <2>1. \A j : j \in S <=> j \in (from + 1)..to
    OBVIOUS
  <2>2. QED
    BY <2>1, Zenon
<1> DEFINE a == from + 1
<1>2. a \in Int /\ to \in Int
  OBVIOUS
<1>3. a > to <=> from = to
  OBVIOUS
<1>4. to - a + 1 = to - from
  OBVIOUS
<1> HIDE DEF a
<1>5. Cardinality(a..to) = IF a > to THEN 0 ELSE to - a + 1
  BY <1>2, FS_Interval, Zenon
<1>6. Cardinality(S) = Cardinality(a..to)
  BY <1>1 DEF a
<1>7. QED
  BY <1>3, <1>4, <1>5, <1>6

(***************************************************************************)
(* When the audit returns, its cursor has passed every entry, and each     *)
(* page's usage counts the entries of that page, in their order, and no    *)
(* other page's, whatever pages were skipped and whatever they paint.      *)
(***************************************************************************)
THEOREM EntriesAlwaysAuditedOnTheirPage == ReadSpec => []EntriesAuditedOnTheirPage
<1>1. ReadInit => ResourceInv /\ AuditInv
  BY ScansStart
<1>2. ResourceInv /\ AuditInv /\ [ReadNext]_readVars => ResourceInv' /\ AuditInv'
  BY ReadStepsKeepScans
<1>3. AuditInv => EntriesAuditedOnTheirPage
  <2> SUFFICES ASSUME AuditInv, Audited
               PROVE  /\ auditCursor = Len(entries)
                      /\ \A i \in 1..Len(audited) :
                           LET own == {j \in 1..Len(entries) : entries[j].page = audited[i].page}
                               rank(j) == Cardinality({k \in own : k <= j})
                           IN  /\ Len(audited[i].summary) = Cardinality(own)
                               /\ \A j \in own : audited[i].summary[rank(j)] = entries[j]
    BY DEF EntriesAuditedOnTheirPage
  <2> DEFINE n == Len(results)
             m == Len(entries)
  <2>1. Len(audited) = n
    BY DEF Audited
  <2>2. n \in Nat /\ m \in Nat
    BY LenProperties DEF AuditInv
  <2>3. PICK start : Scanned(start)
    BY DEF AuditInv
  <2>4. /\ start \in [1..(n + 1) -> 0..m] /\ start[n + 1] = m
        /\ \A i \in 1..n : \A j \in 1..m : entries[j].page = i - 1 <=> start[i] < j /\ j <= start[i + 1]
    BY <2>3 DEF Scanned, Starts
  <2>5. auditCursor = start[n + 1] /\ \A i \in 1..n : Summarises(start, entries, audited[i], i)
    BY <2>1, <2>3 DEF Scanned
  <2> HIDE DEF n, m
  <2>6. ASSUME NEW i \in 1..n
        PROVE  LET own == {j \in 1..m : entries[j].page = audited[i].page}
                   rank(j) == Cardinality({k \in own : k <= j})
               IN  /\ Len(audited[i].summary) = Cardinality(own)
                   /\ \A j \in own : audited[i].summary[rank(j)] = entries[j]
    <3> DEFINE own == {j \in 1..m : entries[j].page = audited[i].page}
               from == start[i]
               to == start[i + 1]
               summary == audited[i].summary
    <3>1. from \in 0..m /\ to \in 0..m
      <4>1. i \in 1..(n + 1) /\ i + 1 \in 1..(n + 1)
        BY <2>2
      <4>2. QED
        BY <2>4, <4>1
    <3>2. audited[i].page = i - 1 /\ Len(summary) = to - from
          /\ \A j \in 1..m : from < j /\ j <= to => summary[j - from] = entries[j]
      BY <2>5 DEF Summarises, m
    <3>3. Len(summary) \in Nat
      <4>1. audited[i] \in UsageShape
        BY <2>1, ElementOfSeq DEF AuditInv
      <4>2. audited[i].summary \in Seq(EntryShape)
        BY <4>1 DEF UsageShape
      <4>3. QED
        BY <4>2, LenProperties
    <3> HIDE DEF from, to, summary
    <3>4. from \in Nat /\ to \in Nat /\ from <= to
      BY <2>2, <3>1, <3>2, <3>3
    <3>5. \A j : j \in own <=> j \in Nat /\ from < j /\ j <= to
      <4>1. \A j \in 1..m : j \in own <=> from < j /\ j <= to
        BY <2>4, <3>2 DEF from, to
      <4>2. \A j : j \in own => j \in 1..m
        OBVIOUS
      <4>3. \A j \in Nat : from < j /\ j <= to => j \in 1..m
        BY <2>2, <3>1, <3>4
      <4>4. \A j \in 1..m : j \in Nat
        BY <2>2
      <4> HIDE DEF own
      <4>5. QED
        BY <4>1, <4>2, <4>3, <4>4
    <3> HIDE DEF own
    <3>6. Len(summary) = Cardinality(own)
      BY <3>2, <3>4, <3>5, PlacesBetween
    <3>7. ASSUME NEW j \in own
          PROVE  summary[Cardinality({k \in own : k <= j})] = entries[j]
      <4>1. j \in Nat /\ from < j /\ j <= to /\ j \in 1..m /\ from <= j
        BY <2>2, <3>1, <3>4, <3>5
      <4> DEFINE S == {k \in own : k <= j}
      <4>2. \A k : k \in S <=> k \in Nat /\ from < k /\ k <= j
        <5>1. \A k \in Nat : k <= j => k <= to
          BY <3>4, <4>1
        <5>2. QED
          BY <3>5, <5>1
      <4> HIDE DEF S
      <4>3. Cardinality(S) = j - from
        BY <3>4, <4>1, <4>2, PlacesBetween
      <4>4. QED
        BY <3>2, <4>1, <4>3 DEF S
    <3>8. QED
      BY <3>6, <3>7 DEF own, summary
  <2>7. QED
    BY <2>1, <2>4, <2>5, <2>6 DEF n, m
<1>4. QED
  BY <1>1, <1>2, <1>3, PTL DEF ReadSpec

-----------------------------------------------------------------------------
(***************************************************************************)
(* The resources each page is reported with.  The resource walk visits the *)
(* page tree by itself and the content pass lists the leaves by another    *)
(* walk; the report of a page is the walk's at the page's ordinal.  So     *)
(* what a page gets is right only when both walks meet the same leaves in  *)
(* the same order, and when the context a call of the resource walk        *)
(* carries is that of its own path. First the contexts: what a path of     *)
(* nodes hands down.                                                       *)
(***************************************************************************)

LEMMA RepeatsOnceMore ==
  ASSUME NEW S, NEW value \in S, NEW times \in Nat, NEW more, more = times + 1
  PROVE  Repeat(more, value) = Append(Repeat(times, value), value)
<1> DEFINE all == Repeat(times, value)
           longer == Repeat(more, value)
           added == Append(all, value)
<1>1. all \in Seq(S) /\ Len(all) = times /\ \A i \in 1..times : all[i] = value
  BY Repeats
<1>2. more \in Nat
  OBVIOUS
<1>3. longer \in Seq(S) /\ Len(longer) = more /\ \A i \in 1..more : longer[i] = value
  BY <1>2, Repeats
<1> HIDE DEF all, longer
<1>4. /\ added \in Seq(S) /\ Len(added) = times + 1
      /\ added[times + 1] = value /\ \A i \in 1..times : added[i] = all[i]
  BY <1>1, AppendProperties
<1> HIDE DEF added
<1>5. \A i \in 1..Len(longer) : longer[i] = added[i]
  <2> TAKE i \in 1..Len(longer)
  <2>1. i \in 1..times \/ i = times + 1
    BY <1>3
  <2>2. QED
    BY <1>1, <1>3, <1>4, <2>1
<1>6. longer = added
  BY <1>3, <1>4, <1>5, SeqEqual
<1>7. QED
  BY <1>6 DEF longer, added, all

(* A path one object longer.                                                *)
LongerPath(path, kid, longer) ==
  /\ path \in Seq(Objects) /\ longer \in Seq(Objects) /\ Len(path) \in Nat
  /\ Len(longer) = Len(path) + 1 /\ longer[Len(path) + 1] = kid
  /\ \A k \in 1..Len(path) : longer[k] = path[k]

Statements(path) == {i \in 1..Len(path) : resources[path[i]] # Absent}
Nearest(S) == CHOOSE i \in S : \A j \in S : j <= i
UnusableOf(path) == {i \in Statements(path) : resources[path[i]] = Unusable}

LEMMA ContextIs ==
  ASSUME NEW path
  PROVE  ContextOf(path) =
           [resources |-> IF Statements(path) = {} \/ resources[path[Nearest(Statements(path))]] = Unusable
                          THEN Absent ELSE resources[path[Nearest(Statements(path))]],
            skips |-> Repeat(Cardinality(UnusableOf(path)), "UnusableResources")]
BY Zenon DEF ContextOf, Statements, Nearest, UnusableOf

LEMMA NearestIsLast ==
  ASSUME NEW n \in Nat, NEW S, n + 1 \in S, \A j \in S : j \in 1..(n + 1)
  PROVE  Nearest(S) = n + 1
<1>1. \A j \in S : j <= n + 1
  OBVIOUS
<1>2. Nearest(S) \in S /\ \A j \in S : j <= Nearest(S)
  BY <1>1, Zenon DEF Nearest
<1>3. Nearest(S) \in 1..(n + 1) /\ n + 1 <= Nearest(S)
  BY <1>2
<1>4. QED
  BY <1>3

LEMMA NearestIsWithin ==
  ASSUME NEW n \in Nat, NEW S, S # {}, \A j \in S : j \in 1..n
  PROVE  Nearest(S) \in S
<1>1. S \in SUBSET Nat /\ \A j \in S : j <= n
  OBVIOUS
<1>2. \E i \in S : \A j \in S : j <= i
  BY <1>1, GreatestElement
<1>3. QED
  BY <1>2, Zenon DEF Nearest

LEMMA StatementsOfLonger ==
  ASSUME NEW path, NEW kid, NEW longer, LongerPath(path, kid, longer)
  PROVE  /\ resources[kid] = Absent => Statements(longer) = Statements(path)
         /\ resources[kid] # Absent => Statements(longer) = Statements(path) \cup {Len(path) + 1}
         /\ resources[kid] # Unusable => UnusableOf(longer) = UnusableOf(path)
         /\ resources[kid] = Unusable => UnusableOf(longer) = UnusableOf(path) \cup {Len(path) + 1}
<1> DEFINE n == Len(path)
<1>1. /\ n \in Nat /\ Len(longer) = n + 1 /\ longer[n + 1] = kid
      /\ \A k \in 1..n : longer[k] = path[k]
  BY DEF LongerPath
<1> HIDE DEF n
<1>2. \A i : i \in 1..(n + 1) <=> i \in 1..n \/ i = n + 1
  BY <1>1
<1>3. \A i : i \in 1..n => i # n + 1
  BY <1>1
<1>4. Len(path) = n
  BY DEF n
<1>5. \A i : i \in Statements(longer) <=> i \in Statements(path) \/ (i = n + 1 /\ resources[kid] # Absent)
  BY <1>1, <1>2, <1>3, <1>4 DEF Statements
<1>6. \A i : i \in UnusableOf(longer) <=> i \in UnusableOf(path) \/ (i = n + 1 /\ resources[kid] = Unusable)
  BY <1>1, <1>2, <1>3, <1>4, UnusableIsPresent DEF Statements, UnusableOf
<1>7. QED
  BY <1>4, <1>5, <1>6

(***************************************************************************)
(* A path's context is its parent's, changed as its last object's own      *)
(* dictionary says.                                                        *)
(***************************************************************************)
LEMMA ContextExtends ==
  ASSUME NEW path, NEW kid, NEW longer, LongerPath(path, kid, longer)
  PROVE  ContextOf(longer) = FromDictionary(kid, ContextOf(path))
<1> DEFINE n == Len(path)
           S == Statements(path)
           L == Statements(longer)
           U == UnusableOf(path)
           V == UnusableOf(longer)
           was == [resources |-> IF S = {} \/ resources[path[Nearest(S)]] = Unusable THEN Absent
                                 ELSE resources[path[Nearest(S)]],
                   skips |-> Repeat(Cardinality(U), "UnusableResources")]
           is == [resources |-> IF L = {} \/ resources[longer[Nearest(L)]] = Unusable THEN Absent
                                ELSE resources[longer[Nearest(L)]],
                  skips |-> Repeat(Cardinality(V), "UnusableResources")]
<1>1. ContextOf(path) = was /\ ContextOf(longer) = is
  BY ContextIs
<1>2. /\ n \in Nat /\ Len(longer) = n + 1 /\ longer[n + 1] = kid
      /\ \A k \in 1..n : longer[k] = path[k]
  BY DEF LongerPath
<1>3. /\ resources[kid] = Absent => L = S
      /\ resources[kid] # Absent => L = S \cup {n + 1}
      /\ resources[kid] # Unusable => V = U
      /\ resources[kid] = Unusable => V = U \cup {n + 1}
  BY StatementsOfLonger
<1>4. U \in SUBSET (1..n) /\ S \in SUBSET (1..n)
  BY DEF UnusableOf, Statements
<1>5. Cardinality(U) \in Nat /\ Cardinality(U \cup {n + 1}) = Cardinality(U) + 1
  BY <1>2, <1>4, CountOneMore
<1> HIDE DEF n, S, L, U, V
<1>6. CASE resources[kid] = Absent
  <2>1. L = S /\ V = U
    BY <1>3, <1>6, UnusableIsPresent
  <2>2. S # {} => longer[Nearest(S)] = path[Nearest(S)]
    <3>1. S # {} => Nearest(S) \in S
      BY <1>2, <1>4, NearestIsWithin
    <3>2. QED
      BY <1>2, <1>4, <3>1
  <2>3. is = was
    BY <2>1, <2>2
  <2>4. FromDictionary(kid, was) = was
    BY <1>6, UnusableIsPresent DEF FromDictionary
  <2>5. QED
    BY <1>1, <2>3, <2>4
<1>7. ASSUME resources[kid] # Absent
      PROVE  L # {} /\ longer[Nearest(L)] = kid
  <2>1. L = S \cup {n + 1}
    BY <1>3, <1>7
  <2>2. n + 1 \in L /\ \A j \in L : j \in 1..(n + 1)
    BY <1>2, <1>4, <2>1
  <2>3. Nearest(L) = n + 1
    BY <1>2, <2>2, NearestIsLast
  <2>4. QED
    BY <1>2, <2>2, <2>3
<1>8. CASE resources[kid] = Unusable
  <2>1. L # {} /\ longer[Nearest(L)] = kid
    BY <1>7, <1>8, UnusableIsPresent
  <2>2. Repeat(Cardinality(V), "UnusableResources")
          = Append(Repeat(Cardinality(U), "UnusableResources"), "UnusableResources")
    <3>1. Cardinality(V) = Cardinality(U) + 1
      BY <1>3, <1>5, <1>8
    <3>2. "UnusableResources" \in ResourceSkipReasons
      BY DEF ResourceSkipReasons
    <3>3. QED
      BY <1>5, <3>1, <3>2, RepeatsOnceMore
  <2>3. is.resources = Absent
    BY <1>8, <2>1
  <2> DEFINE reasons == Append(Repeat(Cardinality(U), "UnusableResources"), "UnusableResources")
  <2>4. is = [resources |-> Absent, skips |-> reasons]
    BY <2>2, <2>3
  <2> DEFINE added == Append(was.skips, "UnusableResources")
  <2>5. FromDictionary(kid, was) = [resources |-> Absent, skips |-> added]
    <3> HIDE DEF was
    <3>1. resources[kid] # Absent
      BY <1>8, UnusableIsPresent
    <3>2. QED
      BY <1>8, <3>1 DEF FromDictionary
  <2>6. added = reasons
    OBVIOUS
  <2>7. QED
    BY <1>1, <2>4, <2>5, <2>6
<1>9. CASE resources[kid] \notin {Absent, Unusable}
  <2>1. L # {} /\ longer[Nearest(L)] = kid
    BY <1>7, <1>9
  <2>2. V = U
    BY <1>3, <1>9
  <2>3. is = [resources |-> resources[kid], skips |-> Repeat(Cardinality(U), "UnusableResources")]
    BY <1>9, <2>1, <2>2
  <2>4. FromDictionary(kid, was) = [was EXCEPT !.resources = resources[kid]]
    <3> HIDE DEF was
    <3>1. QED
      BY <1>9 DEF FromDictionary
  <2>5. [was EXCEPT !.resources = resources[kid]]
          = [resources |-> resources[kid], skips |-> Repeat(Cardinality(U), "UnusableResources")]
    <3> DEFINE w == IF S = {} \/ resources[path[Nearest(S)]] = Unusable THEN Absent
                    ELSE resources[path[Nearest(S)]]
               k == Repeat(Cardinality(U), "UnusableResources")
               own == resources[kid]
    <3> HIDE DEF w, k, own
    <3>1. [[resources |-> w, skips |-> k] EXCEPT !.resources = own] = [resources |-> own, skips |-> k]
      OBVIOUS
    <3>2. QED
      BY <3>1 DEF w, k, own
  <2>6. QED
    BY <1>1, <2>3, <2>4, <2>5
<1>10. QED
  BY <1>6, <1>8, <1>9

LEMMA ContextOfNothing ==
  ContextOf(<<>>) = NoContext
<1>1. Statements(<<>>) = {} /\ UnusableOf(<<>>) = {}
  BY DEF Statements, UnusableOf
<1>2. Cardinality({}) = 0
  BY FS_EmptySet
<1>3. Repeat(0, "UnusableResources") = <<>>
  <2>1. "UnusableResources" \in ResourceSkipReasons
    BY DEF ResourceSkipReasons
  <2>2. QED
    BY <2>1, Repeats
<1>4. QED
  BY <1>1, <1>2, <1>3, ContextIs DEF NoContext

LEMMA ContextKept ==
  ASSUME resources' = resources, NEW path
  PROVE  ContextOf(path)' = ContextOf(path)
BY DEF ContextOf

-----------------------------------------------------------------------------
(***************************************************************************)
(* Where the resource walk is: the paths of its open calls, of the leaves  *)
(* it has reported, and the contexts both carry.                           *)
(***************************************************************************)

OffsetBranches == [node \in Objects |-> IF OffsetExpands(node) THEN Kids(node) ELSE <<>>]
OffsetTypes == [node \in Objects |-> OffsetType(node)]

LEMMA OffsetTyped ==
  ASSUME tree \in TreeShape
  PROVE  /\ OffsetBranches \in [Objects -> Seq(Objects)]
         /\ \A node \in Objects : /\ OffsetExpands(node) => OffsetBranches[node] = Kids(node)
                                  /\ ~OffsetExpands(node) => OffsetBranches[node] = <<>>
                                  /\ OffsetTypes[node] = OffsetType(node)
<1>1. ASSUME NEW node \in Objects
      PROVE  (IF OffsetExpands(node) THEN Kids(node) ELSE <<>>) \in Seq(Objects)
  <2>1. tree[node].kids \in Seq(Objects) \cup {Absent}
    BY DEF TreeShape, ObjectShape
  <2>2. CASE OffsetExpands(node)
    BY <2>1, <2>2 DEF OffsetExpands, Expands, Kids
  <2>3. CASE ~OffsetExpands(node)
    BY <2>3
  <2>4. QED
    BY <2>2, <2>3
<1>2. OffsetBranches \in [Objects -> Seq(Objects)]
  BY <1>1, Zenon DEF OffsetBranches
<1>3. \A node \in Objects : /\ OffsetExpands(node) => OffsetBranches[node] = Kids(node)
                            /\ ~OffsetExpands(node) => OffsetBranches[node] = <<>>
  BY DEF OffsetBranches
<1>4. \A node \in Objects : OffsetTypes[node] = OffsetType(node)
  BY DEF OffsetTypes
<1>5. QED
  BY <1>2, <1>3, <1>4

LEMMA OffsetKept ==
  ASSUME tree' = tree
  PROVE  /\ OffsetBranches' = OffsetBranches /\ OffsetTypes' = OffsetTypes
         /\ \A node \in Objects : OffsetExpands(node)' <=> OffsetExpands(node)
<1>1. \A node \in Objects : (OffsetExpands(node)' <=> OffsetExpands(node)) /\ Kids(node)' = Kids(node)
                            /\ OffsetType(node)' = OffsetType(node)
  BY DEF OffsetExpands, Expands, Kids, OffsetType, NodeType
<1>2. OffsetBranches' = OffsetBranches
  BY <1>1 DEF OffsetBranches
<1>3. OffsetTypes' = OffsetTypes
  BY <1>1 DEF OffsetTypes
<1>4. QED
  BY <1>1, <1>2, <1>3

AllOffset(s) == \A i \in 1..Len(s) : s[i].node \in Objects /\ OffsetExpands(s[i].node)

NodesTo(s, i) == [k \in 1..i |-> s[k].node]

CarriesContexts(s) == \A i \in 1..Len(s) : s[i].context = ContextOf(NodesTo(s, i))

ReportsOn(list, trail) ==
  /\ Len(list) = Len(trail)
  /\ \A i \in 1..Len(trail) : list[i] = ReportOf(Last(trail[i]), ContextOf(trail[i]))

ResTrail(trail) == Reached(OffsetBranches, OffsetTypes, resFrames, trail) /\ ReportsOn(resPages, trail)

ResFollows ==
  /\ tree \in TreeShape
  /\ resPhase = "idle" => resPages = <<>>
  /\ resPhase = "walking" => AllOffset(resFrames) /\ CarriesContexts(resFrames)
  /\ resPhase = "walking" /\ resTruncated = Absent => \E trail : ResTrail(trail)
  /\ resPhase = "done" /\ resTruncated = Absent => ReportsOn(resPages, OffsetPaths)

LEMMA ReportsOnKept ==
  ASSUME resources' = resources, NEW list, NEW trail, ReportsOn(list, trail)
  PROVE  ReportsOn(list, trail)'
<1>1. \A path : ContextOf(path)' = ContextOf(path)
  BY ContextKept
<1>2. \A leaf, context : ReportOf(leaf, context)' = ReportOf(leaf, context)
  BY Zenon DEF ReportOf
<1>3. QED
  BY <1>1 DEF ReportsOn

LEMMA NodesAre ==
  ASSUME NEW s, NEW i \in Nat, \A k \in 1..i : s[k].node \in Objects
  PROVE  /\ NodesTo(s, i) \in Seq(Objects) /\ Len(NodesTo(s, i)) = i
         /\ \A k \in 1..i : NodesTo(s, i)[k] = s[k].node
<1> DEFINE nodes == NodesTo(s, i)
<1>1. nodes \in [1..i -> Objects] /\ \A k \in 1..i : nodes[k] = s[k].node
  BY DEF NodesTo
<1> HIDE DEF nodes
<1>2. nodes \in Seq(Objects)
  BY <1>1
<1>3. Len(nodes) = i
  BY <1>1, <1>2
<1>4. QED
  BY <1>1, <1>2, <1>3 DEF nodes

LEMMA SameNodesTo ==
  ASSUME NEW s, NEW t, NEW n, SameNodes(s, t, n), NEW i, \A k \in 1..i : k \in 1..n
  PROVE  NodesTo(t, i) = NodesTo(s, i)
<1> DEFINE at(k) == s[k].node
           to(k) == t[k].node
<1>1. \A k \in 1..i : to(k) = at(k)
  BY DEF SameNodes
<1> HIDE DEF at, to
<1>2. [k \in 1..i |-> to(k)] = [k \in 1..i |-> at(k)]
  BY <1>1, Zenon
<1>3. QED
  BY <1>2, Zenon DEF NodesTo, at, to

(* The stack of the resource walk, past a kid.                              *)
LEMMA ResourcesMove ==
  ASSUME NEW s \in Seq(ResourceFrame), s # <<>>
  PROVE  /\ Advanced(s) \in Seq(ResourceFrame) /\ Moved(s, Advanced(s))
         /\ \A i \in 1..Len(s) : Advanced(s)[i].context = s[i].context
<1> DEFINE n == Len(s)
           moved == [s[n] EXCEPT !.next = @ + 1]
<1>1. n \in Nat \ {0} /\ \A i \in 1..n : s[i] \in ResourceFrame
  BY EmptySeq, ElementOfSeq
<1>2. s[n] \in ResourceFrame /\ n \in 1..n
  BY <1>1
<1>3. moved \in ResourceFrame /\ moved.node = s[n].node /\ moved.next = s[n].next + 1
      /\ moved.context = s[n].context
  BY <1>2 DEF ResourceFrame
<1>4. Advanced(s) = [s EXCEPT ![n] = moved]
  BY DEF Advanced
<1> HIDE DEF moved
<1>5. /\ Advanced(s) \in Seq(ResourceFrame) /\ Len(Advanced(s)) = n
      /\ \A i \in 1..n : Advanced(s)[i] = IF i = n THEN moved ELSE s[i]
  BY <1>1, <1>2, <1>3, <1>4, ExceptSeq
<1>6. SameNodes(s, Advanced(s), n)
  BY <1>3, <1>5 DEF SameNodes
<1>7. \A i \in 1..n : /\ Advanced(s)[i].next = IF i = n THEN s[i].next + 1 ELSE s[i].next
                      /\ Advanced(s)[i].context = s[i].context
  BY <1>3, <1>5
<1>8. Moved(s, Advanced(s))
  BY <1>1, <1>5, <1>6, <1>7 DEF Moved
<1>9. QED
  BY <1>5, <1>7, <1>8

LEMMA ContextsMove ==
  ASSUME NEW s, NEW t, CarriesContexts(s), AllOffset(s), Moved(s, t),
         \A i \in 1..Len(s) : t[i].context = s[i].context
  PROVE  CarriesContexts(t) /\ AllOffset(t)
<1>1. Len(s) \in Nat /\ Len(t) = Len(s) /\ SameNodes(s, t, Len(s))
  BY DEF Moved
<1>2. ASSUME NEW i \in 1..Len(t)
      PROVE  t[i].context = ContextOf(NodesTo(t, i))
  <2>1. \A k \in 1..i : k \in 1..Len(s)
    BY <1>1
  <2>2. NodesTo(t, i) = NodesTo(s, i)
    BY <1>1, <2>1, SameNodesTo
  <2>3. t[i].context = s[i].context /\ s[i].context = ContextOf(NodesTo(s, i))
    BY <1>1 DEF CarriesContexts
  <2>4. QED
    BY <2>2, <2>3
<1>3. AllOffset(t)
  BY <1>1 DEF AllOffset, SameNodes
<1>4. QED
  BY <1>2, <1>3 DEF CarriesContexts

(* One call deeper, or back.                                                *)
LEMMA ContextsOpen ==
  ASSUME NEW s \in Seq(ResourceFrame), NEW top \in ResourceFrame, CarriesContexts(s), AllOffset(s),
         OffsetExpands(top.node), top.context = FromDictionary(top.node, ContextOf(NodesTo(s, Len(s))))
  PROVE  CarriesContexts(Append(s, top)) /\ AllOffset(Append(s, top))
<1> DEFINE t == Append(s, top)
           n == Len(s)
<1>1. /\ n \in Nat /\ Len(t) = n + 1 /\ t[n + 1] = top /\ \A i \in 1..n : t[i] = s[i]
  BY LenProperties, AppendProperties
<1> HIDE DEF t
<1>2. SameNodes(s, t, n)
  BY <1>1 DEF SameNodes
<1>3. top.node \in Objects
  BY DEF ResourceFrame
<1>4. AllOffset(t)
  <2> SUFFICES ASSUME NEW i \in 1..(n + 1)
               PROVE  t[i].node \in Objects /\ OffsetExpands(t[i].node)
    BY <1>1 DEF AllOffset
  <2>1. CASE i \in 1..n
    BY <1>1, <2>1 DEF AllOffset
  <2>2. CASE i = n + 1
    BY <1>1, <1>3, <2>2
  <2>3. QED
    BY <1>1, <2>1, <2>2
<1>5. ASSUME NEW i \in 1..(n + 1)
      PROVE  t[i].context = ContextOf(NodesTo(t, i))
  <2>1. CASE i \in 1..n
    <3>1. \A k \in 1..i : k \in 1..n
      BY <1>1, <2>1
    <3>2. NodesTo(t, i) = NodesTo(s, i)
      BY <1>2, <3>1, SameNodesTo
    <3>3. QED
      BY <1>1, <2>1, <3>2 DEF CarriesContexts
  <2>2. CASE i = n + 1
    <3>1. /\ NodesTo(s, n) \in Seq(Objects) /\ Len(NodesTo(s, n)) = n
          /\ \A k \in 1..n : NodesTo(s, n)[k] = s[k].node
      <4>1. \A k \in 1..n : s[k].node \in Objects
        BY DEF AllOffset
      <4>2. QED
        BY <1>1, <4>1, NodesAre
    <3>2. /\ NodesTo(t, n + 1) \in Seq(Objects) /\ Len(NodesTo(t, n + 1)) = n + 1
          /\ \A k \in 1..(n + 1) : NodesTo(t, n + 1)[k] = t[k].node
      <4>1. \A k \in 1..(n + 1) : t[k].node \in Objects
        BY <1>1, <1>4 DEF AllOffset
      <4>2. n + 1 \in Nat
        BY <1>1
      <4>3. QED
        BY <4>1, <4>2, NodesAre
    <3> DEFINE path == NodesTo(s, n)
               longer == NodesTo(t, n + 1)
    <3>3. longer[n + 1] = top.node /\ \A k \in 1..n : longer[k] = path[k]
      <4>1. n + 1 \in 1..(n + 1) /\ \A k \in 1..n : k \in 1..(n + 1)
        BY <1>1
      <4>2. QED
        BY <1>1, <3>1, <3>2, <4>1
    <3> HIDE DEF path, longer
    <3>4. LongerPath(path, top.node, longer)
      BY <1>1, <3>1, <3>2, <3>3 DEF LongerPath, path, longer
    <3>5. ContextOf(longer) = FromDictionary(top.node, ContextOf(path))
      BY <3>4, ContextExtends
    <3>6. QED
      BY <1>1, <2>2, <3>5 DEF path, longer
  <2>3. QED
    BY <1>1, <2>1, <2>2
<1>6. CarriesContexts(t)
  BY <1>1, <1>5 DEF CarriesContexts
<1>7. QED
  BY <1>4, <1>6 DEF t

LEMMA ContextsClose ==
  ASSUME NEW s, NEW t, CarriesContexts(s), AllOffset(s), Len(s) \in Nat \ {0},
         Len(t) = Len(s) - 1, \A i \in 1..Len(t) : t[i] = s[i]
  PROVE  CarriesContexts(t) /\ AllOffset(t)
<1>1. SameNodes(s, t, Len(t)) /\ \A i \in 1..Len(t) : i \in 1..Len(s)
  BY DEF SameNodes
<1>2. ASSUME NEW i \in 1..Len(t)
      PROVE  t[i].context = ContextOf(NodesTo(t, i))
  <2>1. \A k \in 1..i : k \in 1..Len(t)
    OBVIOUS
  <2>2. NodesTo(t, i) = NodesTo(s, i)
    BY <1>1, <2>1, SameNodesTo
  <2>3. QED
    BY <1>1, <2>2 DEF CarriesContexts
<1>3. AllOffset(t)
  BY <1>1 DEF AllOffset
<1>4. QED
  BY <1>2, <1>3 DEF CarriesContexts

LEMMA ContextsStart ==
  ASSUME NEW s, s = <<[node |-> Root, next |-> 1, context |-> FromDictionary(Root, NoContext)]>>,
         OffsetExpands(Root)
  PROVE  CarriesContexts(s) /\ AllOffset(s) /\ Len(s) = 1 /\ s[1].node = Root /\ s[1].next = 1
<1> DEFINE own == FromDictionary(Root, NoContext)
<1> HIDE DEF own
<1>1. Len(s) = 1 /\ s[1].node = Root /\ s[1].next = 1 /\ s[1].context = own
  BY DEF own
<1>2. \A i \in 1..Len(s) : i = 1
  BY <1>1
<1>3. AllOffset(s)
  BY <1>1, <1>2, RootIsObject DEF AllOffset
<1>4. /\ NodesTo(s, 1) \in Seq(Objects) /\ Len(NodesTo(s, 1)) = 1
      /\ \A k \in 1..1 : NodesTo(s, 1)[k] = s[k].node
  <2>1. \A k \in 1..1 : s[k].node \in Objects
    BY <1>1, RootIsObject
  <2>2. QED
    BY <2>1, NodesAre
<1> DEFINE none == <<>>
           longer == NodesTo(s, 1)
<1>5. none \in Seq(Objects) /\ Len(none) = 0
  BY EmptySeq
<1> HIDE DEF none, longer
<1>6. LongerPath(none, Root, longer)
  BY <1>1, <1>4, <1>5 DEF LongerPath, longer
<1>7. ContextOf(longer) = FromDictionary(Root, ContextOf(none))
  BY <1>6, ContextExtends
<1>8. ContextOf(none) = NoContext
  BY ContextOfNothing DEF none
<1>9. s[1].context = ContextOf(NodesTo(s, 1))
  BY <1>1, <1>7, <1>8 DEF longer, own
<1>10. CarriesContexts(s)
  BY <1>2, <1>9 DEF CarriesContexts
<1>11. QED
  BY <1>1, <1>3, <1>10

-----------------------------------------------------------------------------
(***************************************************************************)
(* The resource walk follows the tree by file offset, and each report is   *)
(* that of the leaf at its place.                                          *)
(***************************************************************************)

LEMMA ResGoesOn ==
  ASSUME ResFollows, tree' = tree, resources' = resources, resPhase' = "walking",
         AllOffset(resFrames'), CarriesContexts(resFrames'),
         resTruncated' = Absent => \E trail :
           /\ Reached(OffsetBranches, OffsetTypes, resFrames', trail)
           /\ ReportsOn(resPages', trail)
  PROVE  ResFollows'
<1>1. OffsetBranches' = OffsetBranches /\ OffsetTypes' = OffsetTypes
      /\ \A node \in Objects : OffsetExpands(node)' <=> OffsetExpands(node)
  BY OffsetKept
<1>2. AllOffset(resFrames)'
  BY <1>1 DEF AllOffset
<1>3. CarriesContexts(resFrames)'
  <2>1. \A path : ContextOf(path)' = ContextOf(path)
    BY ContextKept
  <2>2. QED
    BY <2>1 DEF CarriesContexts
<1>4. ASSUME resTruncated' = Absent
      PROVE  (\E trail : ResTrail(trail))'
  <2>1. PICK trail : Reached(OffsetBranches, OffsetTypes, resFrames', trail) /\ ReportsOn(resPages', trail)
    BY <1>4
  <2>2. \A path : ContextOf(path)' = ContextOf(path)
    BY ContextKept
  <2>3. ReportsOn(resPages, trail)'
    BY <2>1, <2>2 DEF ReportsOn
  <2>4. ResTrail(trail)'
    BY <1>1, <2>1, <2>3 DEF ResTrail
  <2>5. QED
    BY <2>4
<1>5. QED
  BY <1>2, <1>3, <1>4 DEF ResFollows

(* The walk at a kid of the top call.                                       *)
ResAt(kid) ==
  /\ resPhase = "walking" /\ tree \in TreeShape
  /\ Len(resFrames) \in Nat \ {0} /\ resFrames \in Seq(ResourceFrame)
  /\ AllOffset(resFrames) /\ CarriesContexts(resFrames)
  /\ HasKid(OffsetBranches, resFrames) /\ KidAt(OffsetBranches, resFrames) = kid
  /\ kid \in Objects /\ OffsetTypes[kid] = OffsetType(kid)
  /\ OffsetBranches \in [Objects -> Seq(Objects)]
  /\ Moved(resFrames, Advanced(resFrames)) /\ Advanced(resFrames) \in Seq(ResourceFrame)
  /\ CarriesContexts(Advanced(resFrames)) /\ AllOffset(Advanced(resFrames))
  /\ resTruncated = Absent => \E trail : ResTrail(trail) /\ trail \in PathSeq

LEMMA OffsetStackAtKid ==
  ASSUME tree \in TreeShape, NEW s, AllOffset(s), Len(s) \in Nat \ {0},
         s[Len(s)].next \in Nat \ {0}
  PROVE  /\ HasKid(OffsetBranches, s) <=> ~(s[Len(s)].next > Len(Kids(s[Len(s)].node)))
         /\ KidAt(OffsetBranches, s) = Kids(s[Len(s)].node)[s[Len(s)].next]
<1> DEFINE node == s[Len(s)].node
<1>1. Len(s) \in 1..Len(s)
  OBVIOUS
<1>2. node \in Objects /\ OffsetExpands(node)
  BY <1>1 DEF AllOffset
<1> HIDE DEF node
<1>3. OffsetBranches[node] = Kids(node) /\ OffsetBranches[node] \in Seq(Objects)
  BY <1>2, OffsetTyped
<1>4. Len(Kids(node)) \in Nat
  BY <1>3, LenProperties
<1>5. QED
  BY <1>3, <1>4 DEF HasKid, KidAt, node

LEMMA ResourceTop ==
  ASSUME ResourceInv, resFrames # <<>>
  PROVE  /\ resFrames \in Seq(ResourceFrame) /\ Len(resFrames) \in Nat \ {0}
         /\ resFrames[Len(resFrames)] \in ResourceFrame
         /\ resFrames[Len(resFrames)].next \in Nat \ {0}
<1>1. resFrames \in Seq(ResourceFrame) /\ Len(resFrames) \in Nat \ {0}
  BY EmptySeq DEF ResourceInv
<1>2. resFrames[Len(resFrames)] \in ResourceFrame
  BY <1>1, ElementOfSeq
<1>3. QED
  BY <1>1, <1>2 DEF ResourceFrame

LEMMA ResourceKid ==
  ASSUME ResourceInv, ResFollows, NEW kid \in Objects, AtResourceKid(kid)
  PROVE  ResAt(kid)
<1>1. /\ resPhase = "walking" /\ resFrames # <<>> /\ ~Exhausted(resFrames)
      /\ kid = Kids(Top(resFrames).node)[Top(resFrames).next]
  BY DEF AtResourceKid
<1>2. tree \in TreeShape /\ AllOffset(resFrames) /\ CarriesContexts(resFrames)
  BY <1>1 DEF ResFollows
<1>3. /\ resFrames \in Seq(ResourceFrame) /\ Len(resFrames) \in Nat \ {0}
      /\ resFrames[Len(resFrames)].next \in Nat \ {0}
  BY <1>1, ResourceTop
<1>4. HasKid(OffsetBranches, resFrames) /\ KidAt(OffsetBranches, resFrames) = kid
  BY <1>1, <1>2, <1>3, OffsetStackAtKid DEF Exhausted, Top
<1>5. /\ Advanced(resFrames) \in Seq(ResourceFrame) /\ Moved(resFrames, Advanced(resFrames))
      /\ \A i \in 1..Len(resFrames) : Advanced(resFrames)[i].context = resFrames[i].context
  BY <1>1, <1>3, ResourcesMove
<1>6. CarriesContexts(Advanced(resFrames)) /\ AllOffset(Advanced(resFrames))
  BY <1>2, <1>5, ContextsMove
<1>7. OffsetBranches \in [Objects -> Seq(Objects)] /\ OffsetTypes[kid] = OffsetType(kid)
  BY <1>2, OffsetTyped
<1>8. ASSUME resTruncated = Absent
      PROVE  \E trail : ResTrail(trail) /\ trail \in PathSeq
  <2>1. PICK trail : ResTrail(trail)
    BY <1>1, <1>8 DEF ResFollows
  <2>2. Reached(OffsetBranches, OffsetTypes, resFrames, trail)
    BY <2>1 DEF ResTrail
  <2>3. AtTop(OffsetBranches, resFrames, trail)
    BY <1>3, <1>4, <1>7, <2>2, ReachedTop
  <2>4. QED
    BY <2>1, <2>3 DEF AtTop
<1>9. QED
  BY <1>1, <1>2, <1>3, <1>4, <1>5, <1>6, <1>7, <1>8 DEF ResAt

(* Past a kid that no path leads through.                                   *)
LEMMA ResPasses ==
  ASSUME ResFollows, NEW kid \in Objects, ResAt(kid), resFrames' = Advanced(resFrames),
         tree' = tree, resources' = resources, resPhase' = resPhase, resPages' = resPages,
         resTruncated' = Absent =>
           resTruncated = Absent /\ LeadsNowhere(OffsetBranches, OffsetTypes, kid)
  PROVE  ResFollows'
<1>1. /\ AllOffset(resFrames') /\ CarriesContexts(resFrames') /\ resPhase' = "walking"
      /\ OffsetBranches \in [Objects -> Seq(Objects)]
      /\ HasKid(OffsetBranches, resFrames) /\ KidAt(OffsetBranches, resFrames) = kid
      /\ Moved(resFrames, resFrames')
  BY DEF ResAt
<1>2. ASSUME resTruncated' = Absent
      PROVE  \E trail : /\ Reached(OffsetBranches, OffsetTypes, resFrames', trail)
                        /\ ReportsOn(resPages', trail)
  <2>1. resTruncated = Absent /\ LeadsNowhere(OffsetBranches, OffsetTypes, kid)
    BY <1>2
  <2>2. PICK trail : ResTrail(trail)
    BY <2>1 DEF ResAt
  <2>3. Reached(OffsetBranches, OffsetTypes, resFrames, trail) /\ ReportsOn(resPages, trail)
    BY <2>2 DEF ResTrail
  <2>4. Reached(OffsetBranches, OffsetTypes, resFrames', trail)
    BY <1>1, <2>1, <2>3, ReachedPast
  <2>5. QED
    BY <2>3, <2>4
<1>3. QED
  BY <1>1, <1>2, ResGoesOn

LEMMA PathOfKid ==
  ASSUME NEW s, NEW kid \in Objects, AllOffset(s), Len(s) \in Nat
  PROVE  LongerPath(NodesTo(s, Len(s)), kid, PathTo(s, kid))
<1> DEFINE n == Len(s)
           path == NodesTo(s, n)
           longer == PathTo(s, kid)
<1>1. \A k \in 1..n : s[k].node \in Objects
  BY DEF AllOffset
<1>2. path \in Seq(Objects) /\ Len(path) = n /\ \A k \in 1..n : path[k] = s[k].node
  BY <1>1, NodesAre
<1> HIDE DEF path
<1>3. longer \in [1..(n + 1) -> Objects]
  BY <1>1 DEF PathTo
<1>4. longer[n + 1] = kid /\ \A k \in 1..n : longer[k] = s[k].node
  <2>1. n + 1 \in 1..(n + 1) /\ ~(n + 1 <= n) /\ \A k \in 1..n : k \in 1..(n + 1) /\ k <= n
    OBVIOUS
  <2>2. QED
    BY <2>1 DEF PathTo
<1> HIDE DEF longer
<1>5. n + 1 \in Nat
  OBVIOUS
<1>6. longer \in Seq(Objects)
  BY <1>3, <1>5
<1>7. Len(longer) = n + 1
  BY <1>3, <1>5, <1>6
<1>8. LongerPath(path, kid, longer)
  BY <1>2, <1>4, <1>6, <1>7 DEF LongerPath
<1>9. QED
  BY <1>8 DEF path, longer

LEMMA ResInspects ==
  ASSUME ResourceInv, ResFollows, InspectPage
  PROVE  ResFollows'
<1>1. PICK leaf \in Objects :
        /\ AtResourceKid(leaf) /\ OffsetType(leaf) = "Page"
        /\ resPages' = Append(resPages, ReportOf(leaf, FromDictionary(leaf, Top(resFrames).context)))
        /\ resFrames' = Advanced(resFrames)
        /\ tree' = tree /\ resources' = resources /\ resPhase' = resPhase /\ resTruncated' = resTruncated
  BY DEF InspectPage
<1>2. ResAt(leaf)
  BY <1>1, ResourceKid
<1>3. /\ AllOffset(resFrames') /\ CarriesContexts(resFrames') /\ resPhase' = "walking"
      /\ OffsetBranches \in [Objects -> Seq(Objects)]
      /\ HasKid(OffsetBranches, resFrames) /\ KidAt(OffsetBranches, resFrames) = leaf
      /\ OffsetTypes[leaf] = "Page" /\ Moved(resFrames, resFrames')
  BY <1>1, <1>2 DEF ResAt
<1> DEFINE path == PathTo(resFrames, leaf)
           context == FromDictionary(leaf, Top(resFrames).context)
           report == ReportOf(leaf, context)
<1>4. Len(resFrames) \in Nat \ {0} /\ AllOffset(resFrames) /\ CarriesContexts(resFrames)
  BY <1>2 DEF ResAt
<1>5. LongerPath(NodesTo(resFrames, Len(resFrames)), leaf, path)
  BY <1>4, PathOfKid
<1>6. ContextOf(path) = context
  <2>1. ContextOf(path) = FromDictionary(leaf, ContextOf(NodesTo(resFrames, Len(resFrames))))
    BY <1>5, ContextExtends
  <2>2. Len(resFrames) \in 1..Len(resFrames)
    BY <1>4
  <2>3. Top(resFrames).context = ContextOf(NodesTo(resFrames, Len(resFrames)))
    BY <1>4, <2>2 DEF CarriesContexts, Top
  <2>4. QED
    BY <2>1, <2>3
<1>7. path \in Seq(Objects) /\ Last(path) = leaf
  <2> HIDE DEF path
  <2>1. path \in Seq(Objects) /\ Len(path) \in Nat \ {0} /\ path[Len(path)] = leaf
    BY <1>5 DEF LongerPath
  <2>2. QED
    BY <2>1 DEF Last
<1>8. resPages \in Seq(Report) /\ report \in Report
  <2>1. Top(resFrames).context \in Context
    <3>1. resFrames # <<>>
      BY <1>1 DEF AtResourceKid
    <3>2. resFrames[Len(resFrames)] \in ResourceFrame
      BY <3>1, ResourceTop
    <3>3. QED
      BY <3>2 DEF ResourceFrame, Top
  <2>2. context \in Context
    BY <2>1, ContextsPassDown DEF ResourceInv
  <2> HIDE DEF context
  <2>3. QED
    BY <2>2, ReportsAreTyped DEF ResourceInv
<1>9. resPages' = Append(resPages, report)
  BY <1>1
<1> HIDE DEF path, context
<1>10. report = ReportOf(Last(path), ContextOf(path))
  BY <1>6, <1>7
<1> HIDE DEF report
<1>11. ASSUME resTruncated' = Absent
       PROVE  \E trail : /\ Reached(OffsetBranches, OffsetTypes, resFrames', trail)
                         /\ ReportsOn(resPages', trail)
  <2>1. PICK trail \in PathSeq : ResTrail(trail)
    BY <1>1, <1>2, <1>11 DEF ResAt
  <2>2. Reached(OffsetBranches, OffsetTypes, resFrames, trail) /\ ReportsOn(resPages, trail)
    BY <2>1 DEF ResTrail
  <2> DEFINE more == Append(trail, path)
  <2>3. /\ more \in PathSeq /\ Len(trail) \in Nat /\ Len(more) = Len(trail) + 1
        /\ more[Len(trail) + 1] = path /\ \A j \in 1..Len(trail) : more[j] = trail[j]
    BY <1>7, LenProperties, AppendProperties DEF PathSeq
  <2> HIDE DEF more
  <2>4. Longer(trail, path, more)
    BY <2>3 DEF Longer
  <2>5. Longer(trail, PathTo(resFrames, KidAt(OffsetBranches, resFrames)), more)
    BY <1>3, <2>4 DEF path
  <2>6. Reached(OffsetBranches, OffsetTypes, resFrames', more)
    BY <1>3, <2>2, <2>5, ReachedLeaf
  <2>7. /\ Len(resPages) = Len(trail) /\ Len(resPages') = Len(trail) + 1
        /\ resPages'[Len(trail) + 1] = report /\ \A j \in 1..Len(trail) : resPages'[j] = resPages[j]
    <3>1. Len(resPages) = Len(trail)
      BY <2>2 DEF ReportsOn
    <3>2. QED
      BY <1>8, <1>9, <3>1, AppendProperties
  <2>8. ReportsOn(resPages', more)
    <3> SUFFICES ASSUME NEW i \in 1..Len(more)
                 PROVE  resPages'[i] = ReportOf(Last(more[i]), ContextOf(more[i]))
      BY <2>3, <2>7 DEF ReportsOn
    <3>1. CASE i \in 1..Len(trail)
      BY <2>2, <2>3, <2>7, <3>1 DEF ReportsOn
    <3>2. CASE i = Len(trail) + 1
      BY <1>10, <2>3, <2>7, <3>2
    <3>3. QED
      BY <2>3, <3>1, <3>2
  <2>9. QED
    BY <2>6, <2>8
<1>12. QED
  BY <1>1, <1>3, <1>11, ResGoesOn

LEMMA ResSkips ==
  ASSUME ResourceInv, ResFollows, SkipResourceKid \/ StopResourceDescent
  PROVE  ResFollows'
<1>1. CASE SkipResourceKid
  <2>1. PICK kid \in Objects :
          /\ AtResourceKid(kid) /\ OffsetType(kid) \in {"Other", "Unresolved"}
          /\ resFrames' = Advanced(resFrames) /\ tree' = tree /\ resources' = resources
          /\ resPhase' = resPhase /\ resPages' = resPages /\ resTruncated' = resTruncated
    BY <1>1 DEF SkipResourceKid
  <2>2. ResAt(kid)
    BY <2>1, ResourceKid
  <2>3. LeadsNowhere(OffsetBranches, OffsetTypes, kid)
    BY <2>1, <2>2 DEF ResAt, LeadsNowhere
  <2>4. QED
    BY <2>1, <2>2, <2>3, ResPasses
<1>2. CASE StopResourceDescent
  <2>1. PICK kid \in Objects :
          /\ AtResourceKid(kid) /\ ResourceBound(kid) # Absent
          /\ resTruncated' = IF resTruncated = Absent THEN ResourceBound(kid) ELSE resTruncated
          /\ resFrames' = Advanced(resFrames) /\ tree' = tree /\ resources' = resources
          /\ resPhase' = resPhase /\ resPages' = resPages
    BY <1>2 DEF StopResourceDescent
  <2>2. ResAt(kid)
    BY <2>1, ResourceKid
  <2>3. resTruncated' # Absent
    BY <2>1
  <2>4. QED
    BY <2>1, <2>2, <2>3, ResPasses
<1>3. QED
  BY <1>1, <1>2

LEMMA ResDescends ==
  ASSUME ResourceInv, ResFollows, DescendResources
  PROVE  ResFollows'
<1>1. PICK kid \in Objects :
        /\ AtResourceKid(kid) /\ OffsetType(kid) = "Pages" /\ ResourceBound(kid) = Absent
        /\ IF OffsetExpands(kid)
           THEN resFrames' = Append(Advanced(resFrames),
                   [node |-> kid, next |-> 1, context |-> FromDictionary(kid, Top(resFrames).context)])
           ELSE resFrames' = Advanced(resFrames)
        /\ tree' = tree /\ resources' = resources /\ resPhase' = resPhase /\ resPages' = resPages
        /\ resTruncated' = resTruncated
  BY DEF DescendResources
<1>2. ResAt(kid)
  BY <1>1, ResourceKid
<1>3. CASE ~OffsetExpands(kid)
  <2>1. LeadsNowhere(OffsetBranches, OffsetTypes, kid)
    BY <1>1, <1>2, <1>3, OffsetTyped DEF ResAt, LeadsNowhere
  <2>2. QED
    BY <1>1, <1>2, <1>3, <2>1, ResPasses
<1>4. CASE OffsetExpands(kid)
  <2> DEFINE moved == Advanced(resFrames)
             context == FromDictionary(kid, Top(resFrames).context)
             top == [node |-> kid, next |-> 1, context |-> context]
  <2>1. /\ moved \in Seq(ResourceFrame) /\ Moved(resFrames, moved) /\ CarriesContexts(moved)
        /\ AllOffset(moved) /\ OffsetBranches \in [Objects -> Seq(Objects)]
        /\ HasKid(OffsetBranches, resFrames) /\ KidAt(OffsetBranches, resFrames) = kid
        /\ OffsetTypes[kid] = "Pages" /\ resPhase' = "walking"
        /\ Len(resFrames) \in Nat \ {0} /\ resFrames \in Seq(ResourceFrame)
        /\ CarriesContexts(resFrames)
    BY <1>1, <1>2 DEF ResAt
  <2> HIDE DEF moved
  <2>2. Top(resFrames).context = ContextOf(NodesTo(resFrames, Len(resFrames)))
        /\ Top(resFrames).context \in Context
    <3>1. Len(resFrames) \in 1..Len(resFrames)
      BY <2>1
    <3>2. resFrames[Len(resFrames)] \in ResourceFrame
      BY <2>1, <3>1, ElementOfSeq
    <3>3. QED
      BY <2>1, <3>1, <3>2 DEF CarriesContexts, Top, ResourceFrame
  <2>3. context \in Context
    BY <2>2, ContextsPassDown DEF ResourceInv
  <2>4. context = FromDictionary(kid, ContextOf(NodesTo(moved, Len(moved))))
    <3>1. Len(moved) = Len(resFrames) /\ SameNodes(resFrames, moved, Len(resFrames))
      BY <2>1 DEF Moved
    <3>2. NodesTo(moved, Len(moved)) = NodesTo(resFrames, Len(resFrames))
      BY <3>1, SameNodesTo
    <3>3. QED
      BY <2>2, <3>2
  <2> HIDE DEF context
  <2>5. top \in ResourceFrame /\ top.node = kid /\ top.next = 1 /\ top.context = context
    BY <2>3 DEF ResourceFrame
  <2>6. resFrames' = Append(moved, top)
    BY <1>1, <1>4 DEF moved, context
  <2> HIDE DEF top
  <2>7. CarriesContexts(resFrames') /\ AllOffset(resFrames')
    BY <1>4, <2>1, <2>4, <2>5, <2>6, ContextsOpen
  <2>8. Opened(resFrames, resFrames', kid)
    BY <2>1, <2>5, <2>6, StackOpens
  <2>9. Len(resFrames) <= MaxDepth
    BY <1>1, <2>1, BoundsAreNat, AbsentIsNoBound DEF ResourceBound, Bounds
  <2>10. ASSUME resTruncated' = Absent
         PROVE  \E trail : /\ Reached(OffsetBranches, OffsetTypes, resFrames', trail)
                           /\ ReportsOn(resPages', trail)
    <3>1. PICK trail : ResTrail(trail)
      BY <1>1, <1>2, <2>10 DEF ResAt
    <3>2. Reached(OffsetBranches, OffsetTypes, resFrames, trail) /\ ReportsOn(resPages, trail)
      BY <3>1 DEF ResTrail
    <3>3. Reached(OffsetBranches, OffsetTypes, resFrames', trail)
      BY <2>1, <2>8, <2>9, <3>2, ReachedOpen
    <3>4. QED
      BY <1>1, <3>2, <3>3
  <2>11. QED
    BY <1>1, <2>1, <2>7, <2>10, ResGoesOn
<1>5. QED
  BY <1>3, <1>4

LEMMA ResReturns ==
  ASSUME ResourceInv, ResFollows, ReturnFromResources
  PROVE  ResFollows'
<1>1. /\ resPhase = "walking" /\ Exhausted(resFrames) /\ resFrames' = Front(resFrames)
      /\ resPhase' = IF Len(resFrames) = 1 THEN "done" ELSE "walking"
      /\ tree' = tree /\ resources' = resources /\ resPages' = resPages /\ resTruncated' = resTruncated
  BY DEF ReturnFromResources
<1>2. resFrames # <<>>
  BY <1>1 DEF ResourceInv
<1>3. /\ resFrames \in Seq(ResourceFrame) /\ Len(resFrames) \in Nat \ {0}
      /\ resFrames[Len(resFrames)].next \in Nat \ {0}
  BY <1>2, ResourceTop
<1>4. tree \in TreeShape /\ AllOffset(resFrames) /\ CarriesContexts(resFrames)
  BY <1>1 DEF ResFollows
<1>5. ~HasKid(OffsetBranches, resFrames)
  BY <1>1, <1>3, <1>4, OffsetStackAtKid DEF Exhausted, Top
<1>6. OffsetBranches \in [Objects -> Seq(Objects)]
  BY <1>4, OffsetTyped
<1>7. CASE Len(resFrames) = 1
  <2>1. resPhase' = "done"
    BY <1>1, <1>7
  <2>2. ASSUME resTruncated' = Absent
        PROVE  ReportsOn(resPages, OffsetPaths)'
    <3>1. PICK trail : ResTrail(trail)
      BY <1>1, <2>2 DEF ResFollows
    <3>2. Reached(OffsetBranches, OffsetTypes, resFrames, trail) /\ ReportsOn(resPages, trail)
      BY <3>1 DEF ResTrail
    <3>3. trail = PathsOf(OffsetBranches, OffsetTypes)
      BY <1>5, <1>6, <1>7, <3>2, ReachedEnd
    <3>4. OffsetBranches' = OffsetBranches /\ OffsetTypes' = OffsetTypes
      BY <1>1, OffsetKept
    <3>5. OffsetPaths = PathsOf(OffsetBranches, OffsetTypes)
      BY Zenon DEF OffsetPaths, OffsetBranches, OffsetTypes
    <3>6. OffsetPaths' = PathsOf(OffsetBranches', OffsetTypes')
      BY Zenon DEF OffsetPaths, OffsetBranches, OffsetTypes
    <3>7. OffsetPaths' = trail
      BY <3>3, <3>4, <3>6
    <3>8. \A path : ContextOf(path)' = ContextOf(path)
      BY <1>1, ContextKept
    <3>9. QED
      BY <1>1, <3>2, <3>7, <3>8 DEF ReportsOn
  <2>3. tree' \in TreeShape
    BY <1>1, <1>4
  <2>4. QED
    BY <2>1, <2>2, <2>3 DEF ResFollows
<1>8. CASE Len(resFrames) # 1
  <2> DEFINE back == Front(resFrames)
  <2>1. Len(back) = Len(resFrames) - 1 /\ \A k \in 1..Len(back) : back[k] = resFrames[k]
    BY <1>2, <1>3, Popped DEF Front
  <2>2. Closed(resFrames, back)
    BY <1>2, <1>3, StackCloses
  <2> HIDE DEF back
  <2>3. resFrames' = back
    BY <1>1 DEF back
  <2>4. CarriesContexts(resFrames') /\ AllOffset(resFrames')
    BY <1>3, <1>4, <2>1, <2>3, ContextsClose
  <2>5. ASSUME resTruncated' = Absent
        PROVE  \E trail : /\ Reached(OffsetBranches, OffsetTypes, resFrames', trail)
                          /\ ReportsOn(resPages', trail)
    <3>1. PICK trail : ResTrail(trail)
      BY <1>1, <2>5 DEF ResFollows
    <3>2. Reached(OffsetBranches, OffsetTypes, resFrames, trail) /\ ReportsOn(resPages, trail)
      BY <3>1 DEF ResTrail
    <3>3. Reached(OffsetBranches, OffsetTypes, resFrames', trail)
      BY <1>5, <1>6, <1>8, <2>2, <2>3, <3>2, ReachedClose
    <3>4. QED
      BY <1>1, <3>2, <3>3
  <2>6. QED
    BY <1>1, <1>8, <2>4, <2>5, ResGoesOn
<1>9. QED
  BY <1>7, <1>8

LEMMA ResStarts ==
  ASSUME ResFollows, StartResources, OffsetExpands(Root)
  PROVE  ResFollows'
<1>1. /\ resPhase = "idle" /\ resPhase' = "walking" /\ tree' = tree /\ resources' = resources
      /\ resFrames' = <<[node |-> Root, next |-> 1, context |-> FromDictionary(Root, NoContext)]>>
      /\ resPages' = resPages
  BY DEF StartResources
<1>2. resPages = <<>> /\ tree \in TreeShape
  BY <1>1 DEF ResFollows
<1>3. /\ CarriesContexts(resFrames') /\ AllOffset(resFrames')
      /\ Len(resFrames') = 1 /\ resFrames'[1].node = Root /\ resFrames'[1].next = 1
  BY <1>1, ContextsStart
<1>4. Reached(OffsetBranches, OffsetTypes, resFrames', <<>>)
  BY <1>2, <1>3, OffsetTyped, ReachedStart
<1>5. ReportsOn(resPages', <<>>)
  BY <1>1, <1>2 DEF ReportsOn
<1>6. QED
  BY <1>1, <1>3, <1>4, <1>5, ResGoesOn

LEMMA ResStepsFollow ==
  ASSUME ResourceInv, ResFollows, ResourceStep, resPhase = "idle" => OffsetExpands(Root)
  PROVE  ResFollows'
<1>1. CASE StartResources
  <2>1. OffsetExpands(Root)
    BY <1>1 DEF StartResources
  <2>2. QED
    BY <1>1, <2>1, ResStarts
<1>2. QED
  BY <1>1, ResInspects, ResSkips, ResDescends, ResReturns DEF ResourceStep

LEMMA ResStays ==
  ASSUME ResFollows, tree' = tree, UNCHANGED <<resources, resVars>>
  PROVE  ResFollows'
<1>1. /\ resources' = resources /\ resPhase' = resPhase /\ resFrames' = resFrames
      /\ resPages' = resPages /\ resTruncated' = resTruncated
  BY DEF resVars
<1>2. CASE resPhase = "walking"
  <2>1. AllOffset(resFrames') /\ CarriesContexts(resFrames')
    BY <1>1, <1>2 DEF ResFollows
  <2>2. ASSUME resTruncated' = Absent
        PROVE  \E trail : /\ Reached(OffsetBranches, OffsetTypes, resFrames', trail)
                          /\ ReportsOn(resPages', trail)
    BY <1>1, <1>2, <2>2 DEF ResFollows, ResTrail
  <2>3. QED
    BY <1>1, <1>2, <2>1, <2>2, ResGoesOn
<1>3. CASE resPhase = "done" /\ resTruncated = Absent
  <2>1. ReportsOn(resPages, OffsetPaths)
    BY <1>3 DEF ResFollows
  <2>2. OffsetBranches' = OffsetBranches /\ OffsetTypes' = OffsetTypes
    BY OffsetKept
  <2>3. OffsetPaths = PathsOf(OffsetBranches, OffsetTypes)
    BY Zenon DEF OffsetPaths, OffsetBranches, OffsetTypes
  <2>4. OffsetPaths' = PathsOf(OffsetBranches', OffsetTypes')
    BY Zenon DEF OffsetPaths, OffsetBranches, OffsetTypes
  <2>5. OffsetPaths' = OffsetPaths
    BY <2>2, <2>3, <2>4
  <2>6. \A path : ContextOf(path)' = ContextOf(path)
    BY <1>1, ContextKept
  <2>7. ReportsOn(resPages, OffsetPaths)'
    BY <1>1, <2>1, <2>5, <2>6 DEF ReportsOn
  <2>8. QED
    BY <1>1, <1>3, <2>7 DEF ResFollows
<1>4. CASE resPhase # "walking" /\ ~(resPhase = "done" /\ resTruncated = Absent)
  BY <1>1, <1>4 DEF ResFollows
<1>5. QED
  BY <1>2, <1>3, <1>4

-----------------------------------------------------------------------------
(***************************************************************************)
(* What both walks by file offset do, as a function of where they are: the *)
(* open calls, the nodes remembered and entered, the bound met first and   *)
(* the leaves so far.                                                      *)
(***************************************************************************)
Visit(stack, seen, count, cut, listed) ==
  [stack |-> stack, seen |-> seen, count |-> count, cut |-> cut, listed |-> listed]

TypeIn(t, node) == IF Readable(t[node].dict) THEN t[node].type ELSE "Unresolved"
ExpandsIn(t, node) == Readable(t[node].dict) /\ t[node].kids # Absent

BoundAt(stack, seen, count, kid) ==
  IF kid \in seen THEN "Cycle"
  ELSE IF Len(stack) > MaxDepth THEN "MaxDepth"
  ELSE IF count >= MaxNodes THEN "MaxVisitedNodes"
  ELSE Absent

AfterKid(t, stack, seen, count, cut, listed, kid) ==
  LET bound == BoundAt(stack, seen, count, kid)
  IN  IF TypeIn(t, kid) = "Page" THEN Visit(Advanced(stack), seen, count, cut, Append(listed, kid))
      ELSE IF TypeIn(t, kid) # "Pages" THEN Visit(Advanced(stack), seen, count, cut, listed)
      ELSE IF bound # Absent
           THEN Visit(Advanced(stack), seen, count, IF cut = Absent THEN bound ELSE cut, listed)
      ELSE Visit(IF ExpandsIn(t, kid) THEN Append(Advanced(stack), Frame(kid)) ELSE Advanced(stack),
                 seen \cup {kid}, count + 1, cut, listed)

KidsAt(t, stack) == t[Top(stack).node].kids
Past(t, stack) == Top(stack).next > Len(KidsAt(t, stack))

AfterVisit(t, stack, seen, count, cut, listed) ==
  IF Past(t, stack) THEN Visit(Front(stack), seen, count, cut, listed)
  ELSE AfterKid(t, stack, seen, count, cut, listed, KidsAt(t, stack)[Top(stack).next])

After(t, v) == AfterVisit(t, v.stack, v.seen, v.count, v.cut, v.listed)

FirstVisit == Visit(<<Frame(Root)>>, {Root}, 1, Absent, <<>>)

(* A walk as the visits it made, up to the n-th.                            *)
Visits(t, run, n) ==
  /\ n \in Nat \ {0} /\ run[1] = FirstVisit
  /\ \A i \in 1..n : i # n => run[i].stack # <<>> /\ run[i + 1] = After(t, run[i])

LEMMA VisitsStart ==
  ASSUME NEW t
  PROVE  \E run : Visits(t, run, 1) /\ run[1] = FirstVisit
<1> DEFINE run == [i \in 1..1 |-> FirstVisit]
<1>1. run[1] = FirstVisit /\ \A i \in 1..1 : i = 1
  OBVIOUS
<1> HIDE DEF run
<1>2. Visits(t, run, 1)
  BY <1>1 DEF Visits
<1>3. QED
  BY <1>1, <1>2

LEMMA VisitsGrow ==
  ASSUME NEW t, NEW run, NEW n, NEW v, Visits(t, run, n), run[n].stack # <<>>,
         v = After(t, run[n])
  PROVE  \E more : Visits(t, more, n + 1) /\ more[n + 1] = v
<1> DEFINE more == [i \in 1..(n + 1) |-> IF i = n + 1 THEN v ELSE run[i]]
<1>1. /\ n \in Nat \ {0} /\ run[1] = FirstVisit
      /\ \A i \in 1..n : i # n => run[i].stack # <<>> /\ run[i + 1] = After(t, run[i])
  BY DEF Visits
<1>2. n + 1 \in 1..(n + 1) /\ \A i \in 1..n : i \in 1..(n + 1) /\ i # n + 1
  BY <1>1
<1>3. more[n + 1] = v /\ \A i \in 1..n : more[i] = run[i]
  BY <1>2
<1> HIDE DEF more
<1>4. ASSUME NEW i \in 1..(n + 1), i # n + 1
      PROVE  more[i].stack # <<>> /\ more[i + 1] = After(t, more[i])
  <2>1. i \in 1..n
    BY <1>1, <1>4
  <2>2. CASE i = n
    BY <1>3, <2>1, <2>2
  <2>3. CASE i # n
    <3>1. i + 1 \in 1..n
      BY <1>1, <2>1, <2>3
    <3>2. QED
      BY <1>1, <1>3, <2>1, <2>3, <3>1
  <2>4. QED
    BY <2>2, <2>3
<1>5. more[1] = FirstVisit /\ n + 1 \in Nat \ {0}
  BY <1>1, <1>3
<1>6. Visits(t, more, n + 1)
  BY <1>4, <1>5 DEF Visits
<1>7. QED
  BY <1>3, <1>6

(***************************************************************************)
(* The leaf walk of the content pass.                                      *)
(***************************************************************************)
ExtVisit == Visit(extFrames, extVisited, extNodeCount, extTruncated, extLeaves)

ExtVisits ==
  /\ extFrames \in Seq(LeafFrame)
  /\ extLeafPhase = "idle" => extTruncated = Absent /\ extLeaves = <<>>
  /\ extLeafPhase = "walking" => extFrames # <<>>
  /\ extLeafPhase = "done" => extFrames = <<>>
  /\ extLeafPhase \in {"walking", "done"} =>
       ExpandsIn(OffsetTree, Root) /\ \E run, n : Visits(OffsetTree, run, n) /\ run[n] = ExtVisit

LEMMA OffsetTreeIs ==
  ASSUME tree \in TreeShape
  PROVE  \A node \in Objects :
           /\ TypeIn(OffsetTree, node) = OffsetType(node)
           /\ ExpandsIn(OffsetTree, node) <=> OffsetExpands(node)
           /\ OffsetExpands(node) => OffsetTree[node].kids = Kids(node)
<1> TAKE node \in Objects
<1>1. OffsetTree[node] = IF tree[node].compressed
                         THEN [tree[node] EXCEPT !.type = "Unresolved", !.kids = Absent]
                         ELSE tree[node]
  BY DEF OffsetTree
<1>2. tree[node] \in ObjectShape
  BY DEF TreeShape
<1>3. CASE tree[node].compressed
  <2>1. /\ OffsetTree[node].type = "Unresolved" /\ OffsetTree[node].kids = Absent
        /\ OffsetTree[node].dict = tree[node].dict
    BY <1>1, <1>2, <1>3 DEF ObjectShape
  <2>2. QED
    BY <1>3, <2>1 DEF TypeIn, ExpandsIn, OffsetType, OffsetExpands
<1>4. CASE ~tree[node].compressed
  BY <1>1, <1>4 DEF TypeIn, ExpandsIn, OffsetType, OffsetExpands, NodeType, Expands, Kids
<1>5. QED
  BY <1>3, <1>4

LEMMA OffsetTreeKept ==
  ASSUME tree' = tree
  PROVE  OffsetTree' = OffsetTree
BY DEF OffsetTree

LEMMA ExtGoesOn ==
  ASSUME ExtVisits, tree' = tree, extLeafPhase = "walking", ExtVisit' = After(OffsetTree, ExtVisit),
         extFrames' \in Seq(LeafFrame), extLeafPhase' \in {"walking", "done"},
         extLeafPhase' = "done" <=> extFrames' = <<>>
  PROVE  ExtVisits'
<1>1. PICK run, n : Visits(OffsetTree, run, n) /\ run[n] = ExtVisit
  BY DEF ExtVisits
<1>2. run[n].stack # <<>>
  BY <1>1 DEF ExtVisits, ExtVisit, Visit
<1>3. PICK more : Visits(OffsetTree, more, n + 1) /\ more[n + 1] = After(OffsetTree, ExtVisit)
  BY <1>1, <1>2, VisitsGrow
<1>4. OffsetTree' = OffsetTree
  BY OffsetTreeKept
<1>5. Visits(OffsetTree', more, n + 1) /\ more[n + 1] = ExtVisit'
  BY <1>3, <1>4
<1>6. (\E r, k : Visits(OffsetTree, r, k) /\ r[k] = ExtVisit)'
  BY <1>5
<1>7. ExpandsIn(OffsetTree', Root)
  BY <1>4 DEF ExtVisits
<1>8. QED
  BY <1>6, <1>7 DEF ExtVisits

LEMMA ExtAtKid ==
  ASSUME ExtVisits, NEW kid, Extents!AtKid(kid), NEW v, v = AfterKid(OffsetTree, extFrames, extVisited, extNodeCount,
                                                                    extTruncated, extLeaves, kid)
  PROVE  /\ extLeafPhase = "walking" /\ extFrames # <<>> /\ After(OffsetTree, ExtVisit) = v
         /\ Advanced(extFrames) \in Seq(LeafFrame) /\ Advanced(extFrames) # <<>>
         /\ Extents!Advanced(extFrames) = Advanced(extFrames)
         /\ Extents!Frame(kid) = Frame(kid)
         /\ Extents!NodeType(kid) = TypeIn(OffsetTree, kid)
         /\ Extents!Expands(kid) <=> ExpandsIn(OffsetTree, kid)
         /\ Extents!CrossedBound(kid) = BoundAt(extFrames, extVisited, extNodeCount, kid)
<1>1. /\ extLeafPhase = "walking" /\ extFrames # <<>> /\ ~Past(OffsetTree, extFrames)
      /\ kid = KidsAt(OffsetTree, extFrames)[Top(extFrames).next]
  BY DEF Extents!AtKid, Extents!Exhausted, Extents!Kids, Extents!Top, Past, KidsAt, Top
<1>2. After(OffsetTree, ExtVisit) = AfterVisit(OffsetTree, extFrames, extVisited, extNodeCount,
                                               extTruncated, extLeaves)
  BY DEF After, ExtVisit, Visit
<1>3. After(OffsetTree, ExtVisit) = v
  BY <1>1, <1>2 DEF AfterVisit
<1>4. Advanced(extFrames) \in Seq(LeafFrame) /\ Advanced(extFrames) # <<>>
  BY <1>1, AdvancedFrames DEF ExtVisits
<1>5. Extents!Advanced(extFrames) = Advanced(extFrames) /\ Extents!Frame(kid) = Frame(kid)
  BY DEF Extents!Advanced, Advanced, Extents!Frame, Frame
<1>6. Extents!NodeType(kid) = TypeIn(OffsetTree, kid) /\ (Extents!Expands(kid) <=> ExpandsIn(OffsetTree, kid))
  BY DEF Extents!NodeType, TypeIn, Extents!Expands, ExpandsIn, Extents!Kids, Extents!Readable, Readable
<1>7. Extents!CrossedBound(kid) = BoundAt(extFrames, extVisited, extNodeCount, kid)
  BY DEF Extents!CrossedBound, BoundAt
<1>8. QED
  BY <1>1, <1>3, <1>4, <1>5, <1>6, <1>7

LEMMA ExtStepsVisit ==
  ASSUME ExtVisits, tree' = tree, Extents!LeafStep
  PROVE  ExtVisits'
<1> DEFINE moved == Advanced(extFrames)
           next(kid) == AfterKid(OffsetTree, extFrames, extVisited, extNodeCount, extTruncated, extLeaves, kid)
<1>0. ExtVisit' = Visit(extFrames', extVisited', extNodeCount', extTruncated', extLeaves')
  BY DEF ExtVisit
<1>1. CASE Extents!StartLeaves
  <2>1. /\ extLeafPhase = "idle" /\ extTruncated' = extTruncated /\ extLeaves' = extLeaves
        /\ IF Extents!Expands(Root)
           THEN /\ extLeafPhase' = "walking" /\ extFrames' = <<Extents!Frame(Root)>>
                /\ extVisited' = {Root} /\ extNodeCount' = 1
           ELSE extLeafPhase' = "failed" /\ extFrames' = extFrames
    BY <1>1 DEF Extents!StartLeaves
  <2>2. extTruncated = Absent /\ extLeaves = <<>> /\ extFrames \in Seq(LeafFrame)
    BY <2>1 DEF ExtVisits
  <2>3. CASE Extents!Expands(Root)
    <3>1. Extents!Frame(Root) = Frame(Root) /\ ExpandsIn(OffsetTree, Root)
      BY <2>3 DEF Extents!Frame, Frame, Extents!Expands, ExpandsIn, Extents!Kids, Extents!Readable, Readable
    <3>2. ExtVisit' = FirstVisit
      BY <1>0, <2>1, <2>2, <2>3, <3>1 DEF FirstVisit
    <3>3. OffsetTree' = OffsetTree
      BY OffsetTreeKept
    <3>4. PICK run : Visits(OffsetTree', run, 1) /\ run[1] = FirstVisit
      BY VisitsStart
    <3>5. (\E r, n : Visits(OffsetTree, r, n) /\ r[n] = ExtVisit)'
      BY <3>2, <3>4
    <3>6. Frame(Root) \in LeafFrame
      BY RootIsObject DEF Frame, LeafFrame
    <3> DEFINE first == Frame(Root)
    <3> HIDE DEF first
    <3>7. <<first>> \in Seq(LeafFrame) /\ <<first>> # <<>>
      BY <3>6 DEF first
    <3>8. extFrames' \in Seq(LeafFrame) /\ extFrames' # <<>>
      BY <2>1, <2>3, <3>1, <3>7 DEF first
    <3>9. ExpandsIn(OffsetTree', Root)
      BY <3>1, <3>3
    <3>10. extLeafPhase' = "walking"
      BY <2>1, <2>3
    <3>11. QED
      BY <3>5, <3>8, <3>9, <3>10 DEF ExtVisits
  <2>4. CASE ~Extents!Expands(Root)
    BY <2>1, <2>2, <2>4 DEF ExtVisits
  <2>5. QED
    BY <2>3, <2>4
<1>2. CASE Extents!EmitLeaf
  <2>1. PICK kid \in Objects :
          /\ Extents!AtKid(kid) /\ Extents!NodeType(kid) = "Page"
          /\ extLeaves' = Append(extLeaves, kid) /\ extFrames' = Extents!Advanced(extFrames)
          /\ extLeafPhase' = extLeafPhase /\ extVisited' = extVisited
          /\ extNodeCount' = extNodeCount /\ extTruncated' = extTruncated
    BY <1>2 DEF Extents!EmitLeaf
  <2>2. /\ extLeafPhase = "walking" /\ After(OffsetTree, ExtVisit) = next(kid)
        /\ moved \in Seq(LeafFrame) /\ moved # <<>> /\ extFrames' = moved
        /\ TypeIn(OffsetTree, kid) = "Page"
    BY <2>1, ExtAtKid
  <2>3. ExtVisit' = Visit(moved, extVisited, extNodeCount, extTruncated, Append(extLeaves, kid))
    BY <1>0, <2>1, <2>2
  <2> HIDE DEF moved
  <2>4. ExtVisit' = After(OffsetTree, ExtVisit)
    BY <2>2, <2>3 DEF AfterKid, moved
  <2>5. QED
    BY <2>1, <2>2, <2>4, ExtGoesOn
<1>3. CASE Extents!SkipKid
  <2>1. PICK kid \in Objects :
          /\ Extents!AtKid(kid) /\ Extents!NodeType(kid) \in {"Other", "Unresolved"}
          /\ extLeaves' = extLeaves /\ extFrames' = Extents!Advanced(extFrames)
          /\ extLeafPhase' = extLeafPhase /\ extVisited' = extVisited
          /\ extNodeCount' = extNodeCount /\ extTruncated' = extTruncated
    BY <1>3 DEF Extents!SkipKid
  <2>2. /\ extLeafPhase = "walking" /\ After(OffsetTree, ExtVisit) = next(kid)
        /\ moved \in Seq(LeafFrame) /\ moved # <<>> /\ extFrames' = moved
        /\ TypeIn(OffsetTree, kid) \in {"Other", "Unresolved"}
    BY <2>1, ExtAtKid
  <2>3. ExtVisit' = Visit(moved, extVisited, extNodeCount, extTruncated, extLeaves)
    BY <1>0, <2>1, <2>2
  <2>4. TypeIn(OffsetTree, kid) # "Page" /\ TypeIn(OffsetTree, kid) # "Pages"
    BY <2>2
  <2> HIDE DEF moved
  <2>5. ExtVisit' = After(OffsetTree, ExtVisit)
    BY <2>2, <2>3, <2>4 DEF AfterKid, moved
  <2>6. QED
    BY <2>1, <2>2, <2>5, ExtGoesOn
<1>4. CASE Extents!StopDescent
  <2>1. PICK kid \in Objects :
          /\ Extents!AtKid(kid) /\ Extents!NodeType(kid) = "Pages" /\ Extents!CrossedBound(kid) # Absent
          /\ extTruncated' = IF extTruncated = Absent THEN Extents!CrossedBound(kid) ELSE extTruncated
          /\ extLeaves' = extLeaves /\ extFrames' = Extents!Advanced(extFrames)
          /\ extLeafPhase' = extLeafPhase /\ extVisited' = extVisited
          /\ extNodeCount' = extNodeCount
    BY <1>4 DEF Extents!StopDescent
  <2> DEFINE bound == BoundAt(extFrames, extVisited, extNodeCount, kid)
  <2>2. /\ extLeafPhase = "walking" /\ After(OffsetTree, ExtVisit) = next(kid)
        /\ moved \in Seq(LeafFrame) /\ moved # <<>> /\ extFrames' = moved
        /\ TypeIn(OffsetTree, kid) = "Pages" /\ Extents!CrossedBound(kid) = bound
    BY <2>1, ExtAtKid
  <2> HIDE DEF bound
  <2>3. ExtVisit' = Visit(moved, extVisited, extNodeCount,
                          IF extTruncated = Absent THEN bound ELSE extTruncated, extLeaves)
    BY <1>0, <2>1, <2>2
  <2>4. bound # Absent
    BY <2>1, <2>2
  <2> HIDE DEF moved
  <2>5. ExtVisit' = After(OffsetTree, ExtVisit)
    BY <2>2, <2>3, <2>4 DEF AfterKid, moved, bound
  <2>6. QED
    BY <2>1, <2>2, <2>5, ExtGoesOn
<1>5. CASE Extents!Descend
  <2>1. PICK kid \in Objects :
          /\ Extents!AtKid(kid) /\ Extents!NodeType(kid) = "Pages" /\ Extents!CrossedBound(kid) = Absent
          /\ extVisited' = extVisited \cup {kid} /\ extNodeCount' = extNodeCount + 1
          /\ IF Extents!Expands(kid) THEN extFrames' = Append(Extents!Advanced(extFrames), Extents!Frame(kid))
             ELSE extFrames' = Extents!Advanced(extFrames)
          /\ extLeaves' = extLeaves /\ extLeafPhase' = extLeafPhase /\ extTruncated' = extTruncated
    BY <1>5 DEF Extents!Descend, Extents!Enter
  <2> DEFINE bound == BoundAt(extFrames, extVisited, extNodeCount, kid)
             deeper == Append(moved, Frame(kid))
  <2>2. /\ extLeafPhase = "walking" /\ After(OffsetTree, ExtVisit) = next(kid)
        /\ moved \in Seq(LeafFrame) /\ moved # <<>>
        /\ Extents!Advanced(extFrames) = moved /\ Extents!Frame(kid) = Frame(kid)
        /\ Extents!Expands(kid) <=> ExpandsIn(OffsetTree, kid)
        /\ TypeIn(OffsetTree, kid) = "Pages" /\ bound = Absent
    BY <2>1, ExtAtKid
  <2>3. extFrames' = IF ExpandsIn(OffsetTree, kid) THEN deeper ELSE moved
    BY <2>1, <2>2
  <2>4. ExtVisit' = Visit(IF ExpandsIn(OffsetTree, kid) THEN deeper ELSE moved,
                          extVisited \cup {kid}, extNodeCount + 1, extTruncated, extLeaves)
    BY <1>0, <2>1, <2>3
  <2> HIDE DEF moved, bound
  <2>5. ExtVisit' = After(OffsetTree, ExtVisit)
    BY <2>2, <2>4 DEF AfterKid, moved, bound
  <2>6. deeper \in Seq(LeafFrame) /\ deeper # <<>>
    <3>1. Frame(kid) \in LeafFrame
      BY DEF Frame, LeafFrame
    <3>2. QED
      BY <2>2, <3>1, AppendProperties
  <2> HIDE DEF deeper
  <2>7. extFrames' \in Seq(LeafFrame) /\ extFrames' # <<>>
    BY <2>2, <2>3, <2>6
  <2>8. QED
    BY <2>1, <2>2, <2>5, <2>7, ExtGoesOn
<1>6. CASE Extents!ReturnFromNode
  <2>1. /\ extLeafPhase = "walking" /\ Extents!Exhausted(extFrames)
        /\ extFrames' = Front(extFrames)
        /\ extLeafPhase' = IF Len(extFrames) = 1 THEN "done" ELSE "walking"
        /\ extLeaves' = extLeaves /\ extVisited' = extVisited
        /\ extNodeCount' = extNodeCount /\ extTruncated' = extTruncated
    BY <1>6 DEF Extents!ReturnFromNode, Extents!Front, Front
  <2>2. extFrames \in Seq(LeafFrame) /\ extFrames # <<>>
    BY <2>1 DEF ExtVisits
  <2>3. Past(OffsetTree, extFrames)
    BY <2>1 DEF Extents!Exhausted, Extents!Kids, Extents!Top, Past, KidsAt, Top
  <2>4. ExtVisit' = Visit(Front(extFrames), extVisited, extNodeCount, extTruncated, extLeaves)
    BY <1>0, <2>1
  <2>5. After(OffsetTree, ExtVisit) = AfterVisit(OffsetTree, extFrames, extVisited, extNodeCount,
                                                 extTruncated, extLeaves)
    BY DEF After, ExtVisit, Visit
  <2>6. ExtVisit' = After(OffsetTree, ExtVisit)
    BY <2>3, <2>4, <2>5 DEF AfterVisit
  <2>7. /\ extFrames' \in Seq(LeafFrame) /\ Len(extFrames') = Len(extFrames) - 1
        /\ Len(extFrames) \in Nat \ {0}
    BY <2>1, <2>2, Popped DEF Front
  <2>8. extLeafPhase' = "done" <=> extFrames' = <<>>
    BY <2>1, <2>7, EmptySeq
  <2>9. QED
    BY <2>1, <2>6, <2>7, <2>8, ExtGoesOn
<1>7. QED
  BY <1>1, <1>2, <1>3, <1>4, <1>5, <1>6 DEF Extents!LeafStep

-----------------------------------------------------------------------------
(***************************************************************************)
(* The resource walk, its contexts and reports aside, makes the visits of  *)
(* the leaf walk one after the other.                                      *)
(***************************************************************************)
BareFrame(frame) == [node |-> frame.node, next |-> frame.next]
Bare(s) == [i \in 1..Len(s) |-> BareFrame(s[i])]
LeavesOf(list) == [i \in 1..Len(list) |-> list[i].leaf]

ResVisit == Visit(Bare(resFrames), resVisited, resNodeCount, resTruncated, LeavesOf(resPages))

ResVisits ==
  /\ resPhase = "idle" => resTruncated = Absent /\ resPages = <<>>
  /\ resPhase = "done" => resFrames = <<>>
  /\ resPhase # "idle" =>
       /\ extLeafPhase = "done"
       /\ \E run, n : /\ Visits(OffsetTree, run, n) /\ run[n] = ExtVisit
                      /\ \E m \in 1..n : run[m] = ResVisit

LEMMA BareIs ==
  ASSUME NEW s \in Seq(ResourceFrame)
  PROVE  /\ Bare(s) \in Seq(LeafFrame) /\ Len(Bare(s)) = Len(s) /\ Len(s) \in Nat
         /\ \A i \in 1..Len(s) : s[i] \in ResourceFrame /\ Bare(s)[i] = BareFrame(s[i])
         /\ Bare(s) = <<>> <=> s = <<>>
<1> DEFINE n == Len(s)
           bare == Bare(s)
<1>1. n \in Nat /\ \A i \in 1..n : s[i] \in ResourceFrame
  BY LenProperties, ElementOfSeq
<1>2. \A i \in 1..n : BareFrame(s[i]) \in LeafFrame
  BY <1>1 DEF ResourceFrame, BareFrame, LeafFrame
<1>3. bare \in [1..n -> LeafFrame] /\ \A i \in 1..n : bare[i] = BareFrame(s[i])
  BY <1>2 DEF Bare
<1> HIDE DEF bare
<1>4. bare \in Seq(LeafFrame)
  BY <1>1, <1>3
<1>5. Len(bare) = n
  BY <1>1, <1>3, <1>4
<1>6. bare = <<>> <=> s = <<>>
  BY <1>1, <1>4, <1>5, EmptySeq
<1>7. QED
  BY <1>1, <1>3, <1>4, <1>5, <1>6 DEF bare

LEMMA BareMoved ==
  ASSUME NEW s \in Seq(ResourceFrame), s # <<>>
  PROVE  Bare(Advanced(s)) = Advanced(Bare(s))
<1> DEFINE n == Len(s)
           moved == Advanced(s)
           bare == Bare(s)
           both == Bare(moved)
           past == Advanced(bare)
<1>1. moved \in Seq(ResourceFrame) /\ Moved(s, moved)
  BY ResourcesMove
<1> HIDE DEF moved
<1>2. /\ Len(moved) = n /\ n \in Nat \ {0}
      /\ \A i \in 1..n : /\ moved[i].node = s[i].node
                         /\ moved[i].next = IF i = n THEN s[i].next + 1 ELSE s[i].next
  BY <1>1 DEF Moved, SameNodes
<1>3. /\ both \in Seq(LeafFrame) /\ Len(both) = n
      /\ \A i \in 1..n : both[i] = BareFrame(moved[i])
  BY <1>1, <1>2, BareIs
<1>4. /\ bare \in Seq(LeafFrame) /\ Len(bare) = n /\ bare # <<>>
      /\ \A i \in 1..n : s[i] \in ResourceFrame /\ bare[i] = BareFrame(s[i])
  BY BareIs
<1> HIDE DEF both, bare
<1>5. past \in Seq(LeafFrame) /\ Len(past) = n
      /\ \A i \in 1..n : /\ past[i].node = bare[i].node
                         /\ past[i].next = IF i = n THEN bare[i].next + 1 ELSE bare[i].next
  BY <1>4, AdvancedFrames
<1> HIDE DEF past
<1>6. ASSUME NEW i \in 1..n
      PROVE  both[i] = past[i]
  <2>0. \A frame : BareFrame(frame).node = frame.node /\ BareFrame(frame).next = frame.next
    BY DEF BareFrame
  <2>1. bare[i].node = s[i].node /\ bare[i].next = s[i].next
    BY <1>4, <2>0
  <2>2. both[i].node = moved[i].node /\ both[i].next = moved[i].next
    BY <1>3, <2>0
  <2>3. both[i].node = past[i].node /\ both[i].next = past[i].next
    BY <1>2, <1>5, <2>1, <2>2
  <2>4. both[i] \in LeafFrame /\ past[i] \in LeafFrame
    BY <1>3, <1>5, ElementOfSeq
  <2>5. QED
    BY <2>3, <2>4 DEF LeafFrame
<1>7. both = past
  BY <1>3, <1>5, <1>6, SeqEqual
<1>8. QED
  BY <1>7 DEF both, past, moved, bare

LEMMA BareOpened ==
  ASSUME NEW s \in Seq(ResourceFrame), NEW top \in ResourceFrame, top.next = 1
  PROVE  Bare(Append(s, top)) = Append(Bare(s), Frame(top.node))
<1> DEFINE n == Len(s)
           t == Append(s, top)
           bare == Bare(s)
           frame == Frame(top.node)
           both == Bare(t)
           more == Append(bare, frame)
<1>1. /\ t \in Seq(ResourceFrame) /\ n \in Nat /\ Len(t) = n + 1 /\ t[n + 1] = top
      /\ \A i \in 1..n : t[i] = s[i]
  BY LenProperties, AppendProperties
<1> HIDE DEF t
<1>2. /\ both \in Seq(LeafFrame) /\ Len(both) = n + 1
      /\ \A i \in 1..(n + 1) : both[i] = BareFrame(t[i])
  BY <1>1, BareIs
<1>3. bare \in Seq(LeafFrame) /\ Len(bare) = n /\ \A i \in 1..n : bare[i] = BareFrame(s[i])
  BY BareIs
<1>4. frame \in LeafFrame /\ frame = BareFrame(top)
  BY DEF Frame, BareFrame, LeafFrame, ResourceFrame
<1> HIDE DEF both, bare, frame
<1>5. /\ more \in Seq(LeafFrame) /\ Len(more) = n + 1 /\ more[n + 1] = frame
      /\ \A i \in 1..n : more[i] = bare[i]
  BY <1>3, <1>4, AppendProperties
<1> HIDE DEF more
<1>6. ASSUME NEW i \in 1..(n + 1)
      PROVE  both[i] = more[i]
  <2>1. i \in 1..n \/ i = n + 1
    BY <1>1
  <2>2. QED
    BY <1>1, <1>2, <1>3, <1>4, <1>5, <2>1
<1>7. both = more
  BY <1>2, <1>5, <1>6, SeqEqual
<1>8. QED
  BY <1>7 DEF both, more, t, bare, frame

LEMMA BareClosed ==
  ASSUME NEW s \in Seq(ResourceFrame), s # <<>>
  PROVE  Bare(Front(s)) = Front(Bare(s))
<1> DEFINE n == Len(s)
           t == Front(s)
           bare == Bare(s)
           both == Bare(t)
           back == Front(bare)
<1>1. /\ t \in Seq(ResourceFrame) /\ n \in Nat \ {0} /\ Len(t) = n - 1
      /\ \A i \in 1..Len(t) : t[i] = s[i]
  BY Popped DEF Front
<1> HIDE DEF t
<1>2. /\ both \in Seq(LeafFrame) /\ Len(both) = Len(t)
      /\ \A i \in 1..Len(t) : both[i] = BareFrame(t[i])
  BY <1>1, BareIs
<1>3. /\ bare \in Seq(LeafFrame) /\ Len(bare) = n /\ bare # <<>>
      /\ \A i \in 1..n : bare[i] = BareFrame(s[i])
  BY BareIs
<1> HIDE DEF both, bare
<1>4. back \in Seq(LeafFrame) /\ Len(back) = n - 1 /\ \A i \in 1..Len(back) : back[i] = bare[i]
  BY <1>3, Popped DEF Front
<1> HIDE DEF back
<1>5. ASSUME NEW i \in 1..Len(both)
      PROVE  both[i] = back[i]
  <2>1. i \in 1..Len(t) /\ i \in 1..Len(back) /\ i \in 1..n
    BY <1>1, <1>2, <1>4
  <2>2. QED
    BY <1>1, <1>2, <1>3, <1>4, <2>1
<1>6. both = back
  BY <1>1, <1>2, <1>4, <1>5, SeqEqual
<1>7. QED
  BY <1>6 DEF both, back, t, bare

LEMMA LeavesOfTyped ==
  ASSUME NEW list \in Seq(Report)
  PROVE  /\ LeavesOf(list) \in Seq(Objects) /\ Len(LeavesOf(list)) = Len(list) /\ Len(list) \in Nat
         /\ \A i \in 1..Len(list) : LeavesOf(list)[i] = list[i].leaf
<1> DEFINE n == Len(list)
           found == LeavesOf(list)
<1>1. n \in Nat /\ \A i \in 1..n : list[i] \in Report
  BY LenProperties, ElementOfSeq
<1>2. \A i \in 1..n : list[i].leaf \in Objects
  BY <1>1 DEF Report
<1>3. found \in [1..n -> Objects] /\ \A i \in 1..n : found[i] = list[i].leaf
  BY <1>2 DEF LeavesOf
<1> HIDE DEF found
<1>4. found \in Seq(Objects)
  BY <1>1, <1>3
<1>5. Len(found) = n
  BY <1>1, <1>3, <1>4
<1>6. QED
  BY <1>1, <1>3, <1>4, <1>5 DEF found

LEMMA LeavesOfMore ==
  ASSUME NEW list \in Seq(Report), NEW report \in Report
  PROVE  LeavesOf(Append(list, report)) = Append(LeavesOf(list), report.leaf)
<1> DEFINE n == Len(list)
           longer == Append(list, report)
           found == LeavesOf(list)
           leaf == report.leaf
           both == LeavesOf(longer)
           more == Append(found, leaf)
<1>1. /\ longer \in Seq(Report) /\ n \in Nat /\ Len(longer) = n + 1 /\ longer[n + 1] = report
      /\ \A i \in 1..n : longer[i] = list[i]
  BY LenProperties, AppendProperties
<1> HIDE DEF longer
<1>2. /\ both \in Seq(Objects) /\ Len(both) = n + 1
      /\ \A i \in 1..(n + 1) : both[i] = longer[i].leaf
  BY <1>1, LeavesOfTyped
<1>3. found \in Seq(Objects) /\ Len(found) = n /\ \A i \in 1..n : found[i] = list[i].leaf
  BY LeavesOfTyped
<1>4. leaf \in Objects
  BY DEF Report
<1> HIDE DEF both, found
<1>5. /\ more \in Seq(Objects) /\ Len(more) = n + 1 /\ more[n + 1] = leaf
      /\ \A i \in 1..n : more[i] = found[i]
  BY <1>3, <1>4, AppendProperties
<1> HIDE DEF more
<1>6. ASSUME NEW i \in 1..(n + 1)
      PROVE  both[i] = more[i]
  <2>1. i \in 1..n \/ i = n + 1
    BY <1>1
  <2>2. QED
    BY <1>1, <1>2, <1>3, <1>5, <2>1
<1>7. both = more
  BY <1>2, <1>5, <1>6, SeqEqual
<1>8. QED
  BY <1>7 DEF both, more, longer, found

(* A report is of the leaf it was made for.                                 *)
LEMMA ReportNames ==
  ASSUME NEW leaf, NEW context \in Context
  PROVE  ReportOf(leaf, context).leaf = leaf
<1> DEFINE listed == context.resources.xobject
           none(reason) == [leaf |-> leaf, images |-> {}, forms |-> {},
                            skipped |-> Append(context.skips, reason)]
<1>1. CASE context.resources = Absent \/ listed \in {Absent, Unusable}
  <2>1. ReportOf(leaf, context) \in {none("MissingResources"), none("MissingXObject"), none("UnusableXObject")}
    BY <1>1 DEF ReportOf
  <2>2. QED
    BY <2>1
<1>2. CASE context.resources # Absent /\ listed \notin {Absent, Unusable}
  <2>1. ReportOf(leaf, context) =
          [leaf |-> leaf, images |-> Classified(listed, "Image"),
           forms |-> (Classified(listed, "Form") \X {TRUE})
                       \cup (Classified(listed, "OpaqueForm") \X {FALSE}),
           skipped |-> context.skips \o EntrySkips(listed)]
    BY <1>2 DEF ReportOf
  <2> DEFINE i_ == Classified(listed, "Image")
             f_ == (Classified(listed, "Form") \X {TRUE}) \cup (Classified(listed, "OpaqueForm") \X {FALSE})
             s_ == context.skips \o EntrySkips(listed)
  <2> HIDE DEF i_, f_, s_
  <2>2. ReportOf(leaf, context) = [leaf |-> leaf, images |-> i_, forms |-> f_, skipped |-> s_]
    BY <2>1 DEF i_, f_, s_
  <2>3. QED
    BY <2>2
<1>3. QED
  BY <1>1, <1>2

(* One visit further.                                                       *)
LEMMA ResVisitsNext ==
  ASSUME ResourceInv, ExtVisits, ResVisits, resPhase = "walking", tree' = tree,
         UNCHANGED extVars, ResVisit' = After(OffsetTree, ResVisit),
         resPhase' \in {"walking", "done"}, resPhase' = "done" => resFrames' = <<>>
  PROVE  ResVisits'
<1>1. /\ extLeafPhase' = extLeafPhase /\ extFrames' = extFrames /\ extLeaves' = extLeaves
      /\ extVisited' = extVisited /\ extNodeCount' = extNodeCount /\ extTruncated' = extTruncated
  BY DEF extVars
<1>2. PICK run, n : /\ Visits(OffsetTree, run, n) /\ run[n] = ExtVisit
                    /\ \E m \in 1..n : run[m] = ResVisit
  BY DEF ResVisits
<1>3. PICK m \in 1..n : run[m] = ResVisit
  BY <1>2
<1>4. /\ n \in Nat
      /\ \A i \in 1..n : i # n => run[i].stack # <<>> /\ run[i + 1] = After(OffsetTree, run[i])
  BY <1>2 DEF Visits
<1>5. extLeafPhase = "done" /\ extFrames = <<>>
  BY DEF ResVisits, ExtVisits
<1>6. ExtVisit.stack = <<>>
  BY <1>5 DEF ExtVisit, Visit
<1>7. ResVisit.stack # <<>>
  <2>1. resFrames \in Seq(ResourceFrame) /\ resFrames # <<>>
    BY DEF ResourceInv
  <2>2. Bare(resFrames) # <<>>
    BY <2>1, BareIs
  <2>3. ResVisit.stack = Bare(resFrames)
    BY DEF ResVisit, Visit
  <2>4. QED
    BY <2>2, <2>3
<1>8. m # n
  BY <1>2, <1>3, <1>6, <1>7
<1>9. m + 1 \in 1..n /\ run[m + 1] = ResVisit'
  BY <1>3, <1>4, <1>8
<1>10. OffsetTree' = OffsetTree
  BY OffsetTreeKept
<1>11. ExtVisit' = ExtVisit
  BY <1>1 DEF ExtVisit
<1>12. Visits(OffsetTree', run, n) /\ run[n] = ExtVisit' /\ \E k \in 1..n : run[k] = ResVisit'
  BY <1>2, <1>9, <1>10, <1>11
<1>13. (\E r, k : Visits(OffsetTree, r, k) /\ r[k] = ExtVisit /\ \E j \in 1..k : r[j] = ResVisit)'
  BY <1>12
<1>14. resPhase' # "idle"
  OBVIOUS
<1>15. QED
  BY <1>1, <1>5, <1>13, <1>14 DEF ResVisits

LEMMA ResVisitAtKid ==
  ASSUME ResourceInv, ResFollows, NEW kid \in Objects, AtResourceKid(kid),
         NEW v, v = AfterKid(OffsetTree, Bare(resFrames), resVisited, resNodeCount,
                             resTruncated, LeavesOf(resPages), kid)
  PROVE  /\ resPhase = "walking" /\ After(OffsetTree, ResVisit) = v
         /\ Bare(Advanced(resFrames)) = Advanced(Bare(resFrames))
         /\ Advanced(resFrames) \in Seq(ResourceFrame)
         /\ TypeIn(OffsetTree, kid) = OffsetType(kid)
         /\ ExpandsIn(OffsetTree, kid) <=> OffsetExpands(kid)
         /\ ResourceBound(kid) = BoundAt(Bare(resFrames), resVisited, resNodeCount, kid)
         /\ Top(resFrames).context \in Context /\ resPages \in Seq(Report)
<1>1. /\ resPhase = "walking" /\ resFrames # <<>> /\ ~Exhausted(resFrames)
      /\ kid = Kids(Top(resFrames).node)[Top(resFrames).next]
  BY DEF AtResourceKid
<1>2. /\ resFrames \in Seq(ResourceFrame) /\ Len(resFrames) \in Nat \ {0}
      /\ resFrames[Len(resFrames)] \in ResourceFrame
  BY <1>1, ResourceTop
<1>3. tree \in TreeShape /\ AllOffset(resFrames)
  BY <1>1 DEF ResFollows
<1> DEFINE bare == Bare(resFrames)
<1>4. /\ Len(bare) = Len(resFrames)
      /\ Top(bare).node = Top(resFrames).node /\ Top(bare).next = Top(resFrames).next
  <2>1. Len(bare) = Len(resFrames) /\ Len(resFrames) \in 1..Len(resFrames)
        /\ bare[Len(resFrames)] = BareFrame(resFrames[Len(resFrames)])
    BY <1>2, BareIs
  <2> HIDE DEF bare
  <2>2. QED
    BY <2>1 DEF Top, BareFrame
<1>5. OffsetTree[Top(resFrames).node].kids = Kids(Top(resFrames).node)
  <2>1. Top(resFrames).node \in Objects /\ OffsetExpands(Top(resFrames).node)
    BY <1>2, <1>3 DEF AllOffset, Top
  <2>2. QED
    BY <1>3, <2>1, OffsetTreeIs
<1>6. Bare(Advanced(resFrames)) = Advanced(bare) /\ Advanced(resFrames) \in Seq(ResourceFrame)
  BY <1>1, <1>2, BareMoved, ResourcesMove
<1> HIDE DEF bare
<1>7. KidsAt(OffsetTree, bare) = Kids(Top(resFrames).node)
  BY <1>4, <1>5 DEF KidsAt
<1>8. ~Past(OffsetTree, bare) /\ KidsAt(OffsetTree, bare)[Top(bare).next] = kid
  BY <1>1, <1>4, <1>7 DEF Past, Exhausted
<1>9. After(OffsetTree, ResVisit) = AfterVisit(OffsetTree, bare, resVisited, resNodeCount,
                                               resTruncated, LeavesOf(resPages))
  BY DEF After, ResVisit, Visit, bare
<1>10. After(OffsetTree, ResVisit) = v
  BY <1>8, <1>9 DEF AfterVisit, bare
<1>11. TypeIn(OffsetTree, kid) = OffsetType(kid) /\ (ExpandsIn(OffsetTree, kid) <=> OffsetExpands(kid))
  BY <1>3, OffsetTreeIs
<1>12. ResourceBound(kid) = BoundAt(bare, resVisited, resNodeCount, kid)
  BY <1>4 DEF ResourceBound, BoundAt
<1>13. Top(resFrames).context \in Context /\ resPages \in Seq(Report)
  BY <1>2 DEF Top, ResourceFrame, ResourceInv
<1>14. QED
  BY <1>1, <1>6, <1>10, <1>11, <1>12, <1>13 DEF bare

LEMMA ResVisitsStart ==
  ASSUME ExtVisits, ResVisits, StartResources, extLeafPhase = "done", UNCHANGED extVars
  PROVE  ResVisits'
<1>1. /\ extLeafPhase' = extLeafPhase /\ extFrames' = extFrames /\ extLeaves' = extLeaves
      /\ extVisited' = extVisited /\ extNodeCount' = extNodeCount /\ extTruncated' = extTruncated
  BY DEF extVars
<1>2. /\ resPhase = "idle" /\ resPhase' = "walking" /\ tree' = tree
      /\ resFrames' = <<[node |-> Root, next |-> 1, context |-> FromDictionary(Root, NoContext)]>>
      /\ resVisited' = {Root} /\ resNodeCount' = 1 /\ resTruncated' = resTruncated /\ resPages' = resPages
  BY DEF StartResources
<1>3. resTruncated = Absent /\ resPages = <<>>
  BY <1>2 DEF ResVisits
<1>4. Bare(resFrames') = <<Frame(Root)>>
  <2> DEFINE own == FromDictionary(Root, NoContext)
             s == <<[node |-> Root, next |-> 1, context |-> own]>>
  <2> HIDE DEF own
  <2>1. Len(s) = 1 /\ s[1].node = Root /\ s[1].next = 1
    OBVIOUS
  <2> HIDE DEF s
  <2>2. BareFrame(s[1]) = Frame(Root)
    BY <2>1 DEF BareFrame, Frame
  <2>3. Bare(s) = [i \in 1..1 |-> Frame(Root)]
    BY <2>1, <2>2 DEF Bare
  <2>4. [i \in 1..1 |-> Frame(Root)] = <<Frame(Root)>>
    <3> DEFINE frame == Frame(Root)
    <3> HIDE DEF frame
    <3>1. [i \in 1..1 |-> frame] = <<frame>>
      OBVIOUS
    <3>2. QED
      BY <3>1 DEF frame
  <2>5. QED
    BY <1>2, <2>3, <2>4 DEF s, own
<1>5. LeavesOf(resPages') = <<>>
  <2>1. <<>> \in Seq(Report) /\ Len(<<>>) = 0
    BY EmptySeq
  <2> DEFINE none == LeavesOf(<<>>)
  <2>2. none \in Seq(Objects) /\ Len(none) = 0
    BY <2>1, LeavesOfTyped
  <2> HIDE DEF none
  <2>3. none = <<>>
    BY <2>2, EmptySeq
  <2>4. QED
    BY <1>2, <1>3, <2>3 DEF none
<1>6. ResVisit' = FirstVisit
  <2>1. ResVisit' = Visit(Bare(resFrames'), resVisited', resNodeCount', resTruncated', LeavesOf(resPages'))
    BY DEF ResVisit, Bare, LeavesOf
  <2>2. QED
    BY <1>2, <1>3, <1>4, <1>5, <2>1 DEF FirstVisit
<1>7. PICK run, n : Visits(OffsetTree, run, n) /\ run[n] = ExtVisit
  BY DEF ExtVisits
<1>8. 1 \in 1..n /\ run[1] = FirstVisit
  BY <1>7 DEF Visits
<1>9. OffsetTree' = OffsetTree /\ ExtVisit' = ExtVisit
  BY <1>1, <1>2, OffsetTreeKept DEF ExtVisit
<1>10. Visits(OffsetTree', run, n) /\ run[n] = ExtVisit' /\ \E k \in 1..n : run[k] = ResVisit'
  BY <1>6, <1>7, <1>8, <1>9
<1>11. (\E r, k : Visits(OffsetTree, r, k) /\ r[k] = ExtVisit /\ \E j \in 1..k : r[j] = ResVisit)'
  BY <1>10
<1>12. QED
  BY <1>1, <1>2, <1>11 DEF ResVisits

LEMMA ResStepsVisit ==
  ASSUME ResourceInv, ResFollows, ExtVisits, ResVisits, ResourceStep, extLeafPhase = "done",
         UNCHANGED extVars
  PROVE  ResVisits'
<1> DEFINE bare == Bare(resFrames)
           listed == LeavesOf(resPages)
           next(kid) == AfterKid(OffsetTree, bare, resVisited, resNodeCount, resTruncated, listed, kid)
           moved == Advanced(bare)
<1>0. ResVisit' = Visit(Bare(resFrames'), resVisited', resNodeCount', resTruncated', LeavesOf(resPages'))
  BY DEF ResVisit, Bare, LeavesOf
<1>1. CASE StartResources
  BY <1>1, ResVisitsStart
<1>2. CASE InspectPage
  <2>1. PICK kid \in Objects :
          /\ AtResourceKid(kid) /\ OffsetType(kid) = "Page"
          /\ resPages' = Append(resPages, ReportOf(kid, FromDictionary(kid, Top(resFrames).context)))
          /\ resFrames' = Advanced(resFrames) /\ tree' = tree /\ resPhase' = resPhase
          /\ resVisited' = resVisited /\ resNodeCount' = resNodeCount /\ resTruncated' = resTruncated
    BY <1>2 DEF InspectPage
  <2>2. /\ resPhase = "walking" /\ After(OffsetTree, ResVisit) = next(kid)
        /\ Bare(resFrames') = moved /\ TypeIn(OffsetTree, kid) = "Page"
        /\ Top(resFrames).context \in Context /\ resPages \in Seq(Report)
    BY <2>1, ResVisitAtKid
  <2> DEFINE context == FromDictionary(kid, Top(resFrames).context)
             report == ReportOf(kid, context)
  <2>3. context \in Context
    BY <2>2, ContextsPassDown DEF ResourceInv
  <2> HIDE DEF context
  <2>4. report \in Report /\ report.leaf = kid
    BY <2>3, ReportsAreTyped, ReportNames
  <2>5. resPages' = Append(resPages, report)
    BY <2>1 DEF context
  <2> HIDE DEF report
  <2>6. LeavesOf(resPages') = Append(listed, kid)
    BY <2>2, <2>4, <2>5, LeavesOfMore
  <2>7. ResVisit' = Visit(moved, resVisited, resNodeCount, resTruncated, Append(listed, kid))
    BY <1>0, <2>1, <2>2, <2>6
  <2> HIDE DEF moved, listed, bare
  <2>8. ResVisit' = After(OffsetTree, ResVisit)
    BY <2>2, <2>7 DEF AfterKid, moved
  <2>9. QED
    BY <2>1, <2>2, <2>8, ResVisitsNext
<1>3. CASE SkipResourceKid
  <2>1. PICK kid \in Objects :
          /\ AtResourceKid(kid) /\ OffsetType(kid) \in {"Other", "Unresolved"}
          /\ resPages' = resPages
          /\ resFrames' = Advanced(resFrames) /\ tree' = tree /\ resPhase' = resPhase
          /\ resVisited' = resVisited /\ resNodeCount' = resNodeCount /\ resTruncated' = resTruncated
    BY <1>3 DEF SkipResourceKid
  <2>2. /\ resPhase = "walking" /\ After(OffsetTree, ResVisit) = next(kid)
        /\ Bare(resFrames') = moved /\ TypeIn(OffsetTree, kid) \in {"Other", "Unresolved"}
    BY <2>1, ResVisitAtKid
  <2>3. TypeIn(OffsetTree, kid) # "Page" /\ TypeIn(OffsetTree, kid) # "Pages"
    BY <2>2
  <2>4. LeavesOf(resPages') = listed
    BY <2>1
  <2>5. ResVisit' = Visit(moved, resVisited, resNodeCount, resTruncated, listed)
    BY <1>0, <2>1, <2>2, <2>4
  <2> HIDE DEF moved, listed, bare
  <2>6. ResVisit' = After(OffsetTree, ResVisit)
    BY <2>2, <2>3, <2>5 DEF AfterKid, moved
  <2>7. QED
    BY <2>1, <2>2, <2>6, ResVisitsNext
<1>4. CASE StopResourceDescent
  <2>1. PICK kid \in Objects :
          /\ AtResourceKid(kid) /\ OffsetType(kid) = "Pages" /\ ResourceBound(kid) # Absent
          /\ resTruncated' = IF resTruncated = Absent THEN ResourceBound(kid) ELSE resTruncated
          /\ resVisited' = Remembered(kid)
          /\ resFrames' = Advanced(resFrames) /\ tree' = tree /\ resPhase' = resPhase
          /\ resNodeCount' = resNodeCount /\ resPages' = resPages
    BY <1>4 DEF StopResourceDescent
  <2> DEFINE bound == BoundAt(bare, resVisited, resNodeCount, kid)
  <2>2. /\ resPhase = "walking" /\ After(OffsetTree, ResVisit) = next(kid)
        /\ Bare(resFrames') = moved /\ TypeIn(OffsetTree, kid) = "Pages"
        /\ ResourceBound(kid) = bound
    BY <2>1, ResVisitAtKid
  <2>3. resVisited' = resVisited /\ LeavesOf(resPages') = listed
    BY <2>1 DEF Remembered
  <2> HIDE DEF bound
  <2>4. ResVisit' = Visit(moved, resVisited, resNodeCount,
                          IF resTruncated = Absent THEN bound ELSE resTruncated, listed)
    BY <1>0, <2>1, <2>2, <2>3
  <2>5. bound # Absent
    BY <2>1, <2>2
  <2> HIDE DEF moved, listed, bare
  <2>6. ResVisit' = After(OffsetTree, ResVisit)
    BY <2>2, <2>4, <2>5 DEF AfterKid, moved, bound
  <2>7. QED
    BY <2>1, <2>2, <2>6, ResVisitsNext
<1>5. CASE DescendResources
  <2>1. PICK kid \in Objects :
          /\ AtResourceKid(kid) /\ OffsetType(kid) = "Pages" /\ ResourceBound(kid) = Absent
          /\ resVisited' = Remembered(kid) /\ resNodeCount' = resNodeCount + 1
          /\ IF OffsetExpands(kid)
             THEN resFrames' = Append(Advanced(resFrames),
                    [node |-> kid, next |-> 1, context |-> FromDictionary(kid, Top(resFrames).context)])
             ELSE resFrames' = Advanced(resFrames)
          /\ tree' = tree /\ resPhase' = resPhase /\ resTruncated' = resTruncated /\ resPages' = resPages
    BY <1>5 DEF DescendResources
  <2> DEFINE bound == BoundAt(bare, resVisited, resNodeCount, kid)
             deeper == Append(moved, Frame(kid))
             context == FromDictionary(kid, Top(resFrames).context)
             top == [node |-> kid, next |-> 1, context |-> context]
  <2>2. /\ resPhase = "walking" /\ After(OffsetTree, ResVisit) = next(kid)
        /\ Bare(Advanced(resFrames)) = moved /\ Advanced(resFrames) \in Seq(ResourceFrame)
        /\ TypeIn(OffsetTree, kid) = "Pages"
        /\ ExpandsIn(OffsetTree, kid) <=> OffsetExpands(kid)
        /\ ResourceBound(kid) = bound /\ Top(resFrames).context \in Context
    BY <2>1, ResVisitAtKid
  <2>3. resVisited' = resVisited \cup {kid} /\ LeavesOf(resPages') = listed
    BY <2>1 DEF Remembered
  <2>4. context \in Context
    BY <2>2, ContextsPassDown DEF ResourceInv
  <2>5. OffsetExpands(kid) => resFrames' = Append(Advanced(resFrames), top)
    BY <2>1
  <2> HIDE DEF context
  <2>6. top \in ResourceFrame /\ top.next = 1 /\ top.node = kid
    BY <2>4 DEF ResourceFrame
  <2> HIDE DEF top, bound, moved, listed, bare
  <2>7. Bare(resFrames') = IF ExpandsIn(OffsetTree, kid) THEN deeper ELSE moved
    <3>1. CASE OffsetExpands(kid)
      <4>1. Bare(Append(Advanced(resFrames), top)) = Append(Bare(Advanced(resFrames)), Frame(top.node))
        BY <2>2, <2>6, BareOpened
      <4>2. QED
        BY <2>2, <2>5, <2>6, <3>1, <4>1
    <3>2. CASE ~OffsetExpands(kid)
      BY <2>1, <2>2, <3>2
    <3>3. QED
      BY <3>1, <3>2
  <2>8. ResVisit' = Visit(IF ExpandsIn(OffsetTree, kid) THEN deeper ELSE moved,
                          resVisited \cup {kid}, resNodeCount + 1, resTruncated, listed)
    BY <1>0, <2>1, <2>3, <2>7
  <2>9. bound = Absent
    BY <2>1, <2>2
  <2>10. ResVisit' = After(OffsetTree, ResVisit)
    BY <2>2, <2>8, <2>9 DEF AfterKid, moved, bound
  <2>11. QED
    BY <2>1, <2>2, <2>10, ResVisitsNext
<1>6. CASE ReturnFromResources
  <2>1. /\ resPhase = "walking" /\ Exhausted(resFrames)
        /\ resFrames' = Front(resFrames)
        /\ resPhase' = IF Len(resFrames) = 1 THEN "done" ELSE "walking"
        /\ tree' = tree /\ resVisited' = resVisited /\ resNodeCount' = resNodeCount
        /\ resTruncated' = resTruncated /\ resPages' = resPages
    BY <1>6 DEF ReturnFromResources
  <2>2. resFrames # <<>>
    BY <2>1 DEF ResourceInv
  <2>3. /\ resFrames \in Seq(ResourceFrame) /\ Len(resFrames) \in Nat \ {0}
        /\ resFrames[Len(resFrames)] \in ResourceFrame
    BY <2>2, ResourceTop
  <2>4. Bare(resFrames') = Front(bare)
    BY <2>1, <2>2, <2>3, BareClosed
  <2>5. tree \in TreeShape /\ AllOffset(resFrames)
    BY <2>1 DEF ResFollows
  <2>6. /\ Top(bare).node = Top(resFrames).node /\ Top(bare).next = Top(resFrames).next
    <3>1. Len(bare) = Len(resFrames) /\ Len(resFrames) \in 1..Len(resFrames)
          /\ bare[Len(resFrames)] = BareFrame(resFrames[Len(resFrames)])
      BY <2>3, BareIs
    <3> HIDE DEF bare
    <3>2. QED
      BY <3>1 DEF Top, BareFrame
  <2>7. OffsetTree[Top(resFrames).node].kids = Kids(Top(resFrames).node)
    <3>1. Top(resFrames).node \in Objects /\ OffsetExpands(Top(resFrames).node)
      BY <2>3, <2>5 DEF AllOffset, Top
    <3>2. QED
      BY <2>5, <3>1, OffsetTreeIs
  <2> HIDE DEF bare
  <2>8. Past(OffsetTree, bare)
    BY <2>1, <2>6, <2>7 DEF Past, KidsAt, Exhausted
  <2>9. After(OffsetTree, ResVisit) = AfterVisit(OffsetTree, bare, resVisited, resNodeCount,
                                                 resTruncated, listed)
    BY DEF After, ResVisit, Visit, bare
  <2>10. ResVisit' = Visit(Front(bare), resVisited, resNodeCount, resTruncated, listed)
    <3>1. LeavesOf(resPages') = listed
      BY <2>1
    <3> HIDE DEF listed
    <3>2. QED
      BY <1>0, <2>1, <2>4, <3>1
  <2>11. ResVisit' = After(OffsetTree, ResVisit)
    BY <2>8, <2>9, <2>10 DEF AfterVisit
  <2>12. resPhase' = "done" => resFrames' = <<>>
    <3>1. resFrames' \in Seq(ResourceFrame) /\ Len(resFrames') = Len(resFrames) - 1
      BY <2>1, <2>2, <2>3, Popped DEF Front
    <3>2. QED
      BY <2>1, <3>1, EmptySeq
  <2>13. QED
    BY <2>1, <2>11, <2>12, ResVisitsNext
<1>7. QED
  BY <1>1, <1>2, <1>3, <1>4, <1>5, <1>6 DEF ResourceStep

-----------------------------------------------------------------------------
(***************************************************************************)
(* Where the walks end, which is with the same leaves and for the same     *)
(* reason, the ordinal of a page in the inventory names its own report.    *)
(***************************************************************************)

LEMMA WalksEndAlike ==
  ASSUME ResourceInv, ExtVisits, ResVisits, resPhase = "done"
  PROVE  LeavesOf(resPages) = extLeaves /\ resTruncated = extTruncated
<1>1. PICK run, n : /\ Visits(OffsetTree, run, n) /\ run[n] = ExtVisit
                    /\ \E m \in 1..n : run[m] = ResVisit
  BY DEF ResVisits
<1>2. PICK m \in 1..n : run[m] = ResVisit
  BY <1>1
<1>3. ResVisit.stack = <<>>
  <2>1. resFrames = <<>> /\ resFrames \in Seq(ResourceFrame)
    BY DEF ResVisits, ResourceInv
  <2>2. Bare(resFrames) = <<>>
    BY <2>1, BareIs
  <2>3. ResVisit.stack = Bare(resFrames)
    BY DEF ResVisit, Visit
  <2>4. QED
    BY <2>2, <2>3
<1>4. m = n
  BY <1>1, <1>2, <1>3 DEF Visits
<1>5. ResVisit = ExtVisit
  BY <1>1, <1>2, <1>4
<1>6. ResVisit.listed = LeavesOf(resPages) /\ ResVisit.cut = resTruncated
  BY DEF ResVisit, Visit
<1>7. ExtVisit.listed = extLeaves /\ ExtVisit.cut = extTruncated
  BY DEF ExtVisit, Visit
<1>8. QED
  BY <1>5, <1>6, <1>7

OrdinalInv == ResourceInv /\ ResFollows /\ ExtVisits /\ ResVisits

LEMMA OrdinalsStart == ReadInit => OrdinalInv
<1> SUFFICES ASSUME ReadInit PROVE OrdinalInv
  OBVIOUS
<1>1. ResourceInv
  BY ScansStart
<1>2. tree \in TreeShape
  BY PdfDocumentsAreShaped, DocumentsAreTrees DEF ReadInit
<1>3. resPhase = "idle" /\ resFrames = <<>> /\ resPages = <<>> /\ resTruncated = Absent
  BY DEF ReadInit, PdfInit, ResourceInit
<1>4. extLeafPhase = "idle" /\ extFrames = <<>> /\ extTruncated = Absent /\ extLeaves = <<>>
  BY DEF ReadInit, PdfInit, Extents!LeafInit
<1>5. ResFollows
  BY <1>2, <1>3 DEF ResFollows
<1>6. ExtVisits
  BY <1>4 DEF ExtVisits
<1>7. ResVisits
  BY <1>3 DEF ResVisits
<1>8. QED
  BY <1>1, <1>5, <1>6, <1>7 DEF OrdinalInv

LEMMA ExtStays ==
  ASSUME ExtVisits, tree' = tree, UNCHANGED extVars
  PROVE  ExtVisits'
<1>1. /\ extLeafPhase' = extLeafPhase /\ extFrames' = extFrames /\ extLeaves' = extLeaves
      /\ extVisited' = extVisited /\ extNodeCount' = extNodeCount /\ extTruncated' = extTruncated
  BY DEF extVars
<1>2. OffsetTree' = OffsetTree /\ ExtVisit' = ExtVisit
  BY <1>1, OffsetTreeKept DEF ExtVisit
<1>3. QED
  BY <1>1, <1>2 DEF ExtVisits

LEMMA ResVisitsStay ==
  ASSUME ResVisits, tree' = tree, UNCHANGED resVars, UNCHANGED extVars \/ resPhase = "idle"
  PROVE  ResVisits'
<1>1. /\ resPhase' = resPhase /\ resFrames' = resFrames /\ resVisited' = resVisited
      /\ resNodeCount' = resNodeCount /\ resTruncated' = resTruncated /\ resPages' = resPages
  BY DEF resVars
<1>2. CASE resPhase = "idle"
  BY <1>1, <1>2 DEF ResVisits
<1>3. CASE resPhase # "idle"
  <2>1. /\ extLeafPhase' = extLeafPhase /\ extFrames' = extFrames /\ extLeaves' = extLeaves
        /\ extVisited' = extVisited /\ extNodeCount' = extNodeCount /\ extTruncated' = extTruncated
    BY <1>3 DEF extVars
  <2>2. OffsetTree' = OffsetTree /\ ExtVisit' = ExtVisit
    BY <2>1, OffsetTreeKept DEF ExtVisit
  <2>3. ResVisit' = ResVisit
    BY <1>1 DEF ResVisit, Bare, LeavesOf
  <2>4. QED
    BY <1>1, <2>1, <2>2, <2>3 DEF ResVisits
<1>4. QED
  BY <1>2, <1>3

LEMMA OrdinalsStay ==
  ASSUME OrdinalInv, tree' = tree, UNCHANGED <<resources, resVars, extVars>>
  PROVE  OrdinalInv'
BY OtherStepsKeepReports, ResStays, ExtStays, ResVisitsStay DEF OrdinalInv

LEMMA OrdinalsStep ==
  ASSUME OrdinalInv, [ReadNext]_readVars
  PROVE  OrdinalInv'
<1>1. CASE InspectPageBoxes \/ OpenForAudit \/ UNCHANGED readVars
  <2>1. UNCHANGED pdfVars /\ tree' = tree
    <3>1. UNCHANGED pdfVars /\ (EnumerateLeaves \/ InspectBoxes \/ UNCHANGED vars)
      BY <1>1 DEF InspectPageBoxes, OpenForAudit, Next, Answered, readVars
    <3>2. EnumerateLeaves => tree' = tree
      BY DEF EnumerateLeaves, LeafStep, StartLeaves, EmitLeaf, SkipKid, StopDescent, Descend, ReturnFromNode
    <3>3. InspectBoxes => tree' = tree
      BY DEF InspectBoxes, BoxStep, StartBoxes, DescendBoxes, ProcessPagesNode, PassOverKid,
             ReportLeaf, RefuseLeaf, ReturnFromTargets, FinishBoxes
    <3>4. QED
      BY <3>1, <3>2, <3>3 DEF vars
  <2>2. QED
    BY <2>1, OrdinalsStay DEF pdfVars
<1>2. CASE BuildInventory
  <2>1. CASE LocateContent
    <3>1. tree' = tree /\ Extents!LeafStep /\ UNCHANGED <<resources, resVars>>
      BY <2>1 DEF LocateContent
    <3>2. extLeafPhase # "done"
      BY <3>1 DEF Extents!LeafStep, Extents!StartLeaves, Extents!EmitLeaf, Extents!SkipKid,
                  Extents!StopDescent, Extents!Descend, Extents!ReturnFromNode, Extents!AtKid
    <3>3. resPhase = "idle"
      BY <3>2 DEF OrdinalInv, ResVisits
    <3>4. QED
      BY <3>1, <3>3, OtherStepsKeepReports, ResStays, ExtStepsVisit, ResVisitsStay DEF OrdinalInv
  <2>2. CASE InspectResources
    <3>1. extLeafPhase = "done" /\ ResourceStep /\ UNCHANGED extVars
      BY <2>2 DEF InspectResources
    <3>2. tree' = tree
      BY <3>1 DEF ResourceStep, StartResources, InspectPage, SkipResourceKid, StopResourceDescent,
                  DescendResources, ReturnFromResources
    <3>3. OffsetExpands(Root)
      <4>1. ExpandsIn(OffsetTree, Root) /\ tree \in TreeShape
        BY <3>1 DEF OrdinalInv, ExtVisits, ResFollows
      <4>2. QED
        BY <4>1, OffsetTreeIs, RootIsObject
    <3>4. QED
      BY <3>1, <3>2, <3>3, ResourceStepsAreTyped, ResStepsFollow, ExtStays, ResStepsVisit DEF OrdinalInv
  <2>3. CASE InventoryPage \/ SkipPage
    <3>1. tree' = tree /\ UNCHANGED <<resources, resVars, extVars>>
      BY <2>3 DEF InventoryPage, SkipPage
    <3>2. QED
      BY <3>1, OrdinalsStay
  <2>4. QED
    BY <1>2, <2>1, <2>2, <2>3 DEF BuildInventory, PdfStep
<1>3. CASE AuditPage \/ CheckPage
  <2>1. tree' = tree /\ UNCHANGED <<resources, resVars, extVars>>
    BY <1>3 DEF AuditPage, CheckPage, pdfVars, vars
  <2>2. QED
    BY <2>1, OrdinalsStay
<1>4. QED
  BY <1>1, <1>2, <1>3 DEF ReadNext, AuditStep, AuditAnswered

(***************************************************************************)
(* In every document, whatever its /Kids graph and its dictionaries: the   *)
(* reports of the resource walk are of the leaves of the content pass, one *)
(* for one and in order, wherever a bound cut the two; where none did, the *)
(* i-th is what the nearest /Resources above the i-th leaf gives it.       *)
(***************************************************************************)
THEOREM PagesAlwaysGetTheirOwnResources == ReadSpec => []PagesGetTheirOwnResources
<1>1. OrdinalInv => PagesGetTheirOwnResources
  <2> SUFFICES ASSUME OrdinalInv, resPhase = "done"
               PROVE  /\ [i \in 1..Len(resPages) |-> resPages[i].leaf] = extLeaves
                      /\ extTruncated = Absent =>
                           resPages = [i \in 1..Len(OffsetPaths) |->
                                         ReportOf(Last(OffsetPaths[i]), ContextOf(OffsetPaths[i]))]
    BY DEF PagesGetTheirOwnResources
  <2>1. LeavesOf(resPages) = extLeaves /\ resTruncated = extTruncated
    BY WalksEndAlike DEF OrdinalInv
  <2>2. ASSUME extTruncated = Absent
        PROVE  resPages = [i \in 1..Len(OffsetPaths) |->
                             ReportOf(Last(OffsetPaths[i]), ContextOf(OffsetPaths[i]))]
    <3> DEFINE n == Len(OffsetPaths)
               report(i) == ReportOf(Last(OffsetPaths[i]), ContextOf(OffsetPaths[i]))
    <3>1. ReportsOn(resPages, OffsetPaths)
      BY <2>1, <2>2 DEF OrdinalInv, ResFollows
    <3>2. Len(resPages) = n /\ \A i \in 1..n : resPages[i] = report(i)
      BY <3>1 DEF ReportsOn
    <3>3. resPages = [i \in 1..Len(resPages) |-> resPages[i]]
      BY DEF OrdinalInv, ResourceInv
    <3> HIDE DEF n, report
    <3>4. resPages = [i \in 1..n |-> report(i)]
      BY <3>2, <3>3
    <3>5. QED
      BY <3>4 DEF n, report
  <2>3. QED
    BY <2>1, <2>2 DEF LeavesOf
<1>2. OrdinalInv /\ [ReadNext]_readVars => OrdinalInv'
  BY OrdinalsStep
<1>3. QED
  BY <1>1, <1>2, OrdinalsStart, PTL DEF ReadSpec

-----------------------------------------------------------------------------
(***************************************************************************)
(* The box edits.  In every call of set_page_boxes_incremental: a call     *)
(* answers all of its edits or writes nothing, and the leaf dictionaries   *)
(* it rewrites hold what was asked for and what was there.                 *)
(*                                                                         *)
(* An edit is aimed at the place where the box walk found the leaf to      *)
(* state a box, in a dictionary that no other edit of the call touches:    *)
(* the walk is followed from the boxes it carries down to the bodies that  *)
(* are planned, and from there to the revision.                            *)
(***************************************************************************)

-----------------------------------------------------------------------------
(***************************************************************************)
(* What the report of a call answers: while it plans, the first edits of   *)
(* the request, each by one edited or one skipped page; when it has        *)
(* written, all of them.                                                   *)
(***************************************************************************)
CallTypes ==
  /\ \E S : request \in Seq(S)
  /\ \E S : edited \in Seq(S)
  /\ \E S : skipped \in Seq(S)
  /\ \E S : dirty \in Seq(S)
  /\ \A i \in 1..Len(request) : request[i].page_index \in Nat

Answers ==
  /\ Planned <= Len(request)
  /\ EditedIndexes \cup SkippedIndexes = {request[i].page_index : i \in 1..Planned}
  /\ Apart(edited) /\ \A i \in 1..Len(edited) : edited[i].page_index \in Nat
  /\ Len(dirty) = Len(edited)
  /\ \A i \in 1..Len(dirty) : dirty[i].leaf = edited[i].leaf

Complete ==
  /\ EditedIndexes \cup SkippedIndexes = {request[i].page_index : i \in 1..Len(request)}
  /\ Len(edited) + Len(skipped) = Len(request)
  /\ \A i, j \in 1..Len(edited) : i < j => edited[i].page_index < edited[j].page_index
  /\ \A o \in Objects : tree[o] # before[o] => \E i \in 1..Len(edited) : edited[i].leaf = o

CallsInv ==
  /\ CallTypes
  /\ op # "idle" => tree = before /\ result = "none" /\ Apart(request) /\ Answers
  /\ op = "idle" /\ result # "ok" => tree = before
  /\ op = "idle" /\ result = "ok" => Complete

(***************************************************************************)
(* Sorting pages of different indexes: the list is reordered, with nothing *)
(* lost, into ascending order.  The number of smaller indexes is a place   *)
(* for each, and different places for different pages.                     *)
(***************************************************************************)
LEMMA SortedAscends ==
  ASSUME NEW S, NEW list \in Seq(S), Apart(list),
         \A i \in 1..Len(list) : list[i].page_index \in Nat
  PROVE  /\ Sorted(list) \in Seq(S) /\ Len(Sorted(list)) = Len(list)
         /\ \A k \in 1..Len(list) : \E j \in 1..Len(list) : Sorted(list)[k] = list[j]
         /\ \A j \in 1..Len(list) : \E k \in 1..Len(list) : Sorted(list)[k] = list[j]
         /\ \A i, j \in 1..Len(list) : i < j => Sorted(list)[i].page_index < Sorted(list)[j].page_index
<1> DEFINE n == Len(list)
           smaller(j) == {i \in 1..n : ByPageIndex(list, i, j)}
           rank(j) == Cardinality(smaller(j))
           place == [j \in 1..n |-> rank(j) + 1]
           pick(k) == CHOOSE j \in 1..n : rank(j) = k - 1
<1>1. n \in Nat /\ \A i \in 1..n : list[i] \in S /\ list[i].page_index \in Nat
  BY LenProperties, ElementOfSeq
<1>2. IsFiniteSet(1..n) /\ Cardinality(1..n) = n
  <2> HIDE DEF n
  <2>1. 1 \in Int /\ n \in Int
    BY <1>1
  <2>2. IsFiniteSet(1..n) /\ Cardinality(1..n) = IF 1 > n THEN 0 ELSE n - 1 + 1
    BY <2>1, FS_Interval, Zenon
  <2>3. QED
    BY <1>1, <2>2
<1>3. \A j \in 1..n : IsFiniteSet(smaller(j)) /\ rank(j) \in Nat
  <2>1. \A j \in 1..n : smaller(j) \in SUBSET (1..n)
    OBVIOUS
  <2> HIDE DEF smaller
  <2>2. \A j \in 1..n : IsFiniteSet(smaller(j))
    BY <1>2, <2>1, FS_Subset
  <2>3. QED
    BY <2>2, FS_CardinalityType
<1>4. ASSUME NEW i \in 1..n, NEW more \in SUBSET (1..n), smaller(i) \subseteq more, i \in more
      PROVE  rank(i) + 1 <= Cardinality(more)
  <2>1. i \notin smaller(i)
    BY <1>1 DEF ByPageIndex
  <2>2. IsFiniteSet(smaller(i)) /\ rank(i) \in Nat
    BY <1>3
  <2>3. IsFiniteSet(more)
    BY <1>2, FS_Subset
  <2> DEFINE below == smaller(i)
  <2> HIDE DEF smaller
  <2>4. Cardinality(below \cup {i}) = Cardinality(below) + 1
    BY <2>1, <2>2, FS_AddElement
  <2>5. below \cup {i} \in SUBSET more
    BY <1>4
  <2>6. Cardinality(below \cup {i}) <= Cardinality(more)
    BY <2>3, <2>5, FS_Subset
  <2>7. QED
    BY <2>4, <2>6
<1>5. ASSUME NEW i \in 1..n, NEW j \in 1..n, list[i].page_index < list[j].page_index
      PROVE  rank(i) < rank(j)
  <2>1. smaller(i) \subseteq smaller(j) /\ i \in smaller(j) /\ smaller(j) \in SUBSET (1..n)
    BY <1>1, <1>5 DEF ByPageIndex
  <2>2. rank(i) \in Nat /\ rank(j) \in Nat
    BY <1>3
  <2> HIDE DEF smaller
  <2>3. rank(i) + 1 <= rank(j)
    BY <1>4, <2>1
  <2> HIDE DEF rank
  <2>4. QED
    BY <2>2, <2>3
<1>6. \A j \in 1..n : rank(j) + 1 \in 1..n
  <2>1. TAKE j \in 1..n
  <2>2. smaller(j) \subseteq 1..n /\ rank(j) \in Nat
    BY <1>3
  <2> HIDE DEF smaller
  <2>3. rank(j) + 1 <= Cardinality(1..n)
    BY <1>4, <2>2
  <2> HIDE DEF rank
  <2>4. QED
    BY <1>1, <1>2, <2>2, <2>3
<1> HIDE DEF rank
<1>7. \A i, j \in 1..n : rank(i) = rank(j) => i = j
  <2>1. TAKE i, j \in 1..n
  <2>2. rank(i) \in Nat /\ rank(j) \in Nat
    BY <1>3
  <2>3. ASSUME rank(i) = rank(j)
        PROVE  list[i].page_index = list[j].page_index
    BY <1>1, <1>5, <2>2, <2>3
  <2>4. QED
    BY <2>3 DEF Apart
<1>8. place \in Injection(1..n, 1..n)
  <2>1. place \in [1..n -> 1..n]
    BY <1>6
  <2>2. \A i, j \in 1..n : place[i] = place[j] => i = j
    <3>1. \A i \in 1..n : rank(i) \in Nat
      BY <1>3
    <3>2. QED
      BY <1>7, <3>1
  <2> HIDE DEF place
  <2>3. QED
    BY <2>1, <2>2 DEF Injection, IsInjective
<1>9. \A k \in 1..n : \E j \in 1..n : rank(j) = k - 1
  <2>1. place \in Surjection(1..n, 1..n)
    <3> HIDE DEF place
    <3>1. QED
      BY <1>2, <1>8, FS_Injection
  <2>2. \A k \in 1..n : \E j \in 1..n : place[j] = k
    <3> HIDE DEF place
    <3>1. QED
      BY <2>1 DEF Surjection
  <2>3. \A i \in 1..n : rank(i) \in Nat
    BY <1>3
  <2>4. \A j \in 1..n : place[j] = rank(j) + 1
    OBVIOUS
  <2>5. ASSUME NEW k \in 1..n
        PROVE  \E j \in 1..n : rank(j) = k - 1
    <3>1. PICK j \in 1..n : place[j] = k
      BY <2>2
    <3>2. rank(j) + 1 = k /\ rank(j) \in Nat
      BY <2>3, <2>4, <3>1
    <3>3. QED
      BY <1>1, <3>2
  <2>6. QED
    BY <2>5
<1>10. \A k \in 1..n : pick(k) \in 1..n /\ rank(pick(k)) = k - 1
  BY <1>9
<1>11. Sorted(list) = [k \in 1..n |-> list[pick(k)]]
  BY DEF Sorted, rank
<1> HIDE DEF pick
<1>12. Sorted(list) \in Seq(S) /\ Len(Sorted(list)) = n
  BY <1>1, <1>10, <1>11
<1>13. \A k \in 1..n : Sorted(list)[k] = list[pick(k)]
  BY <1>11
<1>14. \A j \in 1..n : \E k \in 1..n : Sorted(list)[k] = list[j]
  <2>1. TAKE j \in 1..n
  <2>2. rank(j) + 1 \in 1..n /\ rank(j) \in Nat
    BY <1>3, <1>6
  <2>3. rank(pick(rank(j) + 1)) = rank(j) /\ pick(rank(j) + 1) \in 1..n
    BY <1>10, <2>2
  <2>4. pick(rank(j) + 1) = j
    BY <1>7, <2>3
  <2>5. QED
    BY <1>13, <2>2, <2>4
<1>15. \A i, j \in 1..n : i < j => Sorted(list)[i].page_index < Sorted(list)[j].page_index
  <2>1. SUFFICES ASSUME NEW i \in 1..n, NEW j \in 1..n, i < j
                 PROVE  list[pick(i)].page_index < list[pick(j)].page_index
    BY <1>13
  <2>2. /\ pick(i) \in 1..n /\ pick(j) \in 1..n
        /\ rank(pick(i)) = i - 1 /\ rank(pick(j)) = j - 1
    BY <1>10
  <2>3. rank(pick(i)) < rank(pick(j)) /\ ~ (rank(pick(j)) < rank(pick(i)))
    BY <1>1, <2>1, <2>2
  <2>4. ~ (list[pick(j)].page_index < list[pick(i)].page_index)
    BY <1>5, <2>2, <2>3
  <2>5. list[pick(j)].page_index # list[pick(i)].page_index
    BY <2>2, <2>3 DEF Apart
  <2>6. QED
    BY <1>1, <2>2, <2>4, <2>5
<1>16. QED
  BY <1>10, <1>12, <1>13, <1>14, <1>15

(* One element more.                                                        *)
LEMMA OneMore ==
  ASSUME NEW S, NEW list \in Seq(S), NEW e, NEW longer, longer = Append(list, e)
  PROVE  /\ longer \in Seq(S \cup {e}) /\ Len(list) \in Nat /\ Len(longer) = Len(list) + 1
         /\ longer[Len(list) + 1] = e /\ \A i \in 1..Len(list) : longer[i] = list[i]
<1> DEFINE T == S \cup {e}
<1>1. list \in [1..Len(list) -> S] /\ Len(list) \in Nat
  BY LenProperties
<1>2. S \subseteq T /\ e \in T
  OBVIOUS
<1> HIDE DEF T
<1>3. list \in [1..Len(list) -> T]
  BY <1>1, <1>2
<1>4. list \in Seq(T)
  BY <1>1, <1>3
<1>5. QED
  BY <1>2, <1>4, LenProperties, AppendProperties DEF T

LEMMA IndexesGrow ==
  ASSUME NEW list, NEW longer, NEW n \in Nat, \A i \in 1..n : longer[i] = list[i]
  PROVE  {longer[i].page_index : i \in 1..(n + 1)}
           = {list[i].page_index : i \in 1..n} \cup {longer[n + 1].page_index}
<1>1. n + 1 \in 1..(n + 1) /\ (\A i \in 1..(n + 1) : i \in 1..n \/ i = n + 1)
      /\ (\A i \in 1..n : i \in 1..(n + 1))
  OBVIOUS
<1>2. \A x : x \in {longer[i].page_index : i \in 1..(n + 1)}
                => x \in {list[i].page_index : i \in 1..n} \/ x = longer[n + 1].page_index
  BY <1>1
<1>3. \A x : x \in {list[i].page_index : i \in 1..n} => x \in {longer[i].page_index : i \in 1..(n + 1)}
  BY <1>1
<1>4. longer[n + 1].page_index \in {longer[i].page_index : i \in 1..(n + 1)}
  BY <1>1
<1>5. QED
  BY <1>2, <1>3, <1>4, Zenon

(* The edit that is planned next is answered by one page more.              *)
LEMMA SkipAnswersOneMore ==
  ASSUME CallTypes, Answers, NEW edit, Planning(edit), NEW reason, Skip(edit, reason)
  PROVE  CallTypes' /\ Answers'
<1> DEFINE entry == [page_index |-> edit.page_index, reason |-> reason]
           n == Len(skipped)
<1>1. PICK S : skipped \in Seq(S)
  BY DEF CallTypes
<1>2. skipped' = Append(skipped, entry) /\ UNCHANGED <<request, edited, dirty>>
  BY DEF Skip
<1>3. entry.page_index = edit.page_index
  OBVIOUS
<1> HIDE DEF entry
<1>4. /\ skipped' \in Seq(S \cup {entry}) /\ n \in Nat /\ Len(skipped') = n + 1
      /\ skipped'[n + 1] = entry /\ \A i \in 1..n : skipped'[i] = skipped[i]
  BY <1>1, <1>2, OneMore
<1>5. CallTypes'
  BY <1>2, <1>4 DEF CallTypes
<1>6. Len(edited) \in Nat /\ Len(request) \in Nat
  BY LenProperties DEF CallTypes
<1>7. /\ Planned < Len(request) /\ edit = request[Planned + 1] /\ Planned \in Nat
      /\ Planned' = Planned + 1
  BY <1>2, <1>4, <1>6 DEF Planning, Planned
<1>8. SkippedIndexes' = SkippedIndexes \cup {edit.page_index}
  <2>1. {skipped'[i].page_index : i \in 1..(n + 1)} = {skipped[i].page_index : i \in 1..n} \cup {edit.page_index}
    BY <1>3, <1>4, IndexesGrow
  <2>2. QED
    BY <1>4, <2>1 DEF SkippedIndexes
<1>9. {request[i].page_index : i \in 1..(Planned + 1)}
        = {request[i].page_index : i \in 1..Planned} \cup {edit.page_index}
  BY <1>7, IndexesGrow
<1>10. EditedIndexes' = EditedIndexes
  BY <1>2 DEF EditedIndexes
<1>11. EditedIndexes' \cup SkippedIndexes' = {request'[i].page_index : i \in 1..Planned'}
  <2>1. EditedIndexes \cup SkippedIndexes = {request[i].page_index : i \in 1..Planned}
    BY DEF Answers
  <2>2. {request'[i].page_index : i \in 1..Planned'} = {request[i].page_index : i \in 1..(Planned + 1)}
    BY <1>2, <1>7
  <2>3. QED
    BY <1>8, <1>9, <1>10, <2>1, <2>2, Zenon
<1>12. Planned' <= Len(request')
  BY <1>2, <1>6, <1>7
<1>13. Apart(edited) /\ Apart(edited)'
  BY <1>2 DEF Answers, Apart
<1>14. QED
  BY <1>2, <1>5, <1>11, <1>12, <1>13 DEF Answers

LEMMA EditAnswersOneMore ==
  ASSUME CallTypes, Answers, Apart(request), PlanEdit
  PROVE  CallTypes' /\ Answers'
<1>1. PICK m, page, media, crop, body :
        /\ m \in 1..Len(request) /\ Planning(request[m])
        /\ edited' = Append(edited, [page_index |-> request[m].page_index, leaf |-> page.leaf,
                                     media |-> media, crop |-> crop])
        /\ dirty' = Append(dirty, [leaf |-> page.leaf, body |-> body])
        /\ UNCHANGED <<request, skipped>>
  BY Zenon DEF PlanEdit
<1> DEFINE edit == request[m]
           entry == [page_index |-> edit.page_index, leaf |-> page.leaf, media |-> media, crop |-> crop]
           rewritten == [leaf |-> page.leaf, body |-> body]
           n == Len(edited)
<1>2. PICK S : edited \in Seq(S)
  BY DEF CallTypes
<1>3. PICK T : dirty \in Seq(T)
  BY DEF CallTypes
<1>4. /\ edited' = Append(edited, entry) /\ dirty' = Append(dirty, rewritten)
      /\ UNCHANGED <<request, skipped>> /\ Planning(edit)
  BY <1>1
<1>5. entry.page_index = edit.page_index /\ entry.leaf = rewritten.leaf
  OBVIOUS
<1> HIDE DEF entry, rewritten, edit
<1>6. /\ edited' \in Seq(S \cup {entry}) /\ n \in Nat /\ Len(edited') = n + 1
      /\ edited'[n + 1] = entry /\ \A i \in 1..n : edited'[i] = edited[i]
  BY <1>2, <1>4, OneMore
<1>7. /\ dirty' \in Seq(T \cup {rewritten}) /\ Len(dirty') = Len(dirty) + 1
      /\ dirty'[Len(dirty) + 1] = rewritten /\ \A i \in 1..Len(dirty) : dirty'[i] = dirty[i]
  BY <1>3, <1>4, OneMore
<1>8. CallTypes'
  BY <1>4, <1>6, <1>7 DEF CallTypes
<1>9. Len(skipped) \in Nat /\ Len(request) \in Nat
  BY LenProperties DEF CallTypes
<1>10. /\ Planned < Len(request) /\ edit = request[Planned + 1] /\ Planned \in Nat
       /\ Planned' = Planned + 1
  BY <1>4, <1>6, <1>9 DEF Planning, Planned
<1>11. EditedIndexes' = EditedIndexes \cup {edit.page_index}
  <2>1. {edited'[i].page_index : i \in 1..(n + 1)} = {edited[i].page_index : i \in 1..n} \cup {edit.page_index}
    BY <1>5, <1>6, IndexesGrow
  <2>2. QED
    BY <1>6, <2>1 DEF EditedIndexes
<1>12. {request[i].page_index : i \in 1..(Planned + 1)}
        = {request[i].page_index : i \in 1..Planned} \cup {edit.page_index}
  BY <1>10, IndexesGrow
<1>13. SkippedIndexes' = SkippedIndexes
  BY <1>4 DEF SkippedIndexes
<1>14. EditedIndexes \cup SkippedIndexes = {request[i].page_index : i \in 1..Planned}
  BY DEF Answers
<1>15. EditedIndexes' \cup SkippedIndexes' = {request'[i].page_index : i \in 1..Planned'}
  <2>1. {request'[i].page_index : i \in 1..Planned'} = {request[i].page_index : i \in 1..(Planned + 1)}
    BY <1>4, <1>10
  <2>2. QED
    BY <1>11, <1>12, <1>13, <1>14, <2>1, Zenon
<1>16. Planned' <= Len(request')
  BY <1>4, <1>9, <1>10
<1>17. \A i \in 1..n : edited[i].page_index # edit.page_index
  <2>1. SUFFICES ASSUME NEW i \in 1..n, edited[i].page_index = edit.page_index
                 PROVE  FALSE
    OBVIOUS
  <2>2. edit.page_index \in EditedIndexes
    BY <2>1 DEF EditedIndexes
  <2>3. PICK k \in 1..Planned : edit.page_index = request[k].page_index
    BY <1>14, <2>2
  <2>4. k \in 1..Len(request) /\ Planned + 1 \in 1..Len(request) /\ k # Planned + 1
    BY <1>9, <1>10
  <2>5. QED
    BY <1>10, <2>3, <2>4 DEF Apart
<1>18. \A i \in 1..(n + 1) : i \in 1..n \/ i = n + 1
  BY <1>6
<1>19. Apart(edited) /\ \A i \in 1..n : edited[i].page_index \in Nat
  BY DEF Answers
<1>20. Apart(edited)'
  <2>1. \A i, j \in 1..(n + 1) : edited'[i].page_index = edited'[j].page_index => i = j
    BY <1>5, <1>6, <1>17, <1>18, <1>19 DEF Apart
  <2>2. QED
    BY <1>6, <2>1 DEF Apart
<1>21. \A i \in 1..Len(edited') : edited'[i].page_index \in Nat
  <2>1. edit.page_index \in Nat
    BY <1>1 DEF CallTypes, edit
  <2>2. QED
    BY <1>5, <1>6, <1>18, <1>19, <2>1
<1>22. Len(dirty') = Len(edited') /\ \A i \in 1..Len(dirty') : dirty'[i].leaf = edited'[i].leaf
  <2>1. Len(dirty) = n /\ \A i \in 1..n : dirty[i].leaf = edited[i].leaf
    BY DEF Answers
  <2>2. QED
    BY <1>5, <1>6, <1>7, <1>18, <2>1
<1>23. QED
  BY <1>8, <1>15, <1>16, <1>20, <1>21, <1>22 DEF Answers

(* The report a call returns, and what it has written.                      *)
LEMMA WriteCompletes ==
  ASSUME CallTypes, Answers, tree = before, Write
  PROVE  CallTypes' /\ Complete'
<1>1. /\ Planned = Len(request) /\ tree' = [object \in Objects |-> Revised(object)]
      /\ edited' = Sorted(edited) /\ UNCHANGED <<request, skipped, dirty, before>>
  BY DEF Write
<1>2. PICK S : edited \in Seq(S)
  BY DEF CallTypes
<1>3. Apart(edited) /\ (\A i \in 1..Len(edited) : edited[i].page_index \in Nat)
      /\ Len(dirty) = Len(edited) /\ (\A i \in 1..Len(dirty) : dirty[i].leaf = edited[i].leaf)
      /\ EditedIndexes \cup SkippedIndexes = {request[i].page_index : i \in 1..Planned}
  BY DEF Answers
<1>4. /\ edited' \in Seq(S) /\ Len(edited') = Len(edited)
      /\ \A k \in 1..Len(edited) : \E j \in 1..Len(edited) : edited'[k] = edited[j]
      /\ \A j \in 1..Len(edited) : \E k \in 1..Len(edited) : edited'[k] = edited[j]
      /\ \A i, j \in 1..Len(edited) : i < j => edited'[i].page_index < edited'[j].page_index
  BY <1>1, <1>2, <1>3, SortedAscends
<1>5. CallTypes'
  BY <1>1, <1>4 DEF CallTypes
<1>6. EditedIndexes' = EditedIndexes
  <2>1. \A x : x \in EditedIndexes' <=> \E k \in 1..Len(edited) : x = edited'[k].page_index
    BY <1>4 DEF EditedIndexes
  <2>2. \A x : x \in EditedIndexes <=> \E k \in 1..Len(edited) : x = edited[k].page_index
    BY DEF EditedIndexes
  <2>3. ASSUME NEW x, x \in EditedIndexes'
        PROVE  x \in EditedIndexes
    <3>1. PICK k \in 1..Len(edited) : x = edited'[k].page_index
      BY <2>1, <2>3
    <3>2. PICK j \in 1..Len(edited) : edited'[k] = edited[j]
      BY <1>4
    <3>3. x = edited[j].page_index
      BY <3>1, <3>2
    <3>4. QED
      BY <2>2, <3>3
  <2>4. ASSUME NEW x, x \in EditedIndexes
        PROVE  x \in EditedIndexes'
    <3>1. PICK j \in 1..Len(edited) : x = edited[j].page_index
      BY <2>2, <2>4
    <3>2. PICK k \in 1..Len(edited) : edited'[k] = edited[j]
      BY <1>4
    <3>3. x = edited'[k].page_index
      BY <3>1, <3>2
    <3>4. QED
      BY <2>1, <3>3
  <2>5. QED
    BY <2>3, <2>4, Zenon
<1>7. SkippedIndexes' = SkippedIndexes /\ request' = request
  BY <1>1 DEF SkippedIndexes
<1>8. ASSUME NEW o \in Objects, tree'[o] # before'[o]
      PROVE  \E i \in 1..Len(edited') : edited'[i].leaf = o
  <2>1. Revised(o) # tree[o]
    BY <1>1, <1>8
  <2>2. {i \in 1..Len(dirty) : dirty[i].leaf = o} # {}
    BY <2>1 DEF Revised
  <2>3. PICK i \in 1..Len(dirty) : dirty[i].leaf = o
    BY <2>2
  <2>4. i \in 1..Len(edited) /\ edited[i].leaf = o
    BY <1>3, <2>3
  <2>5. QED
    BY <1>4, <2>4
<1>9. Len(edited') + Len(skipped') = Len(request')
  BY <1>1, <1>4 DEF Planned
<1>10. EditedIndexes' \cup SkippedIndexes' = {request'[i].page_index : i \in 1..Len(request')}
  BY <1>1, <1>3, <1>6, <1>7
<1>11. QED
  BY <1>4, <1>5, <1>8, <1>9, <1>10 DEF Complete

LEMMA CallStarts ==
  ASSUME CallsInv, Call
  PROVE  CallsInv'
<1>1. PICK edits \in Requests :
        /\ request' = edits /\ before' = tree /\ tree' = tree
        /\ edited' = <<>> /\ skipped' = <<>> /\ dirty' = <<>>
        /\ IF Erroneous(edits) = {}
           THEN op' = "inspect" /\ result' = "none"
           ELSE op' = "idle" /\ result' = EditError(edits, Min(Erroneous(edits)))
  BY DEF Call
<1>2. edits \in Seq(PageBoxEdit) /\ Len(edits) \in Nat
      /\ \A i \in 1..Len(edits) : edits[i].page_index \in Nat
  <2>1. edits \in Seq(PageBoxEdit)
    BY RequestsAreEdits
  <2>2. \A i \in 1..Len(edits) : edits[i] \in PageBoxEdit
    BY <2>1, ElementOfSeq
  <2>3. QED
    BY <2>1, <2>2, LenProperties DEF PageBoxEdit
<1>3. <<>> \in Seq({})
  OBVIOUS
<1>4. CallTypes'
  BY <1>1, <1>2, <1>3 DEF CallTypes
<1>5. CASE Erroneous(edits) = {}
  <2>1. \A i \in 1..Len(edits) : \A j \in 1..(i - 1) : edits[j].page_index # edits[i].page_index
    <3>1. \A i \in 1..Len(edits) : EditError(edits, i) = Absent
      BY <1>5 DEF Erroneous
    <3>2. Absent # "DuplicatePageIndex"
      BY AbsentIsNoError DEF CallErrors
    <3>3. QED
      BY <3>1, <3>2 DEF EditError
  <2>2. \A i, j \in 1..Len(edits) : edits[j].page_index = edits[i].page_index => i = j
    <3>1. \A i, j \in 1..Len(edits) : i = j \/ j \in 1..(i - 1) \/ i \in 1..(j - 1)
      BY <1>2
    <3>2. QED
      BY <2>1, <3>1
  <2>3. Apart(request)'
    BY <1>1, <2>2 DEF Apart
  <2>4. /\ EditedIndexes' = {} /\ SkippedIndexes' = {} /\ Planned' = 0
        /\ {request'[i].page_index : i \in 1..Planned'} = {}
    BY <1>1 DEF EditedIndexes, SkippedIndexes, Planned
  <2>5. Answers'
    BY <1>1, <1>2, <2>4 DEF Answers, Apart
  <2>6. QED
    BY <1>1, <1>4, <1>5, <2>3, <2>5 DEF CallsInv
<1>6. CASE Erroneous(edits) # {}
  <2>1. Erroneous(edits) \in SUBSET Nat
    BY DEF Erroneous
  <2>2. \E i \in Erroneous(edits) : \A j \in Erroneous(edits) : i <= j
    BY <1>6, <2>1, LeastElement
  <2>3. Min(Erroneous(edits)) \in Erroneous(edits)
    BY <2>2 DEF Min
  <2>4. EditError(edits, Min(Erroneous(edits))) \in {"DuplicatePageIndex", "NoBoxesRequested"}
    BY <2>3 DEF Erroneous, EditError
  <2>5. QED
    BY <1>1, <1>4, <1>6, <2>4 DEF CallsInv
<1>7. QED
  BY <1>5, <1>6

(* From the first call on, whatever the callers ask for.                    *)
LEMMA CallsInvariant == SetSpec => []CallsInv
<1>1. SetInit => CallsInv
  <2>1. <<>> \in Seq({}) /\ 1..Len(<<>>) = {}
    OBVIOUS
  <2>2. QED
    BY <2>1 DEF SetInit, CallsInv, CallTypes
<1>2. ASSUME CallsInv, [SetNext]_setVars
      PROVE  CallsInv'
  <2>1. ASSUME UNCHANGED <<request, edited, skipped, dirty>>
        PROVE  /\ CallTypes' /\ (Answers => Answers') /\ (Apart(request) => Apart(request)')
               /\ (UNCHANGED <<tree, before>> /\ Complete => Complete')
    <3>1. CallTypes'
      BY <1>2, <2>1 DEF CallsInv, CallTypes
    <3>2. EditedIndexes' = EditedIndexes /\ SkippedIndexes' = SkippedIndexes /\ Planned' = Planned
      BY <2>1 DEF EditedIndexes, SkippedIndexes, Planned
    <3>3. Apart(request) => Apart(request)'
      BY <2>1 DEF Apart
    <3>4. Apart(edited) => Apart(edited)'
      BY <2>1 DEF Apart
    <3>5. Answers => Answers'
      BY <2>1, <3>2, <3>4 DEF Answers
    <3>6. UNCHANGED <<tree, before>> /\ Complete => Complete'
      BY <2>1, <3>2 DEF Complete
    <3>7. QED
      BY <3>1, <3>3, <3>5, <3>6
  <2>2. CASE Call
    BY <1>2, <2>2, CallStarts
  <2>3. ASSUME op # "idle", op' = "idle", NEW reason, reason # "ok", Fail(reason)
        PROVE  CallsInv'
    BY <1>2, <2>1, <2>3 DEF CallsInv, Fail, vars
  <2>4. ASSUME op # "idle", op' # "idle", UNCHANGED <<request, edited, skipped, dirty, result, before, tree>>
        PROVE  CallsInv'
    BY <1>2, <2>1, <2>4 DEF CallsInv
  <2>5. CASE Inspect
    <3>1. tree' = tree
      BY <2>5 DEF Inspect, EnumerateLeaves, InspectBoxes, LeafStep, StartLeaves, EmitLeaf, SkipKid,
           StopDescent, Descend, ReturnFromNode, BoxStep, StartBoxes, DescendBoxes, ProcessPagesNode,
           PassOverKid, ReportLeaf, RefuseLeaf, ReturnFromTargets, FinishBoxes
    <3>2. QED
      BY <2>4, <2>5, <3>1 DEF Inspect, callVars
  <2>6. CASE StartPlanning
    BY <2>4, <2>6 DEF StartPlanning, vars
  <2>7. CASE FailInspection \/ RefuseWrite
    BY <2>3, <2>7 DEF FailInspection, RefuseWrite, Fail
  <2>8. CASE FailPlan
    <3>1. PICK edit : op = "plan" /\ PlanError(edit) # Absent /\ Fail(PlanError(edit))
      BY <2>8 DEF FailPlan, Planning
    <3>2. PlanError(edit) # "ok"
      BY <3>1 DEF PlanError, BoxError
    <3>3. QED
      BY <2>3, <3>1, <3>2 DEF Fail
  <2>9. CASE SkipUnreported \/ SkipUnowned
    <3>1. PICK edit, reason : Planning(edit) /\ Skip(edit, reason)
      BY <2>9, Zenon DEF SkipUnreported, SkipUnowned
    <3>2. CallTypes' /\ Answers'
      BY <1>2, <3>1, SkipAnswersOneMore DEF CallsInv, Planning
    <3>3. op' = op /\ op = "plan" /\ UNCHANGED <<request, result, before, tree>>
      BY <3>1 DEF Planning, Skip, vars
    <3>4. Apart(request) => Apart(request)'
      BY <3>3 DEF Apart
    <3>5. QED
      BY <1>2, <3>2, <3>3, <3>4 DEF CallsInv
  <2>10. CASE PlanEdit
    <3>1. op' = op /\ op = "plan" /\ UNCHANGED <<request, result, before, tree>>
      BY <2>10 DEF PlanEdit, Planning, vars
    <3>2. CallTypes' /\ Answers'
      BY <1>2, <2>10, <3>1, EditAnswersOneMore DEF CallsInv
    <3>3. Apart(request) => Apart(request)'
      BY <3>1 DEF Apart
    <3>4. QED
      BY <1>2, <3>1, <3>2, <3>3 DEF CallsInv
  <2>11. CASE Write
    <3>1. op = "plan" /\ op' = "idle" /\ result' = "ok"
      BY <2>11 DEF Write
    <3>2. CallTypes' /\ Complete'
      BY <1>2, <2>11, <3>1, WriteCompletes DEF CallsInv
    <3>3. QED
      BY <3>1, <3>2 DEF CallsInv
  <2>12. CASE UNCHANGED setVars
    <3>1. UNCHANGED <<op, request, edited, skipped, dirty, result, before, tree>>
      BY <2>12 DEF setVars, callVars, vars
    <3>2. QED
      BY <1>2, <2>1, <3>1 DEF CallsInv
  <2>13. QED
    BY <1>2, <2>2, <2>5, <2>6, <2>7, <2>8, <2>9, <2>10, <2>11, <2>12 DEF SetNext, Progress
<1>3. QED
  BY <1>1, <1>2, PTL DEF SetSpec

(***************************************************************************)
(* For every caller of set_page_boxes_incremental, document and request:   *)
(* a successful call answers every edit exactly once, in document order,   *)
(* and has changed edited leaves only; a call that fails, at whichever     *)
(* edit, has written nothing.                                              *)
(***************************************************************************)
THEOREM CallsAlwaysAtomic == SetSpec => []CallsAreAtomic
<1>1. CallsInv => CallsAreAtomic
  BY DEF CallsInv, Complete, CallsAreAtomic
<1>2. QED
  BY <1>1, CallsInvariant, PTL

-----------------------------------------------------------------------------
(***************************************************************************)
(* What one edit does to a dictionary.                                     *)
(***************************************************************************)
Rests(dict) == {i \in 1..Len(dict) : dict[i] = Rest}

(* Of the boxes one is now stated, the others and all else are as before.   *)
Restated(dict, new, kind, rect) ==
  /\ new \in Seq(Token) /\ Readable(new)
  /\ Cardinality(Rests(new)) = Cardinality(Rests(dict))
  /\ OwnBox(new, kind) = rect
  /\ \A other \in BoxKinds \ {kind} : OwnBox(new, other) = OwnBox(dict, other)

LEMMA ReplacingRestates ==
  ASSUME NEW dict \in Seq(Token), Readable(dict), NEW kind \in BoxKinds, NEW rect \in Rects,
         NEW k \in KeyIndexes(dict, kind), \A i \in KeyIndexes(dict, kind) : i = k,
         NEW new \in Seq(Token), Len(new) = Len(dict),
         new[k + 1] = Value(rect), \A i \in 1..Len(dict) : i # k + 1 => new[i] = dict[i]
  PROVE  /\ Restated(dict, new, kind, rect)
         /\ \A other \in BoxKinds : KeyIndexes(new, other) = KeyIndexes(dict, other)
<1> DEFINE n == Len(dict)
<1>1. n \in Nat /\ \A i \in 1..n : dict[i] \in Token
  BY LenProperties, ElementOfSeq
<1>2. k \in 1..n /\ dict[k] = Key(kind)
  BY DEF KeyIndexes
<1>3. k + 1 \in 1..n /\ dict[k + 1].tag = "value"
  BY <1>1, <1>2, TokenTags DEF Readable
<1>4. Len(new) = n /\ new[k + 1] = Value(rect) /\ \A i \in 1..n : i # k + 1 => new[i] = dict[i]
  OBVIOUS
<1>6. \A i \in 1..n : new[i].tag = dict[i].tag
  BY <1>3, <1>4, TokenTags
<1>7. Readable(new)
  BY <1>1, <1>4, <1>6 DEF Readable
<1>8. \A i \in 1..n : (new[i] = Rest <=> dict[i] = Rest)
                      /\ \A other \in BoxKinds : new[i] = Key(other) <=> dict[i] = Key(other)
  BY <1>3, <1>4, TokenTags
<1>9. Rests(new) = Rests(dict)
  BY <1>4, <1>8 DEF Rests
<1>10. \A other \in BoxKinds : KeyIndexes(new, other) = KeyIndexes(dict, other)
  BY <1>4, <1>8 DEF KeyIndexes
<1>11. OwnBox(new, kind) = rect
  <2>1. KeyIndexes(new, kind) = KeyIndexes(dict, kind)
    BY <1>10
  <2>2. OwnBox(new, kind) = new[k + 1].box
    BY <2>1, OwnBoxOfOne
  <2>3. QED
    BY <1>4, <2>2, TokenTags
<1>12. ASSUME NEW other \in BoxKinds \ {kind}
       PROVE  OwnBox(new, other) = OwnBox(dict, other)
  <2>1. k \notin KeyIndexes(dict, other)
    BY <1>2, TokenTags DEF KeyIndexes
  <2>2. KeyIndexes(new, other) = KeyIndexes(dict, other)
    BY <1>10
  <2>3. CASE KeyIndexes(dict, other) = {} \/ \E i, j \in KeyIndexes(dict, other) : i # j
    BY <2>2, <2>3 DEF OwnBox
  <2>4. CASE KeyIndexes(dict, other) # {} /\ ~ \E i, j \in KeyIndexes(dict, other) : i # j
    <3>1. PICK i \in KeyIndexes(dict, other) : \A j \in KeyIndexes(dict, other) : j = i
      BY <2>4
    <3>2. i \in 1..n /\ i # k /\ dict[i] = Key(other)
      BY <2>1, <3>1 DEF KeyIndexes
    <3>3. i + 1 \in 1..n /\ i + 1 # k + 1
      BY <1>1, <1>2, <3>2, TokenTags DEF Readable
    <3>4. new[i + 1] = dict[i + 1]
      BY <1>4, <3>3
    <3>5. OwnBox(new, other) = new[i + 1].box /\ OwnBox(dict, other) = dict[i + 1].box
      BY <2>2, <3>1, OwnBoxOfOne
    <3>6. QED
      BY <3>4, <3>5
  <2>5. QED
    BY <2>3, <2>4
<1>13. QED
  BY <1>4, <1>7, <1>9, <1>10, <1>11, <1>12 DEF Restated

(* In front of everything, where no box of the kind is stated yet.          *)
LEMMA InsertingRestates ==
  ASSUME NEW dict \in Seq(Token), Readable(dict), NEW kind \in BoxKinds, NEW rect \in Rects,
         KeyIndexes(dict, kind) = {}, NEW new, new \in Seq(Token), Len(new) = Len(dict) + 3,
         new[1] = Gap, new[2] = Key(kind), new[3] = Value(rect),
         \A i \in 1..Len(dict) : new[i + 3] = dict[i]
  PROVE  /\ Restated(dict, new, kind, rect)
         /\ \A other \in BoxKinds \ {kind} :
              KeyIndexes(dict, other) = {} => KeyIndexes(new, other) = {}
<1> DEFINE n == Len(dict)
<1>1. n \in Nat /\ \A i \in 1..n : dict[i] \in Token
  BY LenProperties, ElementOfSeq
<1>2. Len(new) = n + 3 /\ \A j \in 1..(n + 3) : j \in {1, 2, 3} \/ (j - 3 \in 1..n /\ new[j] = dict[j - 3])
  <2>1. \A j \in 1..(n + 3) : j \in {1, 2, 3} \/ (j - 3 \in 1..n /\ j = (j - 3) + 3)
    BY <1>1
  <2>2. QED
    BY <1>1, <2>1
<1>3. \A i \in 1..n : i + 3 \in 1..(n + 3) /\ new[i + 3] = dict[i]
  BY <1>1
<1>4. 1 \in 1..(n + 3) /\ 2 \in 1..(n + 3) /\ 3 \in 1..(n + 3)
  BY <1>1
<1>5. /\ new[1].tag = "gap" /\ new[2].tag = "key" /\ new[3].tag = "value"
  BY TokenTags
<1>6. Readable(new)
  <2>1. ASSUME NEW j \in 1..(n + 3), new[j].tag = "key"
        PROVE  j < n + 3 /\ new[j + 1].tag = "value"
    <3>1. CASE j \in {1, 2, 3}
      BY <1>1, <1>5, <2>1, <3>1
    <3>2. CASE j - 3 \in 1..n /\ new[j] = dict[j - 3]
      <4>1. j - 3 < n /\ dict[(j - 3) + 1].tag = "value"
        BY <2>1, <3>2 DEF Readable
      <4>2. (j - 3) + 1 \in 1..n /\ ((j - 3) + 1) + 3 = j + 1
        BY <1>1, <3>2, <4>1
      <4>3. new[j + 1] = dict[(j - 3) + 1]
        BY <1>3, <4>2
      <4>4. QED
        BY <1>1, <3>2, <4>1, <4>3
    <3>3. QED
      BY <1>2, <3>1, <3>2
  <2>2. ASSUME NEW j \in 1..(n + 3), new[j].tag = "value"
        PROVE  j > 1 /\ new[j - 1].tag = "key"
    <3>1. CASE j \in {1, 2, 3}
      BY <1>1, <1>5, <2>2, <3>1
    <3>2. CASE j - 3 \in 1..n /\ new[j] = dict[j - 3]
      <4>1. j - 3 > 1 /\ dict[(j - 3) - 1].tag = "key"
        BY <2>2, <3>2 DEF Readable
      <4>2. (j - 3) - 1 \in 1..n /\ ((j - 3) - 1) + 3 = j - 1
        BY <1>1, <3>2, <4>1
      <4>3. new[j - 1] = dict[(j - 3) - 1]
        BY <1>3, <4>2
      <4>4. QED
        BY <1>1, <3>2, <4>1, <4>3
    <3>3. QED
      BY <1>2, <3>1, <3>2
  <2>3. QED
    BY <1>2, <2>1, <2>2 DEF Readable
<1>7. ASSUME NEW other \in BoxKinds
      PROVE  KeyIndexes(new, other)
               = {i + 3 : i \in KeyIndexes(dict, other)} \cup (IF other = kind THEN {2} ELSE {})
  <2>1. new[1] # Key(other) /\ new[3] # Key(other) /\ (new[2] = Key(other) <=> other = kind)
    BY <1>5, TokenTags
  <2>2. ASSUME NEW j \in KeyIndexes(new, other)
        PROVE  (j = 2 /\ other = kind) \/ \E i \in KeyIndexes(dict, other) : j = i + 3
    <3>1. j \in 1..(n + 3) /\ new[j] = Key(other)
      BY <1>2 DEF KeyIndexes
    <3>2. CASE j \in {1, 2, 3}
      BY <2>1, <3>1, <3>2
    <3>3. CASE j - 3 \in 1..n /\ new[j] = dict[j - 3]
      <4>1. j - 3 \in KeyIndexes(dict, other)
        BY <3>1, <3>3 DEF KeyIndexes
      <4>2. j = (j - 3) + 3
        BY <1>1, <3>1
      <4>3. QED
        BY <4>1, <4>2
    <3>4. QED
      BY <1>2, <3>1, <3>2, <3>3
  <2>3. ASSUME NEW i \in KeyIndexes(dict, other)
        PROVE  i + 3 \in KeyIndexes(new, other)
    BY <1>2, <1>3 DEF KeyIndexes
  <2>4. other = kind => 2 \in KeyIndexes(new, other)
    BY <1>2, <1>4 DEF KeyIndexes
  <2>5. CASE other = kind
    BY <2>2, <2>3, <2>4, <2>5, Zenon
  <2>6. CASE other # kind
    BY <2>2, <2>3, <2>6, Zenon
  <2>7. QED
    BY <2>5, <2>6
<1>8. OwnBox(new, kind) = rect
  <2>1. KeyIndexes(new, kind) = {2}
    BY <1>7
  <2>2. PICK two \in Nat : two = 2
    OBVIOUS
  <2>3. two \in KeyIndexes(new, kind) /\ (\A i \in KeyIndexes(new, kind) : i = two) /\ two + 1 = 3
    BY <2>1, <2>2
  <2>4. OwnBox(new, kind) = new[two + 1].box
    BY <2>3, OwnBoxOfOne
  <2>5. QED
    BY <2>3, <2>4, TokenTags
<1>9. ASSUME NEW other \in BoxKinds \ {kind}
      PROVE  /\ OwnBox(new, other) = OwnBox(dict, other)
             /\ KeyIndexes(dict, other) = {} => KeyIndexes(new, other) = {}
  <2> DEFINE old == KeyIndexes(dict, other)
             keys == KeyIndexes(new, other)
  <2>1. keys = {i + 3 : i \in old} /\ \A i \in old : i \in Nat
    BY <1>1, <1>7 DEF KeyIndexes
  <2>2. CASE old = {}
    BY <2>1, <2>2 DEF OwnBox
  <2>3. CASE \E i, j \in old : i # j
    <3>1. PICK i \in old : \E j \in old : i # j
      BY <2>3
    <3>2. PICK j \in old : i # j
      BY <3>1
    <3>3. i + 3 \in keys /\ j + 3 \in keys /\ i + 3 # j + 3
      BY <2>1, <3>1, <3>2
    <3>4. QED
      BY <2>3, <3>3 DEF OwnBox
  <2>4. CASE old # {} /\ ~ \E i, j \in old : i # j
    <3>1. PICK i \in old : old = {i}
      BY <2>4
    <3>2. keys = {i + 3}
      BY <2>1, <3>1
    <3>3. i \in 1..n /\ i + 1 \in 1..n
      <4>1. i \in 1..n /\ dict[i] = Key(other)
        BY <3>1 DEF KeyIndexes
      <4>2. QED
        BY <1>1, <4>1, TokenTags DEF Readable
    <3>4. new[(i + 3) + 1] = dict[i + 1]
      <4>1. i \in Nat
        BY <2>1, <3>1
      <4>2. (i + 3) + 1 = (i + 1) + 3
        BY <4>1
      <4>3. QED
        BY <1>3, <3>3, <4>2
    <3>5. OwnBox(new, other) = new[(i + 3) + 1].box /\ OwnBox(dict, other) = dict[i + 1].box
      <4>1. /\ i \in KeyIndexes(dict, other) /\ \A j \in KeyIndexes(dict, other) : j = i
            /\ i + 3 \in KeyIndexes(new, other) /\ \A j \in KeyIndexes(new, other) : j = i + 3
        BY <3>1, <3>2
      <4>2. QED
        BY <4>1, OwnBoxOfOne
    <3>6. QED
      BY <3>1, <3>4, <3>5
  <2>5. QED
    BY <2>2, <2>3, <2>4
<1>10. Cardinality(Rests(new)) = Cardinality(Rests(dict))
  <2> DEFINE shift == [i \in Rests(dict) |-> i + 3]
  <2>1. \A i \in Rests(dict) : i \in Nat /\ i + 3 \in Rests(new)
    BY <1>1, <1>2, <1>3 DEF Rests
  <2>2. ASSUME NEW j \in Rests(new)
        PROVE  \E i \in Rests(dict) : j = i + 3
    <3>1. j \in 1..(n + 3) /\ new[j] = Rest /\ j \notin {1, 2, 3}
      BY <1>2, <1>5, TokenTags DEF Rests
    <3>2. j - 3 \in 1..n /\ new[j] = dict[j - 3]
      BY <1>2, <3>1
    <3>3. j - 3 \in Rests(dict) /\ j = (j - 3) + 3
      BY <1>1, <3>1, <3>2 DEF Rests
    <3>4. QED
      BY <3>3
  <2>3. shift \in Bijection(Rests(dict), Rests(new))
    <3>1. shift \in [Rests(dict) -> Rests(new)]
      BY <2>1
    <3>2. \A i, j \in Rests(dict) : shift[i] = shift[j] => i = j
      BY <2>1
    <3>3. \A j \in Rests(new) : \E i \in Rests(dict) : shift[i] = j
      BY <2>2
    <3> HIDE DEF shift
    <3>4. QED
      BY <3>1, <3>2, <3>3 DEF Bijection, Injection, Surjection, IsInjective
  <2>4. IsFiniteSet(Rests(dict))
    <3>1. Rests(dict) \in SUBSET (1..n) /\ IsFiniteSet(1..n)
      BY <1>1, FS_Interval DEF Rests
    <3>2. QED
      BY <3>1, FS_Subset
  <2> HIDE DEF shift
  <2>5. ExistsBijection(Rests(dict), Rests(new))
    BY <2>3, Zenon DEF ExistsBijection
  <2>6. QED
    BY <2>4, <2>5, FS_Bijection, Zenon
<1>11. QED
  BY <1>6, <1>8, <1>9, <1>10 DEF Restated

(* Two sequences, the second behind the first.                              *)
Joins(both, one, two) ==
  /\ both \in Seq(Token) /\ Len(both) = Len(one) + Len(two)
  /\ \A i \in 1..Len(one) : both[i] = one[i]
  /\ \A i \in 1..Len(two) : both[Len(one) + i] = two[i]

LEMMA Joined ==
  ASSUME NEW one \in Seq(Token), NEW two \in Seq(Token)
  PROVE  Joins(one \o two, one, two)
<1> DEFINE both == one \o two
           m == Len(one)
           n == Len(two)
<1>1. Len(one) \in Nat /\ Len(two) \in Nat
  BY LenProperties
<1>2. /\ both \in Seq(Token) /\ Len(both) = Len(one) + Len(two)
      /\ \A i \in 1..(Len(one) + Len(two)) :
           both[i] = IF i <= Len(one) THEN one[i] ELSE two[i - Len(one)]
  BY ConcatProperties
<1> HIDE DEF m, n, both
<1>3. m \in Nat /\ n \in Nat /\ \A i \in 1..(m + n) : both[i] = IF i <= m THEN one[i] ELSE two[i - m]
  BY <1>1, <1>2 DEF m, n
<1>4. \A i \in 1..m : i \in 1..(m + n) /\ i <= m
  BY <1>3
<1>5. \A i \in 1..n : m + i \in 1..(m + n) /\ ~(m + i <= m) /\ (m + i) - m = i
  BY <1>3
<1>6. Joins(both, one, two)
  BY <1>1, <1>2, <1>3, <1>4, <1>5 DEF m, n, Joins
<1>7. QED
  BY <1>6, Zenon DEF both

(* An edit of the tokens behind start and up to end.                        *)
EditIs(e, start, end, tokens) == e.start = start /\ e.end = end /\ e.tokens = tokens

Replaced(dict, new, k, value) ==
  /\ new \in Seq(Token) /\ Len(new) = Len(dict) /\ new[k + 1] = value
  /\ \A i \in 1..Len(dict) : i # k + 1 => new[i] = dict[i]

Inserted(dict, new, key, value) ==
  /\ new \in Seq(Token) /\ Len(new) = Len(dict) + 3
  /\ new[1] = Gap /\ new[2] = key /\ new[3] = value
  /\ \A i \in 1..Len(dict) : new[i + 3] = dict[i]

LEMMA SpliceReplaces ==
  ASSUME NEW dict \in Seq(Token), NEW k \in Nat \ {0}, k + 1 <= Len(dict), NEW key, dict[k] = key,
         NEW value \in Token, NEW e, EditIs(e, k - 1, k + 1, <<key, value>>)
  PROVE  Replaced(dict, Splice(dict, e), k, value)
<1> DEFINE new == Splice(dict, e)
           n == Len(dict)
           front == SubSeq(dict, 1, k - 1)
           back == SubSeq(dict, (k + 1) + 1, n)
           two == <<key, value>>
           head == front \o two
<1>1. n \in Nat /\ k + 1 <= n /\ k \in 1..n /\ \A i \in 1..n : dict[i] \in Token
  BY LenProperties, ElementOfSeq
<1>2. key \in Token
  BY <1>1
<1>3. /\ front \in Seq(Token) /\ Len(front) = k - 1
      /\ \A i \in 1..(k - 1) : front[i] = dict[i]
  <2>1. k - 1 \in Nat /\ \A i \in 1..(k - 1) : i \in 1..n
    BY <1>1
  <2>2. QED
    BY <1>1, <2>1, SubSeqProperties
<1>4. /\ back \in Seq(Token) /\ Len(back) = n - (k + 1)
      /\ \A i \in 1..(n - (k + 1)) : back[i] = dict[(k + 1) + i]
  <2>1. (k + 1) + 1 \in Nat /\ \A i \in ((k + 1) + 1)..n : i \in 1..n
    BY <1>1
  <2>2. QED
    BY <1>1, <2>1, SubSeqProperties
<1>5. two \in Seq(Token) /\ Len(two) = 2 /\ two[1] = key /\ two[2] = value
  BY <1>2
<1> HIDE DEF new, n, front, back, two
<1>6. /\ head \in Seq(Token) /\ Len(head) = (k - 1) + 2
      /\ \A i \in 1..(k - 1) : head[i] = front[i]
      /\ \A i \in 1..2 : head[(k - 1) + i] = two[i]
  <2>1. head = front \o two
    OBVIOUS
  <2> HIDE DEF head
  <2>2. Joins(head, front, two)
    BY <1>3, <1>5, <2>1, Joined, Zenon
  <2>3. QED
    BY <1>3, <1>5, <2>2 DEF Joins
<1> HIDE DEF head
<1>7. head[k] = key /\ head[k + 1] = value /\ Len(head) = k + 1 /\ k + 1 \in Nat
  <2>1. (k - 1) + 1 = k /\ (k - 1) + 2 = k + 1 /\ 1 \in 1..2 /\ 2 \in 1..2
    OBVIOUS
  <2>2. QED
    BY <1>5, <1>6, <2>1
<1>8. /\ new \in Seq(Token) /\ Len(new) = (k + 1) + (n - (k + 1))
      /\ \A i \in 1..(k + 1) : new[i] = head[i]
      /\ \A i \in 1..(n - (k + 1)) : new[(k + 1) + i] = back[i]
  <2>1. new = head \o back
    BY DEF new, Splice, EditIs, head, front, two, back, n
  <2>2. Joins(new, head, back)
    BY <1>4, <1>6, <2>1, Joined, Zenon
  <2>3. QED
    BY <1>4, <1>7, <2>2 DEF Joins
<1>9. Len(new) = n
  BY <1>1, <1>8
<1>10. ASSUME NEW i \in 1..n
       PROVE  new[i] = IF i = k + 1 THEN value ELSE dict[i]
  <2>1. CASE i \in 1..(k - 1)
    BY <1>3, <1>6, <1>8, <2>1
  <2>2. CASE i = k \/ i = k + 1
    BY <1>7, <1>8, <2>2
  <2>3. CASE i > k + 1
    <3>1. i - (k + 1) \in 1..(n - (k + 1)) /\ (k + 1) + (i - (k + 1)) = i
      BY <1>1, <2>3
    <3>2. new[i] = back[i - (k + 1)] /\ back[i - (k + 1)] = dict[i]
      BY <1>4, <1>8, <3>1
    <3>3. QED
      BY <2>3, <3>2
  <2>4. QED
    BY <1>1, <2>1, <2>2, <2>3
<1>11. Replaced(dict, new, k, value)
  BY <1>1, <1>8, <1>9, <1>10 DEF n, Replaced
<1>12. QED
  BY <1>11 DEF new

LEMMA SpliceInserts ==
  ASSUME NEW dict \in Seq(Token), NEW key \in Token, NEW value \in Token,
         NEW e, EditIs(e, 0, 0, <<Gap>> \o <<key, value>>)
  PROVE  Inserted(dict, Splice(dict, e), key, value)
<1> DEFINE new == Splice(dict, e)
           n == Len(dict)
           front == SubSeq(dict, 1, 0)
           back == SubSeq(dict, 0 + 1, n)
           entry == <<Gap>> \o <<key, value>>
           head == front \o entry
<1>1. n \in Nat /\ \A i \in 1..n : dict[i] \in Token
  BY LenProperties, ElementOfSeq
<1>2. front = <<>>
  BY <1>1
<1>3. back \in Seq(Token) /\ Len(back) = n /\ \A i \in 1..n : back[i] = dict[i]
  BY <1>1, SubSeqProperties
<1>4. entry = <<Gap>> \o <<key, value>>
  OBVIOUS
<1> HIDE DEF new, n, back, entry
<1>5. entry \in Seq(Token) /\ Len(entry) = 3 /\ entry[1] = Gap /\ entry[2] = key /\ entry[3] = value
  <2> DEFINE gap == <<Gap>>
             two == <<key, value>>
  <2>1. gap \in Seq(Token) /\ Len(gap) = 1 /\ gap[1] = Gap
    BY TokenTags
  <2>2. two \in Seq(Token) /\ Len(two) = 2 /\ two[1] = key /\ two[2] = value
    OBVIOUS
  <2>3. entry = gap \o two
    BY <1>4
  <2> HIDE DEF gap, two
  <2>7. Joins(entry, gap, two)
    BY <2>1, <2>2, <2>3, Joined, Zenon
  <2>4. /\ entry \in Seq(Token) /\ Len(entry) = 1 + 2
        /\ \A i \in 1..1 : entry[i] = gap[i]
        /\ \A i \in 1..2 : entry[1 + i] = two[i]
    BY <2>1, <2>2, <2>7 DEF Joins
  <2>5. 1 \in 1..1 /\ 1 \in 1..2 /\ 2 \in 1..2 /\ 1 + 1 = 2 /\ 1 + 2 = 3
    OBVIOUS
  <2>6. QED
    BY <2>1, <2>2, <2>4, <2>5
<1>6. head = entry
  <2>1. <<>> \o entry = entry
    BY <1>5, ConcatEmptySeq
  <2>2. QED
    BY <1>2, <2>1
<1>7. new = entry \o back
  <2>1. new = head \o back
    BY <1>4 DEF new, Splice, EditIs, back, n
  <2>2. QED
    BY <1>6, <2>1
<1>8. /\ new \in Seq(Token) /\ Len(new) = 3 + n
      /\ \A i \in 1..3 : new[i] = entry[i]
      /\ \A i \in 1..n : new[3 + i] = back[i]
  <2>1. Joins(new, entry, back)
    BY <1>3, <1>5, <1>7, Joined, Zenon
  <2>2. QED
    BY <1>3, <1>5, <2>1 DEF Joins
<1>9. 1 \in 1..3 /\ 2 \in 1..3 /\ 3 \in 1..3 /\ \A i \in 1..n : 3 + i = i + 3
  BY <1>1
<1>10. new[1] = Gap /\ new[2] = key /\ new[3] = value
  BY <1>5, <1>8, <1>9
<1>11. \A i \in 1..n : new[i + 3] = dict[i]
  BY <1>3, <1>8, <1>9
<1>12. Inserted(dict, new, key, value)
  BY <1>1, <1>8, <1>10, <1>11 DEF n, Inserted
<1>13. QED
  BY <1>12 DEF new

(* One edit, of a dictionary in which the box still stands where the edit   *)
(* was planned against, or is not stated.                                   *)
LEMMA EditRestates ==
  ASSUME NEW dict \in Seq(Token), Readable(dict), NEW kind \in BoxKinds, NEW rect \in Rects,
         NEW old, NEW box, NEW leaf, OwnedBox(old, leaf, kind, box), NEW new,
         KeyIndexes(dict, kind) = KeyIndexes(old, kind),
         new = Splice(dict, BodyEdit(old, kind, box, leaf, rect))
  PROVE  /\ Restated(dict, new, kind, rect)
         /\ \A other \in BoxKinds \ {kind} :
              KeyIndexes(dict, other) = {} \/ box.owner = leaf
                => KeyIndexes(new, other) = KeyIndexes(dict, other)
<1> DEFINE e == BodyEdit(old, kind, box, leaf, rect)
<1>1. Key(kind) \in Token /\ Value(rect) \in Token
  BY TokenTags
<1>2. CASE box.owner = leaf
  <2>1. PICK k \in Nat \ {0} : KeyIndexes(old, kind) = {k}
    BY <1>2 DEF OwnedBox
  <2>2. Min(KeyIndexes(old, kind)) = k
    BY <2>1 DEF Min
  <2>3. EditIs(e, k - 1, k + 1, <<Key(kind), Value(rect)>>)
    <3>1. (k - 1) + 2 = k + 1
      OBVIOUS
    <3>2. QED
      BY <1>2, <2>2, <3>1 DEF BodyEdit, EditIs
  <2>4. k \in 1..Len(dict) /\ dict[k] = Key(kind)
    BY <2>1 DEF KeyIndexes
  <2>5. k + 1 <= Len(dict)
    BY <2>4, TokenTags, LenProperties DEF Readable
  <2> HIDE DEF e
  <2>6. new = Splice(dict, e)
    BY DEF e
  <2>7. Replaced(dict, Splice(dict, e), k, Value(rect))
    BY <1>1, <2>3, <2>4, <2>5, SpliceReplaces, Zenon
  <2>8. /\ new \in Seq(Token) /\ Len(new) = Len(dict) /\ new[k + 1] = Value(rect)
        /\ \A i \in 1..Len(dict) : i # k + 1 => new[i] = dict[i]
    BY <2>6, <2>7, Zenon DEF Replaced
  <2>9. k \in KeyIndexes(dict, kind) /\ \A i \in KeyIndexes(dict, kind) : i = k
    BY <2>1
  <2>10. /\ Restated(dict, new, kind, rect)
         /\ \A other \in BoxKinds : KeyIndexes(new, other) = KeyIndexes(dict, other)
    BY <2>8, <2>9, ReplacingRestates
  <2>11. QED
    BY <2>10
<1>3. CASE box.owner # leaf
  <2>1. KeyIndexes(dict, kind) = {}
    BY <1>3 DEF OwnedBox
  <2>2. EditIs(e, 0, 0, <<Gap>> \o <<Key(kind), Value(rect)>>)
    BY <1>3 DEF BodyEdit, EditIs
  <2> HIDE DEF e
  <2>3. new = Splice(dict, e)
    BY DEF e
  <2>4. Inserted(dict, Splice(dict, e), Key(kind), Value(rect))
    BY <1>1, <2>2, SpliceInserts, Zenon
  <2>5. /\ new \in Seq(Token) /\ Len(new) = Len(dict) + 3
        /\ new[1] = Gap /\ new[2] = Key(kind) /\ new[3] = Value(rect)
        /\ \A i \in 1..Len(dict) : new[i + 3] = dict[i]
    BY <2>3, <2>4, Zenon DEF Inserted
  <2>6. /\ Restated(dict, new, kind, rect)
        /\ \A other \in BoxKinds \ {kind} :
             KeyIndexes(dict, other) = {} => KeyIndexes(new, other) = {}
    BY <2>1, <2>5, InsertingRestates
  <2>7. QED
    BY <1>3, <2>6
<1>4. QED
  BY <1>2, <1>3

(* What the edits of one page leave of its leaf's dictionary.               *)
BodyHolds(old, new, e) ==
  /\ Readable(new)
  /\ Cardinality(Rests(new)) = Cardinality(Rests(old))
  /\ \A kind \in BoxKinds :
       OwnBox(new, kind) = IF kind \in RequestedKinds(e) THEN Requested(e, kind)
                           ELSE OwnBox(old, kind)

EntryOf(edit, leaf) ==
  [page_index |-> edit.page_index, leaf |-> leaf,
   media |-> NormalizedOption(edit.media), crop |-> NormalizedOption(edit.crop)]

(* What both rank: the crop box first at the same place.                    *)
LEMMA EditOrder ==
  ASSUME NEW dict, NEW page, NEW media, NEW crop,
         OwnedBox(dict, page.leaf, "MediaBox", page.media),
         OwnedBox(dict, page.leaf, "CropBox", page.crop)
  PROVE  LET first == BodyEdit(dict, "CropBox", page.crop, page.leaf, crop)
             second == BodyEdit(dict, "MediaBox", page.media, page.leaf, media)
         IN  /\ ~AppliedBefore(first, second) => page.media.owner = page.leaf
             /\ AppliedBefore(first, second) /\ page.media.owner = page.leaf =>
                  page.crop.owner = page.leaf \/ KeyIndexes(dict, "MediaBox") = {1}
<1> DEFINE first == BodyEdit(dict, "CropBox", page.crop, page.leaf, crop)
           second == BodyEdit(dict, "MediaBox", page.media, page.leaf, media)
<1>1. first.tie = 0 /\ second.tie = 1
  BY DEF BodyEdit
<1>2. /\ page.crop.owner # page.leaf => first.start = 0
      /\ page.media.owner # page.leaf => second.start = 0
  BY DEF BodyEdit
<1>3. ASSUME page.crop.owner = page.leaf
      PROVE  first.start \in Nat
  <2>1. PICK k \in Nat \ {0} : KeyIndexes(dict, "CropBox") = {k}
    BY <1>3 DEF OwnedBox
  <2>2. Min(KeyIndexes(dict, "CropBox")) = k
    BY <2>1 DEF Min
  <2>3. QED
    BY <1>3, <2>2 DEF BodyEdit
<1>4. ASSUME page.media.owner = page.leaf
      PROVE  second.start \in Nat /\ KeyIndexes(dict, "MediaBox") = {second.start + 1}
  <2>1. PICK k \in Nat \ {0} : KeyIndexes(dict, "MediaBox") = {k}
    BY <1>4 DEF OwnedBox
  <2>2. Min(KeyIndexes(dict, "MediaBox")) = k
    BY <2>1 DEF Min
  <2>3. second.start = k - 1
    BY <1>4, <2>2 DEF BodyEdit
  <2>4. QED
    BY <2>1, <2>3
<1> HIDE DEF first, second
<1>5. first.start \in Nat /\ second.start \in Nat
  BY <1>2, <1>3, <1>4
<1>6. ASSUME ~AppliedBefore(first, second)
      PROVE  page.media.owner = page.leaf
  BY <1>1, <1>2, <1>5, <1>6 DEF AppliedBefore
<1>7. ASSUME AppliedBefore(first, second), page.media.owner = page.leaf, page.crop.owner # page.leaf
      PROVE  KeyIndexes(dict, "MediaBox") = {1}
  <2>1. second.start = 0
    BY <1>1, <1>2, <1>5, <1>7 DEF AppliedBefore
  <2>2. QED
    BY <1>4, <1>7, <2>1
<1>8. QED
  BY <1>6, <1>7 DEF first, second

(* The one shape in which they do not (Collides).                           *)
CollidesOn(dict, e) ==
  /\ RequestedKinds(e) = BoxKinds
  /\ dict # <<>> /\ dict[1] = Key("MediaBox") /\ KeyIndexes(dict, "CropBox") = {}

(* An edit at the front of a body gives a sequence of tokens again.         *)
LEMMA FrontSplice ==
  ASSUME NEW body \in Seq(Token), NEW e, e.start = 0, e.end \in Nat, e.tokens \in Seq(Token)
  PROVE  Splice(body, e) \in Seq(Token)
<1> DEFINE front == SubSeq(body, 1, 0)
           back == SubSeq(body, e.end + 1, Len(body))
<1>1. Len(body) \in Nat /\ \A i \in 1..Len(body) : body[i] \in Token
  BY LenProperties, ElementOfSeq
<1>2. front \in Seq(Token)
  BY <1>1, SubSeqProperties
<1>3. back \in Seq(Token)
  <2>1. e.end + 1 \in Nat /\ \A i \in (e.end + 1)..Len(body) : i \in 1..Len(body)
    BY <1>1
  <2>2. QED
    BY <1>1, <2>1, SubSeqProperties
<1>4. front \o e.tokens \in Seq(Token)
  BY <1>2, ConcatProperties
<1>5. (front \o e.tokens) \o back \in Seq(Token)
  BY <1>3, <1>4, ConcatProperties
<1>6. QED
  BY <1>5 DEF Splice

(* The edits one page is planned for, applied to its leaf's dictionary.     *)
LEMMA EditedBodyHolds ==
  ASSUME NEW dict \in Seq(Token), Readable(dict), NEW page, NEW edit,
         OwnedBox(dict, page.leaf, "MediaBox", page.media),
         OwnedBox(dict, page.leaf, "CropBox", page.crop),
         NormalizedOption(edit.media) \in Rects \cup {Absent},
         NormalizedOption(edit.crop) \in Rects \cup {Absent},
         edit.media # Absent <=> NormalizedOption(edit.media) # Absent,
         edit.crop # Absent <=> NormalizedOption(edit.crop) # Absent,
         edit.media # Absent \/ edit.crop # Absent,
         NEW new, new = EditedBody(dict, page, edit)
  PROVE  /\ new \in Seq(Token)
         /\ CollidesOn(dict, EntryOf(edit, page.leaf)) \/ BodyHolds(dict, new, EntryOf(edit, page.leaf))
<1> DEFINE e == EntryOf(edit, page.leaf)
           media == Normalized(edit.media)
           crop == Normalized(edit.crop)
           mediaEdit == BodyEdit(dict, "MediaBox", page.media, page.leaf, media)
           cropEdit == BodyEdit(dict, "CropBox", page.crop, page.leaf, crop)
<1>1. /\ e.media = NormalizedOption(edit.media) /\ e.crop = NormalizedOption(edit.crop)
      /\ edit.media # Absent => media \in Rects /\ e.media = media
      /\ edit.crop # Absent => crop \in Rects /\ e.crop = crop
  BY DEF EntryOf, NormalizedOption
<1>2. /\ Requested(e, "MediaBox") = e.media /\ Requested(e, "CropBox") = e.crop
      /\ BoxKinds = {"MediaBox", "CropBox"}
  BY DEF Requested, BoxKinds
<1>3. RequestedKinds(e) =
        (IF edit.media = Absent THEN {} ELSE {"MediaBox"})
          \cup (IF edit.crop = Absent THEN {} ELSE {"CropBox"})
  <2>1. RequestedKinds(e) = {kind \in {"MediaBox", "CropBox"} : Requested(e, kind) # Absent}
    BY <1>2 DEF RequestedKinds
  <2> HIDE DEF e
  <2>2. QED
    BY <1>1, <1>2, <2>1
<1>4. "MediaBox" \in BoxKinds /\ "CropBox" \in BoxKinds /\ "CropBox" # "MediaBox"
  BY <1>2
<1> HIDE DEF e, media, crop, mediaEdit, cropEdit
<1>5. ASSUME NEW mid, NEW one \in BoxKinds, NEW two \in BoxKinds, one # two,
             edit.media # Absent, edit.crop # Absent,
             Restated(dict, mid, one, Requested(e, one)), Restated(mid, new, two, Requested(e, two))
      PROVE  new \in Seq(Token) /\ BodyHolds(dict, new, e)
  <2>1. RequestedKinds(e) = BoxKinds
    BY <1>2, <1>3, <1>5
  <2>2. Readable(new) /\ Cardinality(Rests(new)) = Cardinality(Rests(dict))
    BY <1>5 DEF Restated
  <2>3. OwnBox(new, two) = Requested(e, two) /\ OwnBox(new, one) = Requested(e, one)
    BY <1>5 DEF Restated
  <2>4. \A kind \in BoxKinds : kind = one \/ kind = two
    BY <1>2, <1>5
  <2>5. QED
    BY <1>5, <2>1, <2>2, <2>3, <2>4 DEF BodyHolds, Restated
<1>6. CASE edit.crop = Absent
  <2>1. edit.media # Absent
    BY <1>6
  <2>2. new = Splice(dict, mediaEdit)
    BY <1>6 DEF EditedBody, mediaEdit, media
  <2>3. Restated(dict, new, "MediaBox", media)
    BY <1>1, <1>4, <2>1, <2>2, EditRestates DEF mediaEdit
  <2>4. RequestedKinds(e) = {"MediaBox"}
    BY <1>3, <1>6, <2>1
  <2>5. \A kind \in BoxKinds : kind # "MediaBox" => kind \in BoxKinds \ {"MediaBox"}
    OBVIOUS
  <2>6. new \in Seq(Token) /\ BodyHolds(dict, new, e)
    BY <1>1, <1>2, <2>1, <2>3, <2>4, <2>5 DEF BodyHolds, Restated
  <2>7. QED
    BY <2>6 DEF e
<1>7. CASE edit.crop # Absent /\ edit.media = Absent
  <2>1. new = Splice(dict, cropEdit)
    BY <1>7 DEF EditedBody, cropEdit, crop
  <2>2. Restated(dict, new, "CropBox", crop)
    BY <1>1, <1>4, <1>7, <2>1, EditRestates DEF cropEdit
  <2>3. RequestedKinds(e) = {"CropBox"}
    BY <1>3, <1>7
  <2>4. \A kind \in BoxKinds : kind # "CropBox" => kind \in BoxKinds \ {"CropBox"}
    OBVIOUS
  <2>5. new \in Seq(Token) /\ BodyHolds(dict, new, e)
    BY <1>1, <1>2, <1>7, <2>2, <2>3, <2>4 DEF BodyHolds, Restated
  <2>6. QED
    BY <2>5 DEF e
<1>8. CASE edit.crop # Absent /\ edit.media # Absent /\ AppliedBefore(cropEdit, mediaEdit)
  <2> DEFINE mid == Splice(dict, cropEdit)
  <2>1. new = Splice(mid, mediaEdit)
    BY <1>8 DEF EditedBody, mediaEdit, cropEdit, media, crop
  <2> HIDE DEF mid
  <2>2. /\ Restated(dict, mid, "CropBox", crop)
        /\ \A other \in BoxKinds \ {"CropBox"} :
             KeyIndexes(dict, other) = {} \/ page.crop.owner = page.leaf
               => KeyIndexes(mid, other) = KeyIndexes(dict, other)
    BY <1>1, <1>4, <1>8, EditRestates DEF mid, cropEdit
  <2>3. mid \in Seq(Token) /\ Readable(mid)
    BY <2>2 DEF Restated
  <2>4. CASE page.media.owner = page.leaf => page.crop.owner = page.leaf
    <3>1. KeyIndexes(mid, "MediaBox") = KeyIndexes(dict, "MediaBox")
      BY <1>4, <2>2, <2>4 DEF OwnedBox
    <3>2. Restated(mid, new, "MediaBox", media)
      BY <1>1, <1>4, <1>8, <2>1, <2>3, <3>1, EditRestates DEF mediaEdit
    <3>3. QED
      BY <1>1, <1>2, <1>4, <1>5, <1>8, <2>2, <3>2, Zenon DEF e
  <2>5. CASE page.media.owner = page.leaf /\ page.crop.owner # page.leaf
    <3>1. KeyIndexes(dict, "MediaBox") = {1}
      BY <1>8, <2>5, EditOrder DEF mediaEdit, cropEdit
    <3>2. dict # <<>> /\ dict[1] = Key("MediaBox")
      BY <3>1 DEF KeyIndexes
    <3>3. KeyIndexes(dict, "CropBox") = {}
      BY <2>5 DEF OwnedBox
    <3>4. RequestedKinds(e) = BoxKinds
      BY <1>2, <1>3, <1>8
    <3>5. CollidesOn(dict, e)
      BY <3>2, <3>3, <3>4 DEF CollidesOn
    <3>6. Min(KeyIndexes(dict, "MediaBox")) = 1
      BY <3>1 DEF Min
    <3>7. mediaEdit.start = 0 /\ mediaEdit.end = 2 /\ mediaEdit.tokens = <<Key("MediaBox"), Value(media)>>
      BY <2>5, <3>6 DEF mediaEdit, BodyEdit
    <3>8. mediaEdit.tokens \in Seq(Token)
      <4>1. Key("MediaBox") \in Token /\ Value(media) \in Token
        BY <1>1, <1>4, <1>8, TokenTags
      <4>2. QED
        BY <3>7, <4>1
    <3>9. new \in Seq(Token)
      <4>1. mediaEdit.start = 0 /\ mediaEdit.end \in Nat
        BY <3>7
      <4>2. QED
        BY <2>1, <2>3, <3>8, <4>1, FrontSplice, Zenon
    <3>10. QED
      BY <3>5, <3>9 DEF e
  <2>6. QED
    BY <2>4, <2>5
<1>9. CASE edit.crop # Absent /\ edit.media # Absent /\ ~AppliedBefore(cropEdit, mediaEdit)
  <2> DEFINE mid == Splice(dict, mediaEdit)
  <2>1. new = Splice(mid, cropEdit)
    BY <1>9 DEF EditedBody, mediaEdit, cropEdit, media, crop
  <2>2. page.media.owner = page.leaf
    BY <1>9, EditOrder DEF mediaEdit, cropEdit
  <2> HIDE DEF mid
  <2>3. /\ Restated(dict, mid, "MediaBox", media)
        /\ \A other \in BoxKinds \ {"MediaBox"} :
             KeyIndexes(dict, other) = {} \/ page.media.owner = page.leaf
               => KeyIndexes(mid, other) = KeyIndexes(dict, other)
    BY <1>1, <1>4, <1>9, EditRestates DEF mid, mediaEdit
  <2>4. KeyIndexes(mid, "CropBox") = KeyIndexes(dict, "CropBox")
    BY <1>4, <2>2, <2>3
  <2>5. mid \in Seq(Token) /\ Readable(mid)
    BY <2>3 DEF Restated
  <2>6. Restated(mid, new, "CropBox", crop)
    BY <1>1, <1>4, <1>9, <2>1, <2>4, <2>5, EditRestates DEF cropEdit
  <2>7. QED
    BY <1>1, <1>2, <1>4, <1>5, <1>9, <2>3, <2>6, Zenon DEF e
<1>10. QED
  BY <1>6, <1>7, <1>8, <1>9 DEF e

-----------------------------------------------------------------------------
(* A call forgets the walks of the one before it.                            *)
LEMMA ForgottenWalksAreBounded ==
  ASSUME ForgetWalks
  PROVE  LeafBounded' /\ BoxBounded'
<1>1. /\ frames' = <<>> /\ boxFrames' = <<>> /\ leafPhase' = "idle" /\ boxPhase' = "idle"
      /\ visited' = {} /\ visited_node_count' = 0 /\ boxVisited' = {}
  BY DEF ForgetWalks
<1>2. frames' \in Seq(LeafFrame) /\ boxFrames' \in Seq(BoxFrame({}))
  BY <1>1
<1>3. StackBounded(frames', visited') /\ StackBounded(boxFrames', boxVisited')
  BY <1>1, NoneIsBounded
<1>4. LeafBounded'
  BY <1>1, <1>2, <1>3, FS_EmptySet, BoundsAreNat DEF LeafBounded
<1>5. BoxBounded'
  BY <1>1, <1>2, <1>3 DEF BoxBounded
<1>6. QED
  BY <1>4, <1>5

(***************************************************************************)
(* What WalksAlwaysBounded says, of the inspection inside                  *)
(* set_page_boxes_incremental, for any number of calls on the document and *)
(* on what they made of it.                                                *)
(***************************************************************************)
THEOREM CallsWalkBounded == SetSpec => []WalksStayBounded
<1>1. SetInit => LeafBounded /\ BoxBounded
  BY WalksStartBounded DEF SetInit, Init
<1>2. ASSUME LeafBounded, BoxBounded, [SetNext]_setVars
      PROVE  LeafBounded' /\ BoxBounded'
  <2>1. CASE Call
    BY <2>1, ForgottenWalksAreBounded DEF Call
  <2>2. CASE Inspect
    BY <1>2, <2>2, WalkStepsAreBounded DEF Inspect
  <2>3. CASE FailInspection \/ StartPlanning \/ FailPlan \/ RefuseWrite
    BY <1>2, <2>3, WalkStepsAreBounded DEF FailInspection, StartPlanning, FailPlan, RefuseWrite, Fail, vars
  <2>4. CASE SkipUnreported \/ SkipUnowned
    BY <1>2, <2>4, WalkStepsAreBounded DEF SkipUnreported, SkipUnowned, Skip, vars
  <2>5. CASE PlanEdit
    BY <1>2, <2>5, WalkStepsAreBounded DEF PlanEdit, vars
  <2>6. CASE Write
    BY <1>2, <2>6, WalkStepsAreBounded DEF Write
  <2>7. CASE UNCHANGED setVars
    BY <1>2, <2>7, WalkStepsAreBounded DEF setVars, vars
  <2>8. QED
    BY <1>2, <2>1, <2>2, <2>3, <2>4, <2>5, <2>6, <2>7 DEF SetNext, Progress
<1>3. LeafBounded /\ BoxBounded => WalksStayBounded
  BY BoundedWalks
<1>4. QED
  BY <1>1, <1>2, <1>3, PTL DEF SetSpec

-----------------------------------------------------------------------------
(***************************************************************************)
(* What a call has planned: for the leaf of one page, and of no other, a   *)
(* body that holds what was asked for.                                     *)
(***************************************************************************)
AskingEdit == {edit \in PageBoxEdit : edit.media # Absent \/ edit.crop # Absent}

PagesOf(list, leaf) == {i \in 1..Len(list) : list[i].leaf = leaf}

PlannedFor(t, list, e, rewritten) ==
  /\ e.leaf \in Objects /\ rewritten.leaf = e.leaf /\ rewritten.body \in Seq(Token)
  /\ Cardinality(PagesOf(list, e.leaf)) = 1
  /\ \E i \in PagesOf(list, e.leaf) : list[i].page_index = e.page_index
  /\ CollidesOn(t[e.leaf].dict, e) \/ BodyHolds(t[e.leaf].dict, rewritten.body, e)

EditsInv ==
  /\ tree \in TreeShape
  /\ op # "idle" => BoxesInv /\ request \in Seq(AskingEdit)
  /\ op = "inspect" => edited = <<>>
  /\ op # "idle" => \A i \in 1..Len(edited) : PlannedFor(tree, pages, edited[i], dirty[i])
  /\ EditsKeepOtherEntries

(* An edit that passed the checks of its rectangles.                        *)
LEMMA CheckedEdit ==
  ASSUME NEW edit \in AskingEdit, PlanError(edit) = Absent
  PROVE  /\ NormalizedOption(edit.media) \in Rects \cup {Absent}
         /\ NormalizedOption(edit.crop) \in Rects \cup {Absent}
         /\ edit.media # Absent <=> NormalizedOption(edit.media) # Absent
         /\ edit.crop # Absent <=> NormalizedOption(edit.crop) # Absent
         /\ edit.media # Absent \/ edit.crop # Absent
         /\ edit.page_index \in Nat
<1>1. Absent \notin Rects
  BY MarksAreNoRects
<1>2. /\ edit.media \in Rects \cup {Absent, NonFinite} /\ edit.crop \in Rects \cup {Absent, NonFinite}
      /\ edit.page_index \in Nat /\ (edit.media # Absent \/ edit.crop # Absent)
  BY DEF AskingEdit, PageBoxEdit
<1>3. BoxError(edit.media) = Absent /\ BoxError(edit.crop) = Absent
  BY DEF PlanError
<1>4. ASSUME NEW rect \in Rects \cup {Absent, NonFinite}, BoxError(rect) = Absent
      PROVE  /\ NormalizedOption(rect) \in Rects \cup {Absent}
             /\ rect # Absent <=> NormalizedOption(rect) # Absent
  <2>1. CASE rect = Absent
    BY <2>1 DEF NormalizedOption
  <2>2. CASE rect # Absent
    <3>1. rect # NonFinite
      BY <1>4, <2>2, AbsentIsNoError DEF BoxError, CallErrors
    <3>2. rect \in Rects
      BY <1>4, <2>2, <3>1
    <3>3. <<rect[2], rect[1]>> \in Rects
      BY <3>2, RectsAreIntervals
    <3>4. Normalized(rect) \in Rects
      BY <3>2, <3>3 DEF Normalized
    <3>5. QED
      BY <1>1, <2>2, <3>4 DEF NormalizedOption
  <2>3. QED
    BY <2>1, <2>2
<1>5. QED
  BY <1>2, <1>3, <1>4

LEMMA PlansHold ==
  ASSUME CallsInv, EditsInv, PlanEdit
  PROVE  EditsInv'
<1>1. PICK m \in 1..Len(request) :
        LET edit == request[m]
            page == PageAt(edit.page_index)
        IN  /\ Planning(edit) /\ PagesAt(edit.page_index) # {} /\ PlanError(edit) = Absent
            /\ Owned(page.leaf)
            /\ edited' = Append(edited, [page_index |-> edit.page_index, leaf |-> page.leaf,
                                         media |-> NormalizedOption(edit.media),
                                         crop |-> NormalizedOption(edit.crop)])
            /\ dirty' = Append(dirty, [leaf |-> page.leaf,
                                       body |-> EditedBody(tree[page.leaf].dict, page, edit)])
            /\ UNCHANGED <<op, request, skipped, result, calls, before, repeated>>
            /\ UNCHANGED vars
  BY DEF PlanEdit
<1> DEFINE edit == request[m]
           page == PageAt(edit.page_index)
           e == EntryOf(edit, page.leaf)
           dict == tree[page.leaf].dict
           body == EditedBody(dict, page, edit)
           rewritten == [leaf |-> page.leaf, body |-> body]
           n == Len(edited)
<1>2. /\ op = "plan" /\ PagesAt(edit.page_index) # {} /\ PlanError(edit) = Absent
      /\ Cardinality(PagesOf(pages, page.leaf)) = 1
      /\ edited' = Append(edited, e) /\ dirty' = Append(dirty, rewritten)
      /\ UNCHANGED <<op, request, skipped, result, before, tree, pages, boxVars>>
  BY <1>1 DEF Planning, Owned, PagesOf, EntryOf, vars, boxVars
<1>3. BoxesInv /\ request \in Seq(AskingEdit) /\ tree \in TreeShape
      /\ \A i \in 1..Len(edited) : PlannedFor(tree, pages, edited[i], dirty[i])
  BY <1>2 DEF EditsInv
<1>4. edit \in AskingEdit
  BY <1>3, ElementOfSeq
<1>5. PICK c \in PagesAt(edit.page_index) : page = pages[c]
  BY <1>2 DEF PageAt
<1>6. c \in 1..Len(pages) /\ pages[c].page_index = edit.page_index
  BY <1>5 DEF PagesAt
<1>7. page \in StatedPages(tree)
  BY <1>3, <1>5, <1>6, ElementOfSeq DEF BoxesInv
<1>8. /\ page.leaf \in Objects /\ Readable(dict)
      /\ OwnedBox(dict, page.leaf, "MediaBox", page.media)
      /\ OwnedBox(dict, page.leaf, "CropBox", page.crop)
  BY <1>7 DEF StatedPages, PageReport
<1>9. dict \in Seq(Token)
  BY <1>3, <1>8, DictOf
<1>10. e.leaf = page.leaf /\ e.page_index = edit.page_index
       /\ rewritten.leaf = page.leaf /\ rewritten.body = body
  BY DEF EntryOf
<1>11. c \in PagesOf(pages, page.leaf)
  BY <1>5, <1>6 DEF PagesOf
<1> HIDE DEF page, edit
<1>12. body \in Seq(Token) /\ (CollidesOn(dict, e) \/ BodyHolds(dict, body, e))
  <2> DEFINE new == body
  <2>1. new = EditedBody(dict, page, edit)
    OBVIOUS
  <2> HIDE DEF new, dict
  <2>2. /\ NormalizedOption(edit.media) \in Rects \cup {Absent}
        /\ NormalizedOption(edit.crop) \in Rects \cup {Absent}
        /\ edit.media # Absent <=> NormalizedOption(edit.media) # Absent
        /\ edit.crop # Absent <=> NormalizedOption(edit.crop) # Absent
        /\ edit.media # Absent \/ edit.crop # Absent
    BY <1>2, <1>4, CheckedEdit
  <2>3. new \in Seq(Token) /\ (CollidesOn(dict, EntryOf(edit, page.leaf)) \/ BodyHolds(dict, new, EntryOf(edit, page.leaf)))
    BY <1>8, <1>9, <2>1, <2>2, EditedBodyHolds
  <2>4. QED
    BY <2>3 DEF new
<1> HIDE DEF e, body, rewritten
<1>13. PlannedFor(tree, pages, e, rewritten)
  BY <1>2, <1>6, <1>8, <1>10, <1>11, <1>12 DEF PlannedFor
<1>14. PICK S : edited \in Seq(S)
  BY DEF CallsInv, CallTypes
<1>15. PICK T : dirty \in Seq(T)
  BY DEF CallsInv, CallTypes
<1>16. Len(dirty) = n
  BY <1>2 DEF CallsInv, Answers
<1>17. /\ n \in Nat /\ Len(edited') = n + 1 /\ edited'[n + 1] = e
       /\ \A i \in 1..n : edited'[i] = edited[i]
  BY <1>2, <1>14, OneMore
<1>18. /\ dirty'[n + 1] = rewritten
       /\ \A i \in 1..n : dirty'[i] = dirty[i]
  BY <1>2, <1>15, <1>16, OneMore
<1>19. \A i \in 1..Len(edited') : PlannedFor(tree, pages, edited'[i], dirty'[i])
  <2>1. \A i \in 1..(n + 1) : i \in 1..n \/ i = n + 1
    BY <1>17
  <2> HIDE DEF n
  <2>2. ASSUME NEW i \in 1..(n + 1)
        PROVE  PlannedFor(tree, pages, edited'[i], dirty'[i])
    <3>1. CASE i \in 1..n
      BY <1>3, <1>17, <1>18, <3>1 DEF n
    <3>2. CASE i = n + 1
      BY <1>13, <1>17, <1>18, <3>2
    <3>3. QED
      BY <2>1, <3>1, <3>2
  <2>3. QED
    BY <1>17, <2>2
<1>20. BoxesInv'
  BY <1>2, <1>3 DEF BoxesInv, boxVars
<1>21. result = "none"
  BY <1>2 DEF CallsInv
<1>22. EditsKeepOtherEntries'
  BY <1>2, <1>21 DEF EditsKeepOtherEntries
<1>23. QED
  BY <1>2, <1>3, <1>19, <1>20, <1>22 DEF EditsInv

(* Two edits of one leaf would be two edits of one page.                    *)
LEMMA LeavesDiffer ==
  ASSUME NEW list, Len(list) \in Nat, NEW i, NEW j, Cardinality(PagesOf(list, i.leaf)) = 1, i.leaf = j.leaf,
         \E k \in PagesOf(list, i.leaf) : list[k].page_index = i.page_index,
         \E k \in PagesOf(list, j.leaf) : list[k].page_index = j.page_index
  PROVE  i.page_index = j.page_index
<1> DEFINE uses == PagesOf(list, i.leaf)
<1>1. PICK x : uses = {x}
  <2>1. IsFiniteSet(uses)
    <3> DEFINE n == Len(list)
    <3> HIDE DEF n
    <3>1. IsFiniteSet(1..n)
      <4>1. n \in Int /\ 1 \in Int
        BY DEF n
      <4>2. QED
        BY <4>1, FS_Interval, Zenon
    <3>2. uses \subseteq 1..n
      BY DEF PagesOf, n
    <3>3. QED
      BY <3>1, <3>2, FS_Subset
  <2>2. QED
    BY <2>1, FS_Singleton
<1>2. QED
  BY <1>1

(* The new version of an edited leaf is the body its one edit planned.      *)
LEMMA LeafRevised ==
  ASSUME Apart(edited), Len(pages) \in Nat, Len(dirty) = Len(edited), tree \in TreeShape,
         \A i \in 1..Len(dirty) : dirty[i].leaf = edited[i].leaf,
         \A i \in 1..Len(edited) : PlannedFor(tree, pages, edited[i], dirty[i]),
         NEW j \in 1..Len(edited)
  PROVE  /\ Revised(edited[j].leaf) \in ObjectShape
         /\ Revised(edited[j].leaf).dict = dirty[j].body
<1> DEFINE leaf == edited[j].leaf
           rewritten == {i \in 1..Len(dirty) : dirty[i].leaf = leaf}
<1>1. ASSUME NEW i \in rewritten
      PROVE  i = j
  <2>1. i \in 1..Len(edited) /\ edited[i].leaf = edited[j].leaf
    OBVIOUS
  <2>2. PlannedFor(tree, pages, edited[i], dirty[i]) /\ PlannedFor(tree, pages, edited[j], dirty[j])
    BY <2>1
  <2>3. edited[i].page_index = edited[j].page_index
    <3>1. /\ Cardinality(PagesOf(pages, edited[i].leaf)) = 1
          /\ \E k \in PagesOf(pages, edited[i].leaf) : pages[k].page_index = edited[i].page_index
          /\ \E k \in PagesOf(pages, edited[j].leaf) : pages[k].page_index = edited[j].page_index
      BY <2>2 DEF PlannedFor
    <3>2. QED
      BY <2>1, <3>1, LeavesDiffer
  <2>4. QED
    BY <2>1, <2>3 DEF Apart
<1>2. j \in rewritten
  OBVIOUS
<1>3. rewritten # {} /\ Max(rewritten) = j
  <2>1. rewritten = {j}
    BY <1>1, <1>2
  <2>2. \A x \in Int : x >= x
    OBVIOUS
  <2>3. Max({j}) = j
    BY <2>2 DEF Max
  <2>4. QED
    BY <2>1, <2>3
<1>4. Revised(leaf) = [tree[leaf] EXCEPT !.dict = dirty[j].body]
  BY <1>3 DEF Revised
<1>5. leaf \in Objects /\ dirty[j].body \in Seq(Token)
  BY DEF PlannedFor
<1>6. tree[leaf] \in ObjectShape
  BY <1>5 DEF TreeShape
<1> HIDE DEF leaf
<1>7. Revised(leaf) \in ObjectShape /\ Revised(leaf).dict = dirty[j].body
  BY <1>4, <1>5, <1>6 DEF ObjectShape
<1>8. QED
  BY <1>7 DEF leaf

LEMMA WritesKeep ==
  ASSUME CallsInv, EditsInv, Write
  PROVE  EditsInv'
<1>1. /\ op = "plan" /\ op' = "idle" /\ result' = "ok"
      /\ tree' = [object \in Objects |-> Revised(object)]
      /\ edited' = Sorted(edited) /\ before' = before
  BY DEF Write
<1>2. /\ tree = before /\ Apart(edited) /\ Len(dirty) = Len(edited)
      /\ \A i \in 1..Len(dirty) : dirty[i].leaf = edited[i].leaf
      /\ \A i \in 1..Len(edited) : edited[i].page_index \in Nat
  BY <1>1 DEF CallsInv, Answers
<1>3. /\ tree \in TreeShape /\ Len(pages) \in Nat
      /\ \A i \in 1..Len(edited) : PlannedFor(tree, pages, edited[i], dirty[i])
  BY <1>1, LenProperties DEF EditsInv, BoxesInv
<1>4. ASSUME NEW j \in 1..Len(edited)
      PROVE  /\ Revised(edited[j].leaf) \in ObjectShape
             /\ Revised(edited[j].leaf).dict = dirty[j].body
  BY <1>2, <1>3, LeafRevised
<1>5. tree' \in TreeShape
  <2>1. ASSUME NEW object \in Objects
        PROVE  Revised(object) \in ObjectShape
    <3>1. CASE \E j \in 1..Len(edited) : edited[j].leaf = object
      BY <1>4, <3>1
    <3>2. CASE ~ \E j \in 1..Len(edited) : edited[j].leaf = object
      <4>1. {i \in 1..Len(dirty) : dirty[i].leaf = object} = {}
        BY <1>2, <3>2
      <4>2. Revised(object) = tree[object]
        BY <4>1 DEF Revised
      <4>3. QED
        BY <1>3, <4>2 DEF TreeShape
    <3>3. QED
      BY <3>1, <3>2
  <2>2. QED
    BY <1>1, <2>1 DEF TreeShape
<1>6. ASSUME NEW k \in 1..Len(edited')
      PROVE  Collides(edited[k])' \/ OthersKept(edited[k])'
  <2>1. PICK S : edited \in Seq(S)
    BY DEF CallsInv, CallTypes
  <2>2. PICK j \in 1..Len(edited) : edited'[k] = edited[j]
    <3>1. /\ Len(Sorted(edited)) = Len(edited)
          /\ \A i \in 1..Len(edited) : \E j \in 1..Len(edited) : Sorted(edited)[i] = edited[j]
      BY <1>2, <2>1, SortedAscends
    <3>2. QED
      BY <1>1, <3>1
  <2> DEFINE e == edited[j]
  <2>3. /\ e.leaf \in Objects
        /\ CollidesOn(tree[e.leaf].dict, e) \/ BodyHolds(tree[e.leaf].dict, dirty[j].body, e)
    BY <1>3 DEF PlannedFor
  <2>4. tree'[e.leaf].dict = dirty[j].body
    BY <1>1, <1>4, <2>3
  <2>5. before'[e.leaf].dict = tree[e.leaf].dict
    BY <1>1, <1>2
  <2> HIDE DEF e
  <2>6. edited'[k] = e
    BY <2>2 DEF e
  <2>7. CASE CollidesOn(tree[e.leaf].dict, e)
    BY <2>5, <2>6, <2>7 DEF Collides, CollidesOn, Requested, RequestedKinds
  <2>8. CASE BodyHolds(tree[e.leaf].dict, dirty[j].body, e)
    BY <2>4, <2>5, <2>6, <2>8 DEF OthersKept, BodyHolds, Rests, Requested, RequestedKinds
  <2>9. QED
    BY <2>3, <2>7, <2>8
<1>7. EditsKeepOtherEntries'
  BY <1>6 DEF EditsKeepOtherEntries
<1>8. QED
  BY <1>1, <1>5, <1>7 DEF EditsInv

LEMMA CallsBegin ==
  ASSUME EditsInv, Call
  PROVE  EditsInv'
<1>1. PICK edits \in Requests :
        /\ request' = edits /\ tree' = tree /\ edited' = <<>> /\ ForgetWalks
        /\ IF Erroneous(edits) = {}
           THEN op' = "inspect" /\ result' = "none"
           ELSE op' = "idle" /\ result' = EditError(edits, Min(Erroneous(edits)))
  BY DEF Call
<1>2. edits \in Seq(PageBoxEdit) /\ Len(edits) \in Nat
  BY RequestsAreEdits, LenProperties
<1>3. BoxesInv'
  <2>1. boxFrames' = <<>> /\ pages' = <<>> /\ page_index' = 0 /\ tree \in TreeShape
    BY <1>1 DEF ForgetWalks, EditsInv
  <2>2. QED
    BY <1>1, <2>1 DEF BoxesInv
<1>4. ASSUME Erroneous(edits) = {}
      PROVE  edits \in Seq(AskingEdit)
  <2>1. ASSUME NEW i \in 1..Len(edits)
        PROVE  edits[i] \in AskingEdit
    <3>1. EditError(edits, i) = Absent
      BY <1>4 DEF Erroneous
    <3>2. edits[i].media # Absent \/ edits[i].crop # Absent
      BY <3>1, AbsentIsNoError DEF EditError, CallErrors
    <3>3. edits[i] \in PageBoxEdit
      BY <1>2, ElementOfSeq
    <3>4. QED
      BY <3>2, <3>3 DEF AskingEdit
  <2>2. edits = [i \in 1..Len(edits) |-> edits[i]]
    BY <1>2, SeqDef
  <2>3. QED
    BY <1>2, <2>1, <2>2
<1>5. \A i \in 1..Len(edited') : FALSE
  BY <1>1
<1>6. EditsKeepOtherEntries'
  BY <1>5 DEF EditsKeepOtherEntries
<1>7. tree' \in TreeShape
  BY <1>1 DEF EditsInv
<1>8. op' # "idle" => request' \in Seq(AskingEdit)
  BY <1>1, <1>4
<1>9. QED
  BY <1>1, <1>3, <1>5, <1>6, <1>7, <1>8 DEF EditsInv

(* From the first call on, whatever the callers ask for.                    *)
LEMMA EditsInvariant == SetSpec => []EditsInv
<1>1. SetInit => EditsInv
  <2>1. ASSUME SetInit
        PROVE  tree \in TreeShape /\ op = "idle" /\ result = "none"
    BY <2>1, DocumentsAreTrees DEF SetInit, Init
  <2>2. QED
    BY <2>1 DEF EditsInv, EditsKeepOtherEntries
<1>2. ASSUME CallsInv, EditsInv, [SetNext]_setVars
      PROVE  EditsInv'
  <2>1. ASSUME op # "idle", result' # "ok", BoxesInv', tree' = tree, op' = "inspect" => op = "inspect",
               UNCHANGED <<request, edited, dirty>>,
               op' = "idle" \/ pages' = pages \/ op = "inspect"
        PROVE  EditsInv'
    <3>1. /\ tree \in TreeShape /\ request \in Seq(AskingEdit)
          /\ op = "inspect" => edited = <<>>
          /\ \A i \in 1..Len(edited) : PlannedFor(tree, pages, edited[i], dirty[i])
      BY <1>2, <2>1 DEF EditsInv
    <3>2. ASSUME op' # "idle"
          PROVE  \A i \in 1..Len(edited') : PlannedFor(tree, pages, edited[i], dirty[i])'
      <4>1. CASE op = "inspect"
        BY <2>1, <3>1, <4>1
      <4>2. CASE op # "inspect"
        BY <2>1, <3>1, <3>2, <4>2
      <4>3. QED
        BY <4>1, <4>2
    <3>3. EditsKeepOtherEntries'
      BY <2>1 DEF EditsKeepOtherEntries
    <3>4. QED
      BY <2>1, <3>1, <3>2, <3>3 DEF EditsInv
  <2>2. op # "idle" => result = "none" /\ BoxesInv
    BY <1>2 DEF CallsInv, EditsInv
  <2>3. ASSUME UNCHANGED <<tree, boxVars>>
        PROVE  pages' = pages /\ (BoxesInv => BoxesInv')
    BY <2>3 DEF boxVars, BoxesInv
  <2>4. CASE Call
    BY <1>2, <2>4, CallsBegin
  <2>5. CASE Inspect
    <3>1. op = "inspect" /\ UNCHANGED <<op, request, edited, dirty, result>>
      BY <2>5 DEF Inspect, callVars
    <3>2. tree' = tree /\ BoxesInv'
      <4>1. CASE EnumerateLeaves
        BY <2>2, <2>3, <3>1, <4>1 DEF EnumerateLeaves, LeafStep, StartLeaves, EmitLeaf, SkipKid,
           StopDescent, Descend, ReturnFromNode
      <4>2. CASE InspectBoxes
        BY <2>2, <3>1, <4>2, BoxStepsState DEF InspectBoxes
      <4>3. QED
        BY <2>5, <4>1, <4>2 DEF Inspect
    <3>3. QED
      BY <2>1, <2>2, <3>1, <3>2
  <2>6. CASE StartPlanning
    <3>1. op = "inspect" /\ op' = "plan" /\ UNCHANGED <<request, edited, dirty, result, tree, boxVars>>
      BY <2>6 DEF StartPlanning, vars
    <3>2. QED
      BY <2>1, <2>2, <2>3, <3>1
  <2>7. ASSUME NEW reason, reason # "ok", op # "idle", Fail(reason)
        PROVE  EditsInv'
    <3>1. op' = "idle" /\ result' = reason /\ UNCHANGED <<request, edited, dirty, tree, boxVars>>
      BY <2>7 DEF Fail, vars
    <3>2. QED
      BY <2>1, <2>2, <2>3, <2>7, <3>1
  <2>8. CASE FailInspection \/ RefuseWrite
    BY <2>7, <2>8 DEF FailInspection, RefuseWrite
  <2>9. CASE FailPlan
    <3>1. PICK edit : op = "plan" /\ PlanError(edit) # Absent /\ Fail(PlanError(edit))
      BY <2>9 DEF FailPlan, Planning
    <3>2. PlanError(edit) # "ok"
      BY <3>1 DEF PlanError, BoxError
    <3>3. QED
      BY <2>7, <3>1, <3>2
  <2>10. CASE SkipUnreported \/ SkipUnowned
    <3>1. PICK edit, reason : Planning(edit) /\ Skip(edit, reason)
      BY <2>10, Zenon DEF SkipUnreported, SkipUnowned
    <3>2. op = "plan" /\ UNCHANGED <<op, request, edited, dirty, result, tree, boxVars>>
      BY <3>1 DEF Planning, Skip, vars
    <3>3. QED
      BY <2>1, <2>2, <2>3, <3>2
  <2>11. CASE PlanEdit
    BY <1>2, <2>11, PlansHold
  <2>12. CASE Write
    BY <1>2, <2>12, WritesKeep
  <2>13. CASE UNCHANGED setVars
    <3>1. UNCHANGED <<op, request, edited, dirty, result, before, tree, boxVars>>
      BY <2>13 DEF setVars, callVars, vars
    <3>2. pages' = pages /\ (BoxesInv => BoxesInv')
      BY <2>3, <3>1
    <3>3. EditsKeepOtherEntries => EditsKeepOtherEntries'
      <4>1. ASSUME NEW e
            PROVE  /\ Collides(e) => Collides(e)'
                   /\ OthersKept(e) => OthersKept(e)'
        BY <3>1 DEF Collides, OthersKept
      <4>2. QED
        BY <3>1, <4>1 DEF EditsKeepOtherEntries
    <3>4. QED
      BY <1>2, <3>1, <3>2, <3>3 DEF EditsInv
  <2>14. QED
    BY <1>2, <2>4, <2>5, <2>6, <2>8, <2>9, <2>10, <2>11, <2>12, <2>13 DEF SetNext, Progress
<1>3. QED
  BY <1>1, <1>2, CallsInvariant, PTL DEF SetSpec

(***************************************************************************)
(* For every document and request: the leaf a successful call rewrote      *)
(* states the requested boxes, keeps the box that was not requested, and   *)
(* has as many other entries as before, wherever the old boxes stood; save *)
(* for the one shape in which its two edits collide.                       *)
(***************************************************************************)
THEOREM EditsAlwaysKeepEntries == SetSpec => []EditsKeepOtherEntries
<1>1. EditsInv => EditsKeepOtherEntries
  BY DEF EditsInv
<1>2. QED
  BY <1>1, EditsInvariant, PTL

-----------------------------------------------------------------------------
(***************************************************************************)
(* What a revision changes: the dictionaries of edited leaves, each as its *)
(* one edit planned.                                                       *)
(***************************************************************************)
SameNode(one, two) ==
  one.type = two.type /\ one.kids = two.kids /\ one.compressed = two.compressed

Rewrites(t, u, list) ==
  /\ t \in TreeShape /\ u \in TreeShape
  /\ \A o \in Objects :
       /\ SameNode(t[o], u[o])
       /\ (\A j \in 1..Len(list) : list[j].leaf # o) => u[o].dict = t[o].dict
  /\ \A j \in 1..Len(list) :
       /\ list[j].leaf \in Objects /\ Readable(t[list[j].leaf].dict)
       /\ BodyHolds(t[list[j].leaf].dict, u[list[j].leaf].dict, list[j])

LEMMA RevisedNode ==
  ASSUME tree \in TreeShape, NEW o \in Objects
  PROVE  /\ SameNode(tree[o], Revised(o))
         /\ {i \in 1..Len(dirty) : dirty[i].leaf = o} = {} => Revised(o) = tree[o]
<1>1. PICK body : Revised(o) \in {tree[o], [tree[o] EXCEPT !.dict = body]}
  BY DEF Revised
<1>2. tree[o] \in ObjectShape
  BY DEF TreeShape
<1>3. SameNode(tree[o], [tree[o] EXCEPT !.dict = body])
  BY <1>2 DEF ObjectShape, SameNode
<1>4. QED
  BY <1>1, <1>3 DEF SameNode, Revised

LEMMA RevisionRewrites ==
  ASSUME CallsInv, EditsInv, Write, \A j \in 1..Len(edited) : ~Collides(edited[j]),
         tree' \in TreeShape
  PROVE  Rewrites(tree, tree', edited)
<1>1. op = "plan" /\ tree' = [object \in Objects |-> Revised(object)]
  BY DEF Write
<1>2. /\ tree = before /\ Apart(edited) /\ Len(dirty) = Len(edited)
      /\ \A i \in 1..Len(dirty) : dirty[i].leaf = edited[i].leaf
  BY <1>1 DEF CallsInv, Answers
<1>3. /\ tree \in TreeShape /\ Len(pages) \in Nat /\ pages \in Seq(StatedPages(tree))
      /\ \A i \in 1..Len(edited) : PlannedFor(tree, pages, edited[i], dirty[i])
  BY <1>1, LenProperties DEF EditsInv, BoxesInv
<1>4. ASSUME NEW j \in 1..Len(edited)
      PROVE  /\ edited[j].leaf \in Objects /\ Readable(tree[edited[j].leaf].dict)
             /\ BodyHolds(tree[edited[j].leaf].dict, tree'[edited[j].leaf].dict, edited[j])
  <2> DEFINE leaf == edited[j].leaf
  <2>1. /\ leaf \in Objects
        /\ CollidesOn(tree[leaf].dict, edited[j]) \/ BodyHolds(tree[leaf].dict, dirty[j].body, edited[j])
    BY <1>3 DEF PlannedFor
  <2>2. ~CollidesOn(tree[leaf].dict, edited[j])
    BY <1>2 DEF Collides, CollidesOn, Requested, RequestedKinds
  <2>3. PICK i \in 1..Len(pages) : pages[i].leaf = leaf
    BY <1>3 DEF PlannedFor, PagesOf
  <2>4. pages[i] \in StatedPages(tree)
    BY <1>3, ElementOfSeq
  <2>5. Readable(tree[leaf].dict)
    BY <2>3, <2>4 DEF StatedPages
  <2>6. Revised(leaf).dict = dirty[j].body
    BY <1>2, <1>3, LeafRevised
  <2>7. tree'[leaf].dict = dirty[j].body
    BY <1>1, <2>1, <2>6
  <2>8. QED
    BY <2>1, <2>2, <2>5, <2>7
<1>5. ASSUME NEW o \in Objects
      PROVE  /\ SameNode(tree[o], tree'[o])
             /\ (\A j \in 1..Len(edited) : edited[j].leaf # o) => tree'[o].dict = tree[o].dict
  <2>1. tree'[o] = Revised(o)
    BY <1>1
  <2>2. (\A j \in 1..Len(edited) : edited[j].leaf # o) => {i \in 1..Len(dirty) : dirty[i].leaf = o} = {}
    BY <1>2
  <2>3. QED
    BY <1>3, <2>1, <2>2, RevisedNode
<1>6. QED
  BY <1>3, <1>4, <1>5 DEF Rewrites

(* Every page stays where it is in the tree.                                *)
LEMMA TreeRevised ==
  ASSUME NEW list, Rewrites(tree, tree', list)
  PROVE  Branches' = Branches /\ Types' = Types /\ Opening' = Opening
<1>1. ASSUME NEW o \in Objects
      PROVE  Readable(tree[o].dict)' <=> Readable(tree[o].dict)
  <2>1. CASE \A j \in 1..Len(list) : list[j].leaf # o
    <3>1. tree'[o].dict = tree[o].dict
      BY <2>1 DEF Rewrites
    <3>2. QED
      BY <3>1 DEF Readable
  <2>2. CASE \E j \in 1..Len(list) : list[j].leaf = o
    <3>1. Readable(tree[o].dict) /\ \E e : BodyHolds(tree[o].dict, tree'[o].dict, e)
      BY <2>2 DEF Rewrites
    <3>2. \A dict : Readable(dict)' <=> Readable(dict')
      BY DEF Readable
    <3>3. QED
      BY <3>1 DEF BodyHolds, Readable
  <2>3. QED
    BY <2>1, <2>2
<1>2. ASSUME NEW o \in Objects
      PROVE  /\ NodeType(o)' = NodeType(o) /\ Kids(o)' = Kids(o)
             /\ Expands(o)' <=> Expands(o)
  <2>1. tree'[o].type = tree[o].type /\ tree'[o].kids = tree[o].kids
    BY DEF Rewrites, SameNode
  <2>2. QED
    BY <1>1, <2>1 DEF NodeType, Kids, Expands
<1>3. Branches' = Branches /\ Types' = Types
  BY <1>2 DEF Branches, Types
<1>4. QED
  BY <1>2, <1>3 DEF Opening

LEMMA PathsKept ==
  ASSUME NEW list, Rewrites(tree, tree', list)
  PROVE  Paths' = Paths
BY TreeRevised DEF Paths

-----------------------------------------------------------------------------
(***************************************************************************)
(* The boxes of a page after the revision: those of its ancestors are      *)
(* untouched, for none of them is a leaf.                                  *)
(***************************************************************************)
Leafs(list) ==
  \A j \in 1..Len(list) : NodeType(list[j].leaf) = "Page" /\ list[j].leaf \in Objects

LEMMA AncestorsKept ==
  ASSUME NEW list, Rewrites(tree, tree', list), Leafs(list), RootIsNoLeaf,
         NEW path \in PathFrom(Types, Root), NEW i \in Ancestors(path)
  PROVE  tree'[path[i]].dict = tree[path[i]].dict /\ tree'[path[i]].compressed = tree[path[i]].compressed
         /\ path[i] \in Objects
<1>1. /\ path \in Seq(Objects) /\ Len(path) \in Nat /\ Len(path) >= 2 /\ path[1] = Root
      /\ \A k \in 2..(Len(path) - 1) : Types[path[k]] = "Pages"
  BY LenProperties DEF PathFrom
<1>2. i \in 1..Len(path) /\ (i = 1 \/ i \in 2..(Len(path) - 1))
  BY <1>1 DEF Ancestors
<1>3. path[i] \in Objects
  BY <1>1, <1>2, ElementOfSeq
<1>4. NodeType(path[i]) # "Page"
  <2>1. CASE i = 1
    BY <1>1, <2>1 DEF NodeType, RootIsNoLeaf
  <2>2. CASE i \in 2..(Len(path) - 1)
    <3>1. Types[path[i]] = "Pages"
      BY <1>1, <2>2
    <3>2. Types[path[i]] = NodeType(path[i])
      BY <1>3 DEF Types
    <3>3. QED
      BY <3>1, <3>2
  <2>3. QED
    BY <1>2, <2>1, <2>2
<1>5. \A j \in 1..Len(list) : list[j].leaf # path[i]
  BY <1>4 DEF Leafs
<1>6. QED
  BY <1>3, <1>5 DEF Rewrites, SameNode

LEMMA BoxesRewritten ==
  ASSUME NEW list, Rewrites(tree, tree', list), Leafs(list), RootIsNoLeaf,
         NEW path \in PathFrom(Types, Root), NEW kind \in BoxKinds
  PROVE  /\ OwnBox(tree'[Last(path)].dict, kind) = OwnBox(tree[Last(path)].dict, kind) =>
              EffectiveBox(path, kind)' = EffectiveBox(path, kind)
         /\ OwnBox(tree'[Last(path)].dict, kind) \in Rects =>
              EffectiveBox(path, kind)' = [rect |-> OwnBox(tree'[Last(path)].dict, kind), owner |-> Last(path)]
<1>1. \A i \in Ancestors(path) :
        tree'[path[i]].dict = tree[path[i]].dict /\ tree'[path[i]].compressed = tree[path[i]].compressed
  BY AncestorsKept
<1>2. Stating(path, kind)' = Stating(path, kind)
  BY <1>1 DEF Stating
<1>3. \A i \in Stating(path, kind) : i \in Ancestors(path)
  BY DEF Stating
<1>4. ASSUME OwnBox(tree'[Last(path)].dict, kind) = OwnBox(tree[Last(path)].dict, kind)
      PROVE  EffectiveBox(path, kind)' = EffectiveBox(path, kind)
  <2> DEFINE stating == Stating(path, kind)
             nearest == CHOOSE i \in stating : \A j \in stating : j <= i
             own == OwnBox(tree[Last(path)].dict, kind)
             above(t) == [rect |-> OwnBox(t[path[nearest]].dict, kind), owner |-> path[nearest]]
             effective(t) == IF own \in Rects THEN [rect |-> own, owner |-> Last(path)]
                             ELSE IF own = Malformed THEN Malformed
                             ELSE IF stating = {} THEN Absent
                             ELSE above(t)
  <2>1. CASE stating = {}
    BY <1>2, <1>4, <2>1, Zenon DEF EffectiveBox
  <2>2. CASE stating # {}
    <3>1. \E i \in stating : \A j \in stating : j <= i
      <4>1. PICK n \in Nat : n = Len(path)
        BY LenProperties DEF PathFrom
      <4>2. \A i \in stating : i \in Nat /\ i <= n
        BY <4>1 DEF Stating, Ancestors
      <4>3. stating \in SUBSET Nat
        BY <4>2
      <4> HIDE DEF stating
      <4>4. QED
        BY <2>2, <4>2, <4>3, GreatestElement
    <3>2. nearest \in stating
      BY <3>1
    <3>3. tree'[path[nearest]].dict = tree[path[nearest]].dict
      BY <1>1, <1>3, <3>2
    <3>4. EffectiveBox(path, kind) = effective(tree)
      BY Zenon DEF EffectiveBox
    <3>5. EffectiveBox(path, kind)' = effective(tree')
      BY <1>2, <1>4, Zenon DEF EffectiveBox
    <3>6. above(tree') = above(tree)
      BY <3>3
    <3> HIDE DEF above, own, stating
    <3>7. QED
      BY <3>4, <3>5, <3>6
  <2>3. QED
    BY <2>1, <2>2
<1>5. ASSUME OwnBox(tree'[Last(path)].dict, kind) \in Rects
      PROVE  EffectiveBox(path, kind)' = [rect |-> OwnBox(tree'[Last(path)].dict, kind), owner |-> Last(path)]
  BY <1>5 DEF EffectiveBox
<1>6. QED
  BY <1>4, <1>5

(* The page of a path, by the boxes of the path.                            *)
PageWith(leaf, index, media, crop) ==
  [page_index |-> index, leaf |-> leaf, media |-> media,
   crop |-> IF crop = Absent THEN [rect |-> media.rect, owner |-> Absent] ELSE crop]

LEMMA PageHas ==
  ASSUME NEW path, NEW index
  PROVE  PageFor(path, index) =
           PageWith(Last(path), index, EffectiveBox(path, "MediaBox"), EffectiveBox(path, "CropBox"))
BY Zenon DEF PageFor, PageWith

(* What an edit was held to when it was planned.                            *)
FitsMedia(list, e) ==
  /\ e.media \in Rects \cup {Absent} /\ e.crop \in Rects \cup {Absent}
  /\ \E c \in PagesOf(list, e.leaf) :
       /\ list[c].page_index = e.page_index
       /\ e.crop # Absent =>
            RectContains(IF e.media # Absent THEN e.media ELSE list[c].media.rect, e.crop)

ReportsEdit(e, page) ==
  /\ page.leaf = e.leaf
  /\ e.media # Absent => page.media = [rect |-> e.media, owner |-> e.leaf]
  /\ e.crop # Absent =>
       /\ page.crop = [rect |-> e.crop, owner |-> e.leaf]
       /\ RectContains(page.media.rect, page.crop.rect)

(* The one page of an edited leaf, before and after.                        *)
LEMMA EditedPageReported ==
  ASSUME NEW list, Rewrites(tree, tree', list), Leafs(list), RootIsNoLeaf,
         NEW path \in PathFrom(Types, Root), NEW j \in 1..Len(list), Last(path) = list[j].leaf,
         NEW index, NEW c, pages[c] = PageFor(path, index), FitsMedia(pages, list[j]),
         list[j].crop # Absent =>
            RectContains(IF list[j].media # Absent THEN list[j].media ELSE pages[c].media.rect, list[j].crop)
  PROVE  ReportsEdit(list[j], PageFor(path, index)')
<1> DEFINE e == list[j]
           leaf == Last(path)
           dict == tree'[Last(path)].dict
           media == EffectiveBox(path, "MediaBox")'
           crop == EffectiveBox(path, "CropBox")'
           page == PageFor(path, index)'
           was == EffectiveBox(path, "MediaBox")
<1>1. BodyHolds(tree[leaf].dict, dict, e)
  BY DEF Rewrites
<1>2. \A kind \in BoxKinds :
        OwnBox(dict, kind) = IF kind \in RequestedKinds(e) THEN Requested(e, kind)
                             ELSE OwnBox(tree[leaf].dict, kind)
  BY <1>1 DEF BodyHolds
<1>3. "MediaBox" \in BoxKinds /\ "CropBox" \in BoxKinds
  BY DEF BoxKinds
<1>4. /\ e.media \in Rects \cup {Absent} /\ e.crop \in Rects \cup {Absent}
      /\ ("MediaBox" \in RequestedKinds(e) <=> e.media # Absent)
      /\ ("CropBox" \in RequestedKinds(e) <=> e.crop # Absent)
      /\ Requested(e, "MediaBox") = e.media /\ Requested(e, "CropBox") = e.crop
  BY <1>3 DEF FitsMedia, RequestedKinds, Requested
<1>5. page = PageWith(leaf, index, media, crop) /\ pages[c].media = was
  <2>1. page = PageWith(leaf, index, media, crop)
    BY Zenon DEF PageFor, PageWith
  <2>2. pages[c].media = was
    BY PageHas DEF PageWith
  <2>3. QED
    BY <2>1, <2>2
<1>6. ASSUME e.media # Absent
      PROVE  media = [rect |-> e.media, owner |-> leaf]
  <2>1. OwnBox(dict, "MediaBox") = e.media /\ e.media \in Rects
    BY <1>2, <1>3, <1>4, <1>6
  <2>2. QED
    BY <1>3, <2>1, BoxesRewritten
<1>7. ASSUME e.media = Absent
      PROVE  media = was
  <2>1. OwnBox(dict, "MediaBox") = OwnBox(tree[leaf].dict, "MediaBox")
    BY <1>2, <1>3, <1>4, <1>7
  <2>2. QED
    BY <1>3, <2>1, BoxesRewritten
<1>8. ASSUME e.crop # Absent
      PROVE  crop = [rect |-> e.crop, owner |-> leaf]
  <2>1. OwnBox(dict, "CropBox") = e.crop /\ e.crop \in Rects
    BY <1>2, <1>3, <1>4, <1>8
  <2>2. QED
    BY <1>3, <2>1, BoxesRewritten
<1> HIDE DEF media, crop, page, was
<1>9. page.leaf = leaf /\ page.media = media
  BY <1>5 DEF PageWith
<1>10. ASSUME e.crop # Absent
       PROVE  page.crop = [rect |-> e.crop, owner |-> leaf]
  <2>1. crop \in ResolvedBox
    <3>1. e.crop \in Rects /\ leaf \in Objects
      BY <1>4, <1>10 DEF Leafs
    <3>2. QED
      BY <1>8, <1>10, <3>1 DEF ResolvedBox
  <2>2. crop # Absent
    BY <2>1, AbsentIsNoBox
  <2>3. page.crop = crop
    BY <1>5, <2>2 DEF PageWith
  <2>4. QED
    BY <1>8, <1>10, <2>3
<1>11. ASSUME e.crop # Absent
       PROVE  RectContains(page.media.rect, page.crop.rect)
  <2>1. page.media.rect = IF e.media # Absent THEN e.media ELSE pages[c].media.rect
    BY <1>5, <1>6, <1>7, <1>9
  <2>2. page.crop.rect = e.crop
    BY <1>10, <1>11
  <2>3. QED
    BY <1>11, <2>1, <2>2
<1>12. page.media = [rect |-> e.media, owner |-> leaf] \/ e.media = Absent
  BY <1>6, <1>9
<1>13. QED
  BY <1>9, <1>10, <1>11, <1>12 DEF page, ReportsEdit

-----------------------------------------------------------------------------
(***************************************************************************)
(* A call: the walk it plans on has followed the tree, and every edit it   *)
(* has planned was held to the boxes this walk reported.                   *)
(***************************************************************************)
ReopenInv ==
  /\ op # "idle" => BoxFollows
  /\ op = "plan" => boxPhase = "done"
  /\ op # "idle" => \A i \in 1..Len(edited) : FitsMedia(pages, edited[i])
  /\ ReopenReportsRequest
  /\ OtherPagesKeepBoxes

(* The page an edit names, in the walk it was planned on.                   *)
LEMMA ReportedPaths ==
  ASSUME tree \in TreeShape, BoxFollows, BoxesInv, boxPhase = "done", Truncations = {},
         NEW c \in 1..Len(pages)
  PROVE  LET index == pages[c].page_index
         IN  /\ index \in Nat /\ Paths[index + 1] \in PathFrom(Types, Root)
             /\ pages[c] = PageFor(Paths[index + 1], index)
             /\ pages[c].leaf = Last(Paths[index + 1])
             /\ pages[c].leaf \in Objects /\ NodeType(pages[c].leaf) = "Page"
<1> DEFINE index == pages[c].page_index
           path == Paths[index + 1]
<1>1. page_index = Len(Paths) /\ index < page_index /\ pages[c] = PageFor(path, index)
  BY BoxesFollowTree
<1>2. index \in Nat /\ pages[c].leaf \in Objects
  <2>1. pages[c] \in PageReport
    BY ElementOfSeq DEF BoxesInv, StatedPages
  <2>2. QED
    BY <2>1 DEF PageReport
<1>3. path \in PathFrom(Types, Root)
  <2>1. Branches \in [Objects -> Seq(Objects)]
    BY BranchesTyped
  <2>2. Len(Paths) \in Nat
    BY <2>1, PathsTyped, LenProperties DEF PathSeq, Paths
  <2>3. index + 1 \in 1..Len(Paths)
    BY <1>1, <1>2, <2>2
  <2> DEFINE k == index + 1
  <2> HIDE DEF k
  <2>4. PathsOf(Branches, Types)[k] \in PathFrom(Types, Root)
    BY <2>1, <2>3, PathShape DEF k, Paths
  <2>5. QED
    BY <2>4 DEF k, Paths
<1>4. pages[c].leaf = Last(path)
  BY <1>1, PageHas DEF PageWith
<1>5. NodeType(pages[c].leaf) = "Page"
  <2>1. Last(path) = path[Len(path)]
    BY DEF Last
  <2>2. Types[path[Len(path)]] = "Page"
    BY <1>3 DEF PathFrom
  <2>3. Types[pages[c].leaf] = "Page"
    BY <1>4, <2>1, <2>2
  <2>4. QED
    BY <1>2, <2>3 DEF Types
<1>6. QED
  BY <1>1, <1>2, <1>3, <1>4, <1>5

LEMMA RevisionReports ==
  ASSUME CallsInv, EditsInv, ReopenInv, Write, EditsInv'
  PROVE  ReopenReportsRequest' /\ OtherPagesKeepBoxes'
<1> SUFFICES ASSUME Truncations' = {}, NoCollision', RootIsNoLeaf'
             PROVE  ReopenReportsRequest' /\ OtherPagesKeepBoxes'
  BY DEF ReopenReportsRequest, OtherPagesKeepBoxes
<1>1. /\ op = "plan" /\ edited' = Sorted(edited) /\ before' = before
      /\ pages' = pages /\ boxSkips' = boxSkips
  BY DEF Write, boxVars
<1>2. /\ tree = before /\ Apart(edited) /\ \A i \in 1..Len(edited) : edited[i].page_index \in Nat
  BY <1>1 DEF CallsInv, Answers
<1>3. /\ tree \in TreeShape /\ tree' \in TreeShape /\ BoxesInv /\ Len(pages) \in Nat
      /\ \A i \in 1..Len(edited) : PlannedFor(tree, pages, edited[i], dirty[i])
  BY <1>1, LenProperties DEF EditsInv, BoxesInv
<1>4. BoxFollows /\ boxPhase = "done" /\ \A i \in 1..Len(edited) : FitsMedia(pages, edited[i])
  BY <1>1 DEF ReopenInv
<1>5. Truncations = {}
  BY <1>1 DEF Truncations
<1>6. /\ Len(edited') = Len(edited)
      /\ \A k \in 1..Len(edited) : \E j \in 1..Len(edited) : edited'[k] = edited[j]
      /\ \A j \in 1..Len(edited) : \E k \in 1..Len(edited) : edited'[k] = edited[j]
  <2>1. PICK S : edited \in Seq(S)
    BY DEF CallsInv, CallTypes
  <2>2. QED
    BY <1>1, <1>2, <2>1, SortedAscends
<1>7. \A j \in 1..Len(edited) : ~Collides(edited[j])
  <2> TAKE j \in 1..Len(edited)
  <2>1. PICK k \in 1..Len(edited') : edited'[k] = edited[j]
    BY <1>6
  <2>2. ~Collides(edited[k])'
    BY DEF NoCollision
  <2>3. Collides(edited[k])' <=> Collides(edited[j])
    BY <1>1, <2>1 DEF Collides, RequestedKinds, Requested
  <2>4. QED
    BY <2>2, <2>3
<1>8. Rewrites(tree, tree', edited)
  BY <1>3, <1>7, RevisionRewrites
<1>9. Paths' = Paths
  BY <1>8, PathsKept
<1>10. RootIsNoLeaf
  BY <1>8, RootIsObject DEF Rewrites, SameNode, RootIsNoLeaf
<1>11. \A c \in 1..Len(pages) :
         LET index == pages[c].page_index
         IN  /\ index \in Nat /\ Paths[index + 1] \in PathFrom(Types, Root)
             /\ pages[c] = PageFor(Paths[index + 1], index)
             /\ pages[c].leaf = Last(Paths[index + 1])
             /\ pages[c].leaf \in Objects /\ NodeType(pages[c].leaf) = "Page"
  BY <1>3, <1>4, <1>5, ReportedPaths
<1>12. Leafs(edited)
  <2>1. ASSUME NEW j \in 1..Len(edited)
        PROVE  \E c \in 1..Len(pages) : pages[c].leaf = edited[j].leaf
    BY <1>4 DEF FitsMedia, PagesOf
  <2>2. QED
    BY <1>11, <2>1 DEF Leafs
<1>13. ASSUME NEW k \in 1..Len(edited')
       PROVE  \E path, index :
                /\ index = edited'[k].page_index /\ path = Paths'[edited'[k].page_index + 1]
                /\ ReportsEdit(edited'[k], PageFor(path, index)')
  <2>1. PICK j \in 1..Len(edited) : edited'[k] = edited[j]
    BY <1>6
  <2>2. FitsMedia(pages, edited[j])
    BY <1>4
  <2>3. PICK c \in PagesOf(pages, edited[j].leaf) :
          /\ pages[c].page_index = edited[j].page_index
          /\ edited[j].crop # Absent =>
               RectContains(IF edited[j].media # Absent THEN edited[j].media ELSE pages[c].media.rect,
                            edited[j].crop)
    BY <2>2 DEF FitsMedia
  <2>4. c \in 1..Len(pages) /\ pages[c].leaf = edited[j].leaf
    BY <2>3 DEF PagesOf
  <2>5. PICK path, index :
          /\ index = pages[c].page_index /\ path = Paths[index + 1]
          /\ path \in PathFrom(Types, Root) /\ pages[c] = PageFor(path, index)
          /\ Last(path) = edited[j].leaf
    BY <1>11, <2>4
  <2>6. ReportsEdit(edited[j], PageFor(path, index)')
    BY <1>8, <1>10, <1>12, <2>2, <2>3, <2>5, EditedPageReported
  <2>7. index = edited'[k].page_index
    BY <2>1, <2>3, <2>5
  <2>8. path = Paths'[edited'[k].page_index + 1]
    BY <1>9, <2>5, <2>7
  <2>9. ReportsEdit(edited'[k], PageFor(path, index)')
    BY <2>1, <2>6
  <2>10. QED
    BY <2>7, <2>8, <2>9
<1>14. ASSUME NEW c \in 1..Len(pages), pages[c].page_index \notin EditedIndexes'
       PROVE  \E path, index :
                /\ index = pages'[c].page_index /\ path = Paths'[pages'[c].page_index + 1]
                /\ pages'[c] = PageFor(path, index)'
  <2>1. PICK path, index :
          /\ index = pages[c].page_index /\ path = Paths[index + 1]
          /\ path \in PathFrom(Types, Root) /\ pages[c] = PageFor(path, index)
          /\ Last(path) = pages[c].leaf /\ pages[c].leaf \in Objects
    BY <1>11
  <2>2. ASSUME NEW j \in 1..Len(edited), edited[j].leaf = pages[c].leaf
        PROVE  FALSE
    <3>1. PICK k \in 1..Len(edited') : edited'[k] = edited[j]
      BY <1>6
    <3>2. edited[j].page_index \in EditedIndexes'
      BY <3>1 DEF EditedIndexes
    <3>3. /\ Cardinality(PagesOf(pages, edited[j].leaf)) = 1
          /\ \E d \in PagesOf(pages, edited[j].leaf) : pages[d].page_index = edited[j].page_index
      BY <1>3 DEF PlannedFor
    <3>4. \E d \in PagesOf(pages, pages[c].leaf) : pages[d].page_index = pages[c].page_index
      BY DEF PagesOf
    <3>5. edited[j].page_index = pages[c].page_index
      BY <1>3, <2>2, <3>3, <3>4, LeavesDiffer
    <3>6. QED
      BY <1>14, <3>2, <3>5
  <2>3. tree'[Last(path)].dict = tree[Last(path)].dict
    BY <1>8, <2>1, <2>2 DEF Rewrites
  <2>4. \A kind \in BoxKinds : EffectiveBox(path, kind)' = EffectiveBox(path, kind)
    BY <1>8, <1>10, <1>12, <2>1, <2>3, BoxesRewritten
  <2>5. PageFor(path, index)' = PageFor(path, index)
    <3>1. "MediaBox" \in BoxKinds /\ "CropBox" \in BoxKinds
      BY DEF BoxKinds
    <3>2. EffectiveBox(path, "MediaBox")' = EffectiveBox(path, "MediaBox")
          /\ EffectiveBox(path, "CropBox")' = EffectiveBox(path, "CropBox")
      BY <2>4, <3>1
    <3>3. QED
      BY <3>2, Zenon DEF PageFor
  <2>6. pages'[c] = PageFor(path, index)'
    BY <1>1, <2>1, <2>5
  <2>7. index = pages'[c].page_index /\ path = Paths'[pages'[c].page_index + 1]
    BY <1>1, <1>9, <2>1
  <2>8. QED
    BY <2>6, <2>7
<1>15. ReopenReportsRequest'
  <2>1. ASSUME NEW k \in 1..Len(edited')
        PROVE  ReportsEdit(edited[k], PageFor(Paths[edited[k].page_index + 1], edited[k].page_index))'
    BY <1>13
  <2>2. QED
    BY <2>1 DEF ReopenReportsRequest, ReportsEdit
<1>16. OtherPagesKeepBoxes'
  BY <1>1, <1>14 DEF OtherPagesKeepBoxes
<1>17. QED
  BY <1>15, <1>16

LEMMA ReopenStarts ==
  ASSUME ReopenInv, Call
  PROVE  ReopenInv'
<1>1. /\ ForgetWalks /\ edited' = <<>> /\ op' \in {"idle", "inspect"} /\ result' # "ok"
  <2>1. PICK edits \in Requests :
          /\ edited' = <<>> /\ ForgetWalks
          /\ IF Erroneous(edits) = {}
             THEN op' = "inspect" /\ result' = "none"
             ELSE op' = "idle" /\ result' = EditError(edits, Min(Erroneous(edits)))
    BY DEF Call
  <2>2. ASSUME Erroneous(edits) # {}
        PROVE  EditError(edits, Min(Erroneous(edits))) # "ok"
    <3>1. Erroneous(edits) \in SUBSET Nat
      BY DEF Erroneous
    <3>2. \E i \in Erroneous(edits) : \A j \in Erroneous(edits) : i <= j
      BY <2>2, <3>1, LeastElement
    <3>3. Min(Erroneous(edits)) \in Erroneous(edits)
      BY <3>2 DEF Min
    <3>4. QED
      BY <3>3 DEF Erroneous, EditError
  <2>3. QED
    BY <2>1, <2>2
<1>2. BoxFollows'
  <2>1. boxPhase' = "idle" /\ boxFrames' = <<>> /\ page_index' = 0 /\ pages' = <<>> /\ boxSkips' = <<>>
    BY <1>1 DEF ForgetWalks
  <2>2. QED
    BY <2>1 DEF BoxFollows
<1>3. ReopenReportsRequest' /\ OtherPagesKeepBoxes'
  BY <1>1 DEF ReopenReportsRequest, OtherPagesKeepBoxes
<1>4. QED
  BY <1>1, <1>2, <1>3 DEF ReopenInv

LEMMA ReopenStays ==
  ASSUME CallsInv, EditsInv, ReopenInv, UNCHANGED setVars
  PROVE  ReopenInv'
<1>1. /\ UNCHANGED <<op, request, edited, dirty, result, before, tree, boxVars>>
      /\ pages' = pages /\ boxPhase' = boxPhase /\ boxSkips' = boxSkips
  BY DEF setVars, callVars, vars, boxVars
<1>2. op' # "idle" => BoxFollows'
  BY <1>1, BoxesStay DEF ReopenInv, EditsInv
<1>3. op' # "idle" => (\A i \in 1..Len(edited) : FitsMedia(pages, edited[i]))'
  BY <1>1 DEF ReopenInv
<1>4. Paths' = Paths /\ \A path, k : PageFor(path, k)' = PageFor(path, k)
  BY <1>1, TreeKept, ReportsKept DEF Paths
<1>5. Truncations' = Truncations /\ EditedIndexes' = EditedIndexes /\ (RootIsNoLeaf' <=> RootIsNoLeaf)
  BY <1>1 DEF Truncations, EditedIndexes, RootIsNoLeaf
<1>6. NoCollision' <=> NoCollision
  <2>1. \A e : Collides(e)' <=> Collides(e)
    BY <1>1 DEF Collides
  <2>2. QED
    BY <1>1, <2>1 DEF NoCollision
<1>7. \A path, k : PageFor(path, k)' = PageFor(path, k)
  BY <1>4
<1>8. ReopenReportsRequest'
  <2>1. SUFFICES ASSUME (result = "ok" /\ Truncations = {} /\ NoCollision /\ RootIsNoLeaf)',
                        NEW k \in 1..Len(edited)
                 PROVE  ReportsEdit(edited[k], PageFor(Paths[edited[k].page_index + 1], edited[k].page_index))'
    BY <1>1 DEF ReopenReportsRequest, ReportsEdit
  <2>2. ReportsEdit(edited[k], PageFor(Paths[edited[k].page_index + 1], edited[k].page_index))
    BY <1>1, <1>5, <1>6, <2>1 DEF ReopenInv, ReopenReportsRequest, ReportsEdit
  <2>3. PICK path, index : index = edited[k].page_index /\ path = Paths[edited[k].page_index + 1]
    OBVIOUS
  <2>4. ReportsEdit(edited[k], PageFor(path, index))
    BY <2>2, <2>3
  <2>5. ReportsEdit(edited[k], PageFor(path, index)')
    BY <1>7, <2>4
  <2>6. QED
    BY <1>1, <1>4, <2>3, <2>5
<1>9. OtherPagesKeepBoxes'
  <2>1. SUFFICES ASSUME (result = "ok" /\ Truncations = {} /\ NoCollision /\ RootIsNoLeaf)',
                        NEW i \in 1..Len(pages), pages[i].page_index \notin EditedIndexes
                 PROVE  pages[i] = PageFor(Paths[pages[i].page_index + 1], pages[i].page_index)'
    BY <1>1, <1>5 DEF OtherPagesKeepBoxes
  <2>2. pages[i] = PageFor(Paths[pages[i].page_index + 1], pages[i].page_index)
    BY <1>1, <1>5, <1>6, <2>1 DEF ReopenInv, OtherPagesKeepBoxes
  <2>3. PICK path, index : index = pages[i].page_index /\ path = Paths[pages[i].page_index + 1]
    OBVIOUS
  <2>4. pages[i] = PageFor(path, index)'
    BY <1>7, <2>2, <2>3
  <2>5. QED
    BY <1>1, <1>4, <2>3, <2>4
<1>10. QED
  BY <1>1, <1>2, <1>3, <1>8, <1>9 DEF ReopenInv

LEMMA PlansFit ==
  ASSUME CallsInv, EditsInv, ReopenInv, PlanEdit
  PROVE  ReopenInv'
<1>1. PICK m \in 1..Len(request) :
        LET edit == request[m]
            page == PageAt(edit.page_index)
        IN  /\ Planning(edit) /\ PagesAt(edit.page_index) # {} /\ PlanError(edit) = Absent
            /\ edited' = Append(edited, EntryOf(edit, page.leaf))
            /\ UNCHANGED <<op, result>> /\ UNCHANGED vars
  BY DEF PlanEdit, EntryOf
<1> DEFINE edit == request[m]
           page == PageAt(edit.page_index)
           e == EntryOf(edit, page.leaf)
           n == Len(edited)
<1>2. /\ op = "plan" /\ PagesAt(edit.page_index) # {} /\ PlanError(edit) = Absent
      /\ edited' = Append(edited, e)
      /\ UNCHANGED <<op, result, tree, boxVars>> /\ pages' = pages /\ boxPhase' = boxPhase
  BY <1>1 DEF Planning, vars, boxVars
<1>3. request \in Seq(AskingEdit) /\ BoxesInv /\ BoxFollows /\ boxPhase = "done"
      /\ \A i \in 1..Len(edited) : FitsMedia(pages, edited[i])
  BY <1>2 DEF EditsInv, ReopenInv
<1>4. edit \in AskingEdit
  BY <1>3, ElementOfSeq
<1>5. PICK c \in PagesAt(edit.page_index) : page = pages[c]
  BY <1>2 DEF PageAt
<1>6. c \in PagesOf(pages, page.leaf) /\ pages[c].page_index = edit.page_index
  BY <1>5 DEF PagesAt, PagesOf
<1>7. FitsMedia(pages, e)
  <2>1. /\ e.leaf = page.leaf /\ e.page_index = edit.page_index
        /\ e.media = NormalizedOption(edit.media) /\ e.crop = NormalizedOption(edit.crop)
    BY DEF EntryOf
  <2>2. /\ e.media \in Rects \cup {Absent} /\ e.crop \in Rects \cup {Absent}
        /\ edit.media # Absent <=> e.media # Absent
        /\ edit.crop # Absent <=> e.crop # Absent
    BY <1>2, <1>4, <2>1, CheckedEdit
  <2>3. ASSUME e.crop # Absent
        PROVE  RectContains(IF e.media # Absent THEN e.media ELSE pages[c].media.rect, e.crop)
    <3>1. edit.crop # Absent
      BY <2>2, <2>3
    <3>2. RectContains(MediaBound(edit), Normalized(edit.crop))
      <4>1. "CropOutsideMedia" # Absent
        BY AbsentIsNoError DEF CallErrors
      <4>2. QED
        BY <1>2, <3>1, <4>1 DEF PlanError
    <3>3. e.crop = Normalized(edit.crop)
      BY <2>1, <3>1 DEF NormalizedOption
    <3>4. MediaBound(edit) = IF e.media # Absent THEN e.media ELSE pages[c].media.rect
      BY <1>5, <2>1, <2>2 DEF MediaBound, NormalizedOption
    <3>5. QED
      BY <3>2, <3>3, <3>4
  <2>4. QED
    BY <1>6, <2>1, <2>2, <2>3 DEF FitsMedia
<1> HIDE DEF e
<1>8. PICK S : edited \in Seq(S)
  BY DEF CallsInv, CallTypes
<1>9. /\ n \in Nat /\ Len(edited') = n + 1 /\ edited'[n + 1] = e
      /\ \A i \in 1..n : edited'[i] = edited[i]
  BY <1>2, <1>8, OneMore
<1>10. \A i \in 1..Len(edited') : FitsMedia(pages, edited'[i])
  <2>1. \A i \in 1..(n + 1) : i \in 1..n \/ i = n + 1
    BY <1>9
  <2> HIDE DEF n
  <2>2. ASSUME NEW i \in 1..(n + 1)
        PROVE  FitsMedia(pages, edited'[i])
    <3>1. CASE i \in 1..n
      BY <1>3, <1>9, <3>1 DEF n
    <3>2. CASE i = n + 1
      BY <1>7, <1>9, <3>2
    <3>3. QED
      BY <2>1, <3>1, <3>2
  <2>3. QED
    BY <1>9, <2>2
<1>11. BoxFollows'
  BY <1>2, <1>3, BoxesStay
<1>12. \A i \in 1..Len(edited') : FitsMedia(pages, edited[i])'
  BY <1>2, <1>10 DEF FitsMedia
<1>13. result' = "none"
  BY <1>2 DEF CallsInv
<1>14. ReopenReportsRequest' /\ OtherPagesKeepBoxes'
  BY <1>13 DEF ReopenReportsRequest, OtherPagesKeepBoxes
<1>15. QED
  BY <1>2, <1>3, <1>11, <1>12, <1>14 DEF ReopenInv

LEMMA ReopenInvariant == SetSpec => []ReopenInv
<1>1. SetInit => ReopenInv
  BY DEF SetInit, ReopenInv, ReopenReportsRequest, OtherPagesKeepBoxes
<1>2. ASSUME CallsInv, EditsInv, EditsInv', ReopenInv, [SetNext]_setVars
      PROVE  ReopenInv'
  <2>1. ASSUME op # "idle", result' # "ok", op' # "idle" => BoxFollows' /\ boxPhase' = boxPhase,
               op' = "plan" => boxPhase = "done",
               UNCHANGED edited, pages' = pages \/ op = "inspect"
        PROVE  ReopenInv'
    <3>1. op' # "idle" => \A i \in 1..Len(edited') : FitsMedia(pages, edited[i])'
      <4>1. CASE op = "inspect"
        BY <1>2, <2>1, <4>1 DEF EditsInv
      <4>2. CASE op # "inspect"
        BY <1>2, <2>1, <4>2 DEF ReopenInv, FitsMedia
      <4>3. QED
        BY <4>1, <4>2
    <3>2. ReopenReportsRequest' /\ OtherPagesKeepBoxes'
      BY <2>1 DEF ReopenReportsRequest, OtherPagesKeepBoxes
    <3>3. QED
      BY <1>2, <2>1, <3>1, <3>2 DEF ReopenInv
  <2>2. op # "idle" => result = "none" /\ BoxesInv /\ BoxFollows
    BY <1>2 DEF CallsInv, EditsInv, ReopenInv
  <2>3. ASSUME op # "idle", UNCHANGED <<tree, boxVars>>
        PROVE  pages' = pages /\ boxPhase' = boxPhase /\ BoxFollows'
    BY <2>2, <2>3, BoxesStay DEF boxVars
  <2>4. CASE Call
    BY <1>2, <2>4, ReopenStarts
  <2>5. CASE Inspect
    <3>1. op = "inspect" /\ UNCHANGED <<op, edited, result>>
      BY <2>5 DEF Inspect, callVars
    <3>2. BoxFollows'
      <4>1. CASE EnumerateLeaves
        BY <2>3, <3>1, <4>1 DEF EnumerateLeaves, LeafStep, StartLeaves, EmitLeaf, SkipKid,
           StopDescent, Descend, ReturnFromNode
      <4>2. CASE InspectBoxes
        BY <2>2, <3>1, <4>2, BoxStepsFollow DEF InspectBoxes
      <4>3. QED
        BY <2>5, <4>1, <4>2 DEF Inspect
    <3>3. ReopenReportsRequest' /\ OtherPagesKeepBoxes'
      BY <2>2, <3>1 DEF ReopenReportsRequest, OtherPagesKeepBoxes
    <3>4. \A i \in 1..Len(edited') : FitsMedia(pages, edited[i])'
      BY <1>2, <3>1 DEF EditsInv
    <3>5. QED
      BY <3>1, <3>2, <3>3, <3>4 DEF ReopenInv
  <2>6. CASE StartPlanning
    <3>1. op = "inspect" /\ op' = "plan" /\ boxPhase = "done" /\ UNCHANGED <<edited, result, tree, boxVars>>
      BY <2>6 DEF StartPlanning, vars
    <3>2. QED
      BY <2>1, <2>2, <2>3, <3>1
  <2>7. ASSUME NEW reason, reason # "ok", op # "idle", Fail(reason)
        PROVE  ReopenInv'
    <3>1. op' = "idle" /\ result' = reason /\ UNCHANGED <<edited, tree, boxVars>>
      BY <2>7 DEF Fail, vars
    <3>2. QED
      BY <2>1, <2>3, <2>7, <3>1
  <2>8. CASE FailInspection \/ RefuseWrite
    BY <2>7, <2>8 DEF FailInspection, RefuseWrite
  <2>9. CASE FailPlan
    <3>1. PICK edit : op = "plan" /\ PlanError(edit) # Absent /\ Fail(PlanError(edit))
      BY <2>9 DEF FailPlan, Planning
    <3>2. PlanError(edit) # "ok"
      BY <3>1 DEF PlanError, BoxError
    <3>3. QED
      BY <2>7, <3>1, <3>2
  <2>10. CASE SkipUnreported \/ SkipUnowned
    <3>1. PICK edit, reason : Planning(edit) /\ Skip(edit, reason)
      BY <2>10, Zenon DEF SkipUnreported, SkipUnowned
    <3>2. op = "plan" /\ UNCHANGED <<op, edited, result, tree, boxVars>>
      BY <3>1 DEF Planning, Skip, vars
    <3>3. boxPhase = "done"
      BY <1>2, <3>2 DEF ReopenInv
    <3>4. QED
      BY <2>1, <2>2, <2>3, <3>2, <3>3
  <2>11. CASE PlanEdit
    BY <1>2, <2>11, PlansFit
  <2>12. CASE Write
    <3>1. op' = "idle"
      BY <2>12 DEF Write
    <3>2. QED
      BY <1>2, <2>12, <3>1, RevisionReports DEF ReopenInv
  <2>13. CASE UNCHANGED setVars
    BY <1>2, <2>13, ReopenStays
  <2>14. QED
    BY <1>2, <2>4, <2>5, <2>6, <2>8, <2>9, <2>10, <2>11, <2>12, <2>13 DEF SetNext, Progress
<1>3. QED
  BY <1>1, <1>2, CallsInvariant, EditsInvariant, PTL DEF SetSpec

(***************************************************************************)
(* For every document whose page-tree root is no leaf and every request    *)
(* whose edits do not collide: the revised document, inspected again, has  *)
(* each requested box at the index it was requested for, and a requested   *)
(* crop box inside the media box the page then has.                        *)
(***************************************************************************)
THEOREM ReopenAlwaysReportsRequest == SetSpec => []ReopenReportsRequest
<1>1. ReopenInv => ReopenReportsRequest
  BY DEF ReopenInv
<1>2. QED
  BY <1>1, ReopenInvariant, PTL

(***************************************************************************)
(* For every such document and request: each page that was not edited      *)
(* still has the index, the leaf and the boxes, inherited ones included,   *)
(* that the call's own inspection reported.                                *)
(***************************************************************************)
THEOREM OtherPagesAlwaysKeepBoxes == SetSpec => []OtherPagesKeepBoxes
<1>1. ReopenInv => OtherPagesKeepBoxes
  BY DEF ReopenInv
<1>2. QED
  BY <1>1, ReopenInvariant, PTL

-----------------------------------------------------------------------------
(***************************************************************************)
(* An edit of a box to what the dictionary states already writes the       *)
(* tokens that are there.                                                  *)
(***************************************************************************)
LEMMA SpliceRestates ==
  ASSUME NEW dict \in Seq(Token), Readable(dict), NEW kind \in BoxKinds, NEW rect \in Rects,
         OwnBox(dict, kind) = rect, NEW box, NEW leaf, OwnedBox(dict, leaf, kind, box)
  PROVE  Splice(dict, BodyEdit(dict, kind, box, leaf, rect)) = dict
<1> DEFINE e == BodyEdit(dict, kind, box, leaf, rect)
           new == Splice(dict, e)
<1>1. PICK k \in Nat \ {0} : KeyIndexes(dict, kind) = {k}
  BY OwnBoxIs
<1>2. box.owner = leaf
  BY <1>1 DEF OwnedBox
<1>3. Min(KeyIndexes(dict, kind)) = k
  BY <1>1 DEF Min
<1>4. EditIs(e, k - 1, k + 1, <<Key(kind), Value(rect)>>)
  <2>1. (k - 1) + 2 = k + 1
    OBVIOUS
  <2>2. QED
    BY <1>2, <1>3, <2>1 DEF BodyEdit, EditIs
<1>5. k \in 1..Len(dict) /\ dict[k] = Key(kind)
  BY <1>1 DEF KeyIndexes
<1>6. k + 1 \in 1..Len(dict) /\ dict[k + 1].tag = "value" /\ k + 1 <= Len(dict)
  BY <1>5, TokenTags, LenProperties DEF Readable
<1>7. dict[k + 1] = Value(rect)
  <2>1. OwnBox(dict, kind) = dict[k + 1].box
    <3>1. k \in KeyIndexes(dict, kind) /\ \A i \in KeyIndexes(dict, kind) : i = k
      BY <1>1
    <3>2. QED
      BY <3>1, OwnBoxOfOne
  <2>2. dict[k + 1] \in Token
    BY <1>6, ElementOfSeq
  <2>3. \E was \in Rects \cup {Malformed} : dict[k + 1] = Value(was)
    BY <1>6, <2>2 DEF Token, Key, Gap, Rest
  <2>4. PICK was \in Rects \cup {Malformed} : dict[k + 1] = Value(was)
    BY <2>3
  <2>5. was = rect
    BY <2>1, <2>4 DEF Value
  <2>6. QED
    BY <2>4, <2>5
<1>8. Key(kind) \in Token /\ Value(rect) \in Token
  BY TokenTags
<1> HIDE DEF e
<1>9. Replaced(dict, Splice(dict, e), k, Value(rect))
  BY <1>4, <1>5, <1>6, <1>8, SpliceReplaces, Zenon
<1>10. /\ new \in Seq(Token) /\ Len(new) = Len(dict)
       /\ new[k + 1] = Value(rect) /\ \A i \in 1..Len(dict) : i # k + 1 => new[i] = dict[i]
  BY <1>9, Zenon DEF Replaced
<1>11. new = dict
  <2> HIDE DEF new
  <2>1. PICK n \in Nat : n = Len(dict)
    BY LenProperties
  <2>2. new = [i \in 1..n |-> new[i]] /\ dict = [i \in 1..n |-> dict[i]]
    BY <1>10, <2>1, SeqDef
  <2>3. \A i \in 1..n : new[i] = dict[i]
    BY <1>7, <1>10, <2>1
  <2>4. QED
    BY <2>2, <2>3
<1>12. QED
  BY <1>11 DEF e

(* An edit holds of a dictionary that states every box it asks for.         *)
StatesRequest(dict, edit) ==
  /\ edit.media # Absent => OwnBox(dict, "MediaBox") = NormalizedOption(edit.media)
  /\ edit.crop # Absent => OwnBox(dict, "CropBox") = NormalizedOption(edit.crop)

LEMMA EditedBodyRestates ==
  ASSUME NEW dict \in Seq(Token), Readable(dict), NEW page, NEW edit,
         OwnedBox(dict, page.leaf, "MediaBox", page.media),
         OwnedBox(dict, page.leaf, "CropBox", page.crop),
         edit.media # Absent => NormalizedOption(edit.media) \in Rects,
         edit.crop # Absent => NormalizedOption(edit.crop) \in Rects,
         edit.media # Absent \/ edit.crop # Absent,
         StatesRequest(dict, edit)
  PROVE  EditedBody(dict, page, edit) = dict
<1> DEFINE media == BodyEdit(dict, "MediaBox", page.media, page.leaf, Normalized(edit.media))
           crop == BodyEdit(dict, "CropBox", page.crop, page.leaf, Normalized(edit.crop))
<1>1. "MediaBox" \in BoxKinds /\ "CropBox" \in BoxKinds
  BY DEF BoxKinds
<1>2. ASSUME edit.media # Absent
      PROVE  Splice(dict, media) = dict
  <2>1. Normalized(edit.media) \in Rects /\ OwnBox(dict, "MediaBox") = Normalized(edit.media)
    BY <1>2 DEF NormalizedOption, StatesRequest
  <2>2. QED
    BY <1>1, <2>1, SpliceRestates
<1>3. ASSUME edit.crop # Absent
      PROVE  Splice(dict, crop) = dict
  <2>1. Normalized(edit.crop) \in Rects /\ OwnBox(dict, "CropBox") = Normalized(edit.crop)
    BY <1>3 DEF NormalizedOption, StatesRequest
  <2>2. QED
    BY <1>1, <2>1, SpliceRestates
<1>4. EditedBody(dict, page, edit) =
        IF edit.crop = Absent THEN Splice(dict, media)
        ELSE IF edit.media = Absent THEN Splice(dict, crop)
        ELSE IF AppliedBefore(crop, media) THEN Splice(Splice(dict, crop), media)
        ELSE Splice(Splice(dict, media), crop)
  BY Zenon DEF EditedBody
<1> HIDE DEF media, crop
<1>5. QED
  BY <1>2, <1>3, <1>4

-----------------------------------------------------------------------------
(***************************************************************************)
(* What is left of a call that wrote: the walk of its document ends with   *)
(* one trail, and each edit asked for is stated by the leaf it names, or   *)
(* will not be made by a second call either.                               *)
(***************************************************************************)
Ended(trail) == trail \in Seq(PathFrom(Types, Root)) /\ \E seen : Arrives(<<>>, seen, trail)

OnlyUse(trail, k) ==
  \A i \in 1..Len(trail) : Editable(trail[i]) /\ Last(trail[i]) = Last(trail[k]) => i = k

Settled(edit, trail) ==
  LET k == edit.page_index + 1
  IN  k \in 1..Len(trail) /\ Editable(trail[k]) /\ OnlyUse(trail, k)
        /\ tree[Last(trail[k])].parent # Absent
      => StatesRequest(tree[Last(trail[k])].dict, edit)

Answering(edit, e) ==
  /\ e = EntryOf(edit, e.leaf)
  /\ edit.media # Absent => e.media # Absent
  /\ edit.crop # Absent => e.crop # Absent

(* What has become of an edit asked for.                                    *)
EditMade(edit) ==
  \/ \E j \in 1..Len(edited) : Answering(edit, edited[j])
  \/ PagesAt(edit.page_index) = {}
  \/ \E c \in PagesAt(edit.page_index) : ~Owned(pages[c].leaf)

RepeatInv ==
  /\ op # "idle" => BoxTrips
  /\ op = "inspect" => Planned = 0
  /\ op # "idle" => \A i \in 1..Planned : EditMade(request[i])
  /\ repeated # <<>> /\ RootIsNoLeaf =>
       \E trail : Ended(trail) /\ \A k \in 1..Len(repeated) : Settled(repeated[k], trail)
  /\ op = "plan" /\ request = repeated /\ RootIsNoLeaf =>
       \A i \in 1..Len(dirty) : dirty[i].body = tree[dirty[i].leaf].dict

LEMMA EndedAlike ==
  ASSUME NEW one, NEW two, Ended(one), Ended(two)
  PROVE  one = two
<1>1. PICK seen : HasTrip(Branches, Types, Opening, Spot(CallsOf(<<>>), seen, one))
  BY DEF Ended, Arrives
<1>2. PICK met : HasTrip(Branches, Types, Opening, Spot(CallsOf(<<>>), met, two))
  BY DEF Ended, Arrives
<1> DEFINE none == CallsOf(<<>>)
<1>3. Len(none) = 0
  <2>1. Len(<<>>) = 0
    OBVIOUS
  <2>2. QED
    BY <2>1, CallsSame
<1> HIDE DEF none
<1> DEFINE c == Spot(none, seen, one)
           d == Spot(none, met, two)
<1>4. c.stack = none /\ d.stack = none /\ c.trail = one /\ d.trail = two
  BY DEF Spot
<1>5. HasTrip(Branches, Types, Opening, c) /\ HasTrip(Branches, Types, Opening, d)
  BY <1>1, <1>2 DEF none
<1> HIDE DEF c, d
<1>6. c = d
  BY <1>3, <1>4, <1>5, TripsEndAlike
<1>7. QED
  BY <1>4, <1>6

(* A walk that is done has come to its end.                                 *)
LEMMA DoneIsEnded ==
  ASSUME BoxTrips, boxPhase = "done"
  PROVE  \E trail : Ended(trail) /\ Reported(pages, trail)
<1>1. PICK trail : BoxTrip(trail)
  BY DEF BoxTrips
<1>2. boxFrames = <<>>
  BY DEF BoxTrips
<1>3. Arrives(<<>>, boxVisited, trail) /\ trail \in Seq(PathFrom(Types, Root)) /\ Reported(pages, trail)
  BY <1>1, <1>2 DEF BoxTrip
<1>4. QED
  BY <1>3 DEF Ended

(* What was settled stays so while the tree does.                           *)
LEMMA SettledStays ==
  ASSUME tree' = tree
  PROVE  /\ \A trail : Ended(trail) => Ended(trail)'
         /\ \A edit, trail : Settled(edit, trail) => Settled(edit, trail)'
<1>1. /\ \A s, seen, trail : Arrives(s, seen, trail) => Arrives(s, seen, trail)'
      /\ Branches' = Branches /\ Types' = Types /\ Opening' = Opening
  BY StackKept
<1>2. \A path : Editable(path)' <=> Editable(path)
  BY ReportsKept
<1>3. ASSUME NEW trail, Ended(trail)
      PROVE  Ended(trail)'
  <2>1. PICK seen : Arrives(<<>>, seen, trail)
    BY <1>3 DEF Ended
  <2>2. Arrives(<<>>, seen, trail)'
    BY <1>1, <2>1
  <2>3. QED
    BY <1>1, <1>3, <2>2 DEF Ended
<1>4. ASSUME NEW edit, NEW trail, Settled(edit, trail)
      PROVE  Settled(edit, trail)'
  <2> DEFINE k == edit.page_index + 1
  <2>1. OnlyUse(trail, k)' <=> OnlyUse(trail, k)
    BY <1>2 DEF OnlyUse
  <2>2. Editable(trail[k])' <=> Editable(trail[k])
    BY <1>2
  <2>3. QED
    BY <1>4, <2>1, <2>2 DEF Settled
<1>5. QED
  BY <1>3, <1>4

LEMMA EditsStayMade ==
  ASSUME NEW edit, EditMade(edit), tree' = tree, pages' = pages,
         Len(edited) \in Nat, Len(edited') \in Nat, Len(edited) <= Len(edited'),
         \A j \in 1..Len(edited) : edited'[j] = edited[j]
  PROVE  EditMade(edit)'
<1>1. PagesAt(edit.page_index)' = PagesAt(edit.page_index)
  BY DEF PagesAt
<1>2. \A leaf : Owned(leaf)' <=> Owned(leaf)
  BY DEF Owned
<1>3. CASE \E j \in 1..Len(edited) : Answering(edit, edited[j])
  <2>1. PICK j \in 1..Len(edited) : Answering(edit, edited[j])
    BY <1>3
  <2>2. j \in 1..Len(edited') /\ edited'[j] = edited[j]
    BY <2>1
  <2>3. Answering(edit, edited[j])'
    BY <2>1, <2>2 DEF Answering, EntryOf, NormalizedOption, Normalized
  <2>4. QED
    BY <2>2, <2>3 DEF EditMade
<1>4. CASE PagesAt(edit.page_index) = {}
  BY <1>1, <1>4 DEF EditMade
<1>5. CASE \E c \in PagesAt(edit.page_index) : ~Owned(pages[c].leaf)
  <2>1. PICK c \in PagesAt(edit.page_index) : ~Owned(pages[c].leaf)
    BY <1>5
  <2>2. ~Owned(pages[c].leaf)'
    BY <1>2, <2>1
  <2>3. QED
    BY <1>1, <2>1, <2>2 DEF EditMade
<1>6. QED
  BY <1>3, <1>4, <1>5 DEF EditMade

(* A leaf one page was reported of ends no other path with usable boxes.    *)
LEMMA OwnedOnce ==
  ASSUME NEW trail, Reported(pages, trail), NEW c \in 1..Len(pages),
         Cardinality(PagesOf(pages, pages[c].leaf)) = 1
  PROVE  LET k == pages[c].page_index + 1
         IN  /\ k \in 1..Len(trail) /\ Editable(trail[k]) /\ OnlyUse(trail, k)
             /\ pages[c].leaf = Last(trail[k])
<1> DEFINE index == pages[c].page_index
           k == index + 1
<1>1. /\ Len(trail) \in Nat /\ Len(pages) \in Nat
      /\ \A i \in 1..Len(pages) :
           /\ pages[i].page_index \in Nat /\ pages[i].page_index < Len(trail)
           /\ pages[i] = PageFor(trail[pages[i].page_index + 1], pages[i].page_index)
      /\ \A i \in Nat : i < Len(trail) => (Editable(trail[i + 1]) <=> Slots(pages, i) # {})
  BY LenProperties DEF Reported, PathSeq
<1>8. Len(pages) \in Nat
  BY <1>1
<1>2. \A i \in 1..Len(pages) : pages[i].leaf = Last(trail[pages[i].page_index + 1])
  BY <1>1, PageHas DEF PageWith
<1>3. k \in 1..Len(trail) /\ index \in Nat /\ index < Len(trail)
  BY <1>1
<1>4. Editable(trail[k])
  <2>1. c \in Slots(pages, index)
    BY DEF Slots
  <2>2. QED
    BY <1>1, <1>3, <2>1
<1>5. ASSUME NEW i \in 1..Len(trail), Editable(trail[i]), Last(trail[i]) = Last(trail[k])
      PROVE  i = k
  <2>1. PICK n \in Nat : n + 1 = i /\ n < Len(trail)
    <3>1. i - 1 \in Nat /\ (i - 1) + 1 = i /\ i - 1 < Len(trail)
      BY <1>1
    <3>2. QED
      BY <3>1
  <2>2. PICK d \in Slots(pages, n) : TRUE
    BY <1>1, <1>5, <2>1
  <2>3. d \in 1..Len(pages) /\ pages[d].page_index = n
    BY <2>2 DEF Slots
  <2>4. pages[d].leaf = pages[c].leaf
    BY <1>2, <1>5, <2>1, <2>3
  <2>5. c \in PagesOf(pages, pages[c].leaf) /\ d \in PagesOf(pages, pages[d].leaf)
    BY <2>3 DEF PagesOf
  <2>6. pages[c].page_index = pages[d].page_index
    <3>1. PICK one, two : one = pages[c] /\ two = pages[d]
      OBVIOUS
    <3>2. /\ Cardinality(PagesOf(pages, one.leaf)) = 1 /\ one.leaf = two.leaf
          /\ \E x \in PagesOf(pages, one.leaf) : pages[x].page_index = one.page_index
          /\ \E x \in PagesOf(pages, two.leaf) : pages[x].page_index = two.page_index
      BY <2>4, <2>5, <3>1
    <3>3. one.page_index = two.page_index
      BY <1>8, <3>2, LeavesDiffer
    <3>4. QED
      BY <3>1, <3>3
  <2>7. QED
    BY <2>1, <2>3, <2>6
<1>6. OnlyUse(trail, k)
  BY <1>5 DEF OnlyUse
<1>7. QED
  BY <1>2, <1>3, <1>4, <1>6

(* No step but a write touches what was settled.                            *)
LEMMA SettledGoesOn ==
  ASSUME RepeatInv, tree' = tree, repeated' = repeated
  PROVE  repeated' # <<>> /\ RootIsNoLeaf' =>
           (\E trail : Ended(trail) /\ \A k \in 1..Len(repeated) : Settled(repeated[k], trail))'
<1>1. RootIsNoLeaf' <=> RootIsNoLeaf
  BY DEF RootIsNoLeaf
<1>2. SUFFICES ASSUME repeated # <<>>, RootIsNoLeaf
               PROVE  \E trail : Ended(trail)' /\ \A k \in 1..Len(repeated') : Settled(repeated[k], trail)'
  BY <1>1
<1>3. PICK trail : Ended(trail) /\ \A k \in 1..Len(repeated) : Settled(repeated[k], trail)
  BY <1>2 DEF RepeatInv
<1>4. Ended(trail)'
  BY <1>3, SettledStays
<1>5. ASSUME NEW k \in 1..Len(repeated)
      PROVE  Settled(repeated[k], trail)'
  <2>1. PICK edit : edit = repeated[k]
    OBVIOUS
  <2>2. Settled(edit, trail)
    BY <1>3, <2>1
  <2>3. Settled(edit, trail)'
    BY <2>2, SettledStays
  <2>4. edit = repeated'[k]
    BY <2>1
  <2>5. QED
    BY <2>3, <2>4 DEF Settled, StatesRequest
<1>6. QED
  BY <1>4, <1>5

(* An edit a second call plans states nothing new.                          *)
LEMMA SecondBodyIsTheFirst ==
  ASSUME tree \in TreeShape, BoxesInv, BoxTrips, boxPhase = "done", NEW edit \in AskingEdit,
         NEW trail, Ended(trail), Settled(edit, trail), PlanError(edit) = Absent,
         NEW c \in PagesAt(edit.page_index), Owned(pages[c].leaf)
  PROVE  EditedBody(tree[pages[c].leaf].dict, pages[c], edit) = tree[pages[c].leaf].dict
<1> DEFINE page == pages[c]
           dict == tree[page.leaf].dict
           k == edit.page_index + 1
<1>1. c \in 1..Len(pages) /\ page.page_index = edit.page_index
  BY DEF PagesAt
<1>2. Reported(pages, trail)
  <2>1. PICK walk : Ended(walk) /\ Reported(pages, walk)
    BY DoneIsEnded
  <2>2. walk = trail
    BY <2>1, EndedAlike
  <2>3. QED
    BY <2>1, <2>2
<1>3. Cardinality(PagesOf(pages, page.leaf)) = 1 /\ tree[page.leaf].parent # Absent
  BY DEF Owned, PagesOf
<1>4. /\ k \in 1..Len(trail) /\ Editable(trail[k]) /\ OnlyUse(trail, k)
      /\ page.leaf = Last(trail[k])
  <2>1. /\ page.page_index + 1 \in 1..Len(trail) /\ Editable(trail[page.page_index + 1])
        /\ OnlyUse(trail, page.page_index + 1)
        /\ page.leaf = Last(trail[page.page_index + 1])
    BY <1>1, <1>2, <1>3, OwnedOnce
  <2>2. QED
    BY <1>1, <2>1
<1>5. StatesRequest(dict, edit)
  <2>1. tree[Last(trail[k])].parent # Absent
    BY <1>3, <1>4
  <2>2. StatesRequest(tree[Last(trail[k])].dict, edit)
    BY <1>4, <2>1 DEF Settled
  <2>3. QED
    BY <1>4, <2>2
<1>6. page \in StatedPages(tree)
  BY <1>1, ElementOfSeq DEF BoxesInv
<1>7. /\ page.leaf \in Objects /\ Readable(dict)
      /\ OwnedBox(dict, page.leaf, "MediaBox", page.media)
      /\ OwnedBox(dict, page.leaf, "CropBox", page.crop)
  BY <1>6 DEF StatedPages, PageReport
<1>8. dict \in Seq(Token)
  BY <1>7, DictOf
<1>9. /\ edit.media # Absent => NormalizedOption(edit.media) \in Rects
      /\ edit.crop # Absent => NormalizedOption(edit.crop) \in Rects
      /\ edit.media # Absent \/ edit.crop # Absent
  BY CheckedEdit
<1> HIDE DEF page, dict
<1>10. EditedBody(dict, page, edit) = dict
  BY <1>5, <1>7, <1>8, <1>9, EditedBodyRestates
<1>11. QED
  BY <1>10 DEF page, dict

LEMMA PlansRepeat ==
  ASSUME CallsInv, EditsInv, ReopenInv, RepeatInv, PlanEdit
  PROVE  RepeatInv'
<1>1. PICK m \in 1..Len(request) :
        LET edit == request[m]
            page == PageAt(edit.page_index)
        IN  /\ Planning(edit) /\ PagesAt(edit.page_index) # {} /\ PlanError(edit) = Absent
            /\ Owned(page.leaf)
            /\ edited' = Append(edited, EntryOf(edit, page.leaf))
            /\ dirty' = Append(dirty, [leaf |-> page.leaf,
                                       body |-> EditedBody(tree[page.leaf].dict, page, edit)])
            /\ UNCHANGED <<op, request, skipped, result, calls, before, repeated>>
            /\ UNCHANGED vars
  BY DEF PlanEdit, EntryOf
<1> DEFINE edit == request[m]
           page == PageAt(edit.page_index)
           e == EntryOf(edit, page.leaf)
           dict == tree[page.leaf].dict
           rewritten == [leaf |-> page.leaf, body |-> EditedBody(dict, page, edit)]
           n == Len(edited)
<1>2. /\ op = "plan" /\ PagesAt(edit.page_index) # {} /\ PlanError(edit) = Absent
      /\ Owned(page.leaf) /\ Planned < Len(request) /\ edit = request[Planned + 1]
      /\ edited' = Append(edited, e) /\ dirty' = Append(dirty, rewritten)
      /\ UNCHANGED <<op, request, skipped, repeated, tree, pages, boxVars>>
  BY <1>1 DEF Planning, vars, boxVars
<1>3. /\ BoxesInv /\ request \in Seq(AskingEdit) /\ tree \in TreeShape /\ boxPhase = "done"
      /\ BoxTrips /\ \A i \in 1..Planned : EditMade(request[i])
  BY <1>2 DEF EditsInv, ReopenInv, RepeatInv
<1>4. edit \in AskingEdit
  BY <1>3, ElementOfSeq
<1>5. PICK c \in PagesAt(edit.page_index) : page = pages[c]
  BY <1>2 DEF PageAt
<1>6. /\ e.leaf = page.leaf /\ rewritten.leaf = page.leaf
      /\ rewritten.body = EditedBody(dict, page, edit)
  BY DEF EntryOf
<1>21. (edit.media # Absent => e.media # Absent) /\ (edit.crop # Absent => e.crop # Absent)
  <2>1. e.media = NormalizedOption(edit.media) /\ e.crop = NormalizedOption(edit.crop)
    BY DEF EntryOf
  <2>2. /\ edit.media # Absent <=> NormalizedOption(edit.media) # Absent
        /\ edit.crop # Absent <=> NormalizedOption(edit.crop) # Absent
    BY <1>2, <1>4, CheckedEdit
  <2>3. QED
    BY <2>1, <2>2
<1> HIDE DEF page, e, rewritten, edit
<1>7. PICK S : edited \in Seq(S)
  BY DEF CallsInv, CallTypes
<1>8. PICK T : dirty \in Seq(T)
  BY DEF CallsInv, CallTypes
<1>9. Len(dirty) = n /\ Len(skipped) \in Nat /\ Len(request) \in Nat
  BY <1>2, LenProperties DEF CallsInv, CallTypes, Answers
<1>10. /\ n \in Nat /\ Len(edited') = n + 1 /\ edited'[n + 1] = e
       /\ \A i \in 1..n : edited'[i] = edited[i]
  BY <1>2, <1>7, OneMore
<1>11. /\ Len(dirty') = n + 1 /\ dirty'[n + 1] = rewritten
       /\ \A i \in 1..n : dirty'[i] = dirty[i]
  BY <1>2, <1>8, <1>9, OneMore
<1>12. Planned' = Planned + 1 /\ Planned \in Nat
  BY <1>2, <1>9, <1>10 DEF Planned
<1>13. BoxTrips'
  BY <1>2, <1>3, TripStays
<1>14. ASSUME NEW i \in 1..Planned'
       PROVE  EditMade(request[i])'
  <2>1. CASE i \in 1..Planned
    <3>1. PICK asked : asked = request[i] /\ EditMade(asked)
      BY <1>3, <2>1
    <3>2. EditMade(asked)'
      BY <1>2, <1>10, <3>1, EditsStayMade
    <3>3. asked = request'[i]
      BY <1>2, <3>1
    <3>4. QED
      BY <3>2, <3>3 DEF EditMade, Answering, EntryOf
  <2>2. CASE i = Planned + 1
    <3>1. request'[i] = edit
      BY <1>2, <2>2
    <3>2. n + 1 \in 1..Len(edited') /\ Answering(edit, edited'[n + 1])
      BY <1>6, <1>10, <1>21 DEF e, Answering
    <3>3. QED
      BY <3>1, <3>2 DEF EditMade, Answering, EntryOf
  <2>3. QED
    BY <1>12, <2>1, <2>2
<1>15. ASSUME request = repeated, RootIsNoLeaf, NEW i \in 1..Len(dirty')
       PROVE  dirty'[i].body = tree[dirty'[i].leaf].dict
  <2>1. CASE i \in 1..n
    <3>1. dirty[i].body = tree[dirty[i].leaf].dict
      BY <1>2, <1>9, <1>15, <2>1 DEF RepeatInv
    <3>2. QED
      BY <1>11, <2>1, <3>1
  <2>2. CASE i = n + 1
    <3>1. m \in 1..Len(repeated) /\ repeated[m] = edit /\ repeated # <<>>
      BY <1>15 DEF edit
    <3>2. PICK trail : Ended(trail) /\ \A k \in 1..Len(repeated) : Settled(repeated[k], trail)
      BY <1>15, <3>1 DEF RepeatInv
    <3>3. Settled(edit, trail)
      BY <3>1, <3>2
    <3>4. EditedBody(dict, page, edit) = dict
      <4>1. Owned(pages[c].leaf)
        BY <1>2, <1>5
      <4>2. EditedBody(tree[pages[c].leaf].dict, pages[c], edit) = tree[pages[c].leaf].dict
        BY <1>2, <1>3, <1>4, <3>2, <3>3, <4>1, SecondBodyIsTheFirst
      <4>3. QED
        BY <1>5, <4>2
    <3>5. QED
      BY <1>6, <1>11, <2>2, <3>4
  <2>3. QED
    BY <1>10, <1>11, <2>1, <2>2
<1>16. RootIsNoLeaf' <=> RootIsNoLeaf
  BY <1>2 DEF RootIsNoLeaf
<1>17. (repeated # <<>> /\ RootIsNoLeaf =>
         \E trail : Ended(trail) /\ \A k \in 1..Len(repeated) : Settled(repeated[k], trail))'
  BY <1>2, SettledGoesOn
<1>18. (op = "plan" /\ request = repeated /\ RootIsNoLeaf =>
         \A i \in 1..Len(dirty) : dirty[i].body = tree[dirty[i].leaf].dict)'
  BY <1>2, <1>15, <1>16
<1>19. op' = "plan"
  BY <1>2
<1>20. QED
  BY <1>13, <1>14, <1>17, <1>18, <1>19 DEF RepeatInv

-----------------------------------------------------------------------------
(***************************************************************************)
(* Which pages have usable boxes after a revision: those that had, if      *)
(* their leaf was rewritten, and the same ones among the others.           *)
(***************************************************************************)
LEMMA UntouchedAsEditable ==
  ASSUME NEW list, Rewrites(tree, tree', list), Leafs(list), RootIsNoLeaf,
         NEW path \in PathFrom(Types, Root), \A j \in 1..Len(list) : list[j].leaf # Last(path)
  PROVE  Editable(path)' <=> Editable(path)
<1>1. Last(path) \in Objects
  <2>1. path \in Seq(Objects) /\ Len(path) \in Nat /\ Len(path) >= 2
    BY LenProperties DEF PathFrom
  <2>2. Len(path) \in 1..Len(path)
    BY <2>1
  <2>3. QED
    BY <2>1, <2>2, ElementOfSeq DEF Last
<1>2. /\ tree'[Last(path)].dict = tree[Last(path)].dict
      /\ tree'[Last(path)].compressed = tree[Last(path)].compressed
  BY <1>1 DEF Rewrites, SameNode
<1>3. \A kind \in BoxKinds : EffectiveBox(path, kind)' = EffectiveBox(path, kind)
  BY <1>2, BoxesRewritten
<1>4. "MediaBox" \in BoxKinds /\ "CropBox" \in BoxKinds
  BY DEF BoxKinds
<1>5. /\ EffectiveBox(path, "MediaBox")' = EffectiveBox(path, "MediaBox")
      /\ EffectiveBox(path, "CropBox")' = EffectiveBox(path, "CropBox")
  BY <1>3, <1>4
<1>6. QED
  BY <1>2, <1>5 DEF Editable

LEMMA RewrittenStaysEditable ==
  ASSUME NEW list, Rewrites(tree, tree', list), Leafs(list), RootIsNoLeaf,
         NEW path \in PathFrom(Types, Root), NEW j \in 1..Len(list), list[j].leaf = Last(path),
         list[j].media \in Rects \cup {Absent}, list[j].crop \in Rects \cup {Absent},
         Editable(path)
  PROVE  Editable(path)'
<1> DEFINE e == list[j]
           leaf == Last(path)
           old == tree[Last(path)].dict
           new == tree'[Last(path)].dict
<1>1. BodyHolds(old, new, e) /\ leaf \in Objects
  BY DEF Rewrites, Leafs
<1>2. tree'[leaf].compressed = tree[leaf].compressed
  BY <1>1 DEF Rewrites, SameNode
<1>3. ASSUME NEW kind \in BoxKinds
      PROVE  \/ EffectiveBox(path, kind)' = EffectiveBox(path, kind)
             \/ EffectiveBox(path, kind)' \in ResolvedBox
  <2>1. OwnBox(new, kind) = OwnBox(old, kind) \/ OwnBox(new, kind) \in Rects
    <3>1. OwnBox(new, kind) = IF kind \in RequestedKinds(e) THEN Requested(e, kind) ELSE OwnBox(old, kind)
      BY <1>1 DEF BodyHolds
    <3>2. kind \in RequestedKinds(e) => Requested(e, kind) # Absent
      BY DEF RequestedKinds
    <3>3. Requested(e, kind) \in Rects \cup {Absent}
      BY DEF Requested
    <3>4. QED
      BY <3>1, <3>2, <3>3
  <2>2. CASE OwnBox(new, kind) = OwnBox(old, kind)
    BY <2>2, BoxesRewritten
  <2>3. CASE OwnBox(new, kind) \in Rects
    <3>1. EffectiveBox(path, kind)' = [rect |-> OwnBox(new, kind), owner |-> leaf]
      BY <2>3, BoxesRewritten
    <3>2. [rect |-> OwnBox(new, kind), owner |-> leaf] \in ResolvedBox
      BY <1>1, <2>3 DEF ResolvedBox
    <3>3. QED
      BY <3>1, <3>2
  <2>4. QED
    BY <2>1, <2>2, <2>3
<1>4. Absent \notin ResolvedBox /\ Malformed \notin ResolvedBox
  BY AbsentIsNoBox, MalformedIsNoBox
<1>5. "MediaBox" \in BoxKinds /\ "CropBox" \in BoxKinds
  BY DEF BoxKinds
<1>6. /\ EffectiveBox(path, "MediaBox")' = EffectiveBox(path, "MediaBox")
           \/ EffectiveBox(path, "MediaBox")' \in ResolvedBox
      /\ EffectiveBox(path, "CropBox")' = EffectiveBox(path, "CropBox")
           \/ EffectiveBox(path, "CropBox")' \in ResolvedBox
  BY <1>3, <1>5
<1>7. QED
  BY <1>2, <1>4, <1>6 DEF Editable

(* A revision leaves the parents alone.                                     *)
LEMMA ParentsKept ==
  ASSUME Write, tree \in TreeShape, NEW o \in Objects
  PROVE  tree'[o].parent = tree[o].parent
<1>1. tree'[o] = Revised(o)
  BY DEF Write
<1>2. PICK body : Revised(o) \in {tree[o], [tree[o] EXCEPT !.dict = body]}
  BY DEF Revised
<1>3. tree[o] \in ObjectShape
  BY DEF TreeShape
<1>4. [tree[o] EXCEPT !.dict = body].parent = tree[o].parent
  BY <1>3 DEF ObjectShape
<1>5. QED
  BY <1>1, <1>2, <1>4

(***************************************************************************)
(* The pages of a call, on the trail of its walk, as the call revises the  *)
(* document.                                                               *)
(***************************************************************************)
Revising(list, trail) ==
  /\ Rewrites(tree, tree', list) /\ Leafs(list) /\ RootIsNoLeaf
  /\ Len(trail) \in Nat /\ trail \in Seq(PathFrom(Types, Root))
  /\ Reported(pages, trail) /\ Apart(pages) /\ Len(pages) \in Nat
  /\ \A j \in 1..Len(list) :
       /\ Cardinality(PagesOf(pages, list[j].leaf)) = 1
       /\ list[j].media \in Rects \cup {Absent} /\ list[j].crop \in Rects \cup {Absent}
       /\ \E c \in PagesOf(pages, list[j].leaf) : pages[c].page_index = list[j].page_index

(* A page stands at its place on the trail.                                 *)
LEMMA PageStands ==
  ASSUME NEW list, NEW trail, Revising(list, trail), NEW c \in 1..Len(pages)
  PROVE  \E i \in 1..Len(trail) :
           /\ i = pages[c].page_index + 1 /\ pages[c].page_index \in Nat
           /\ pages[c].leaf = Last(trail[i])
           /\ Editable(trail[i]) /\ trail[i] \in PathFrom(Types, Root)
<1>1. Reported(pages, trail) /\ Len(trail) \in Nat /\ trail \in Seq(PathFrom(Types, Root))
  BY DEF Revising
<1>2. /\ pages[c].page_index \in Nat /\ pages[c].page_index < Len(trail)
      /\ pages[c] = PageFor(trail[pages[c].page_index + 1], pages[c].page_index)
  BY <1>1 DEF Reported
<1>3. PICK i \in 1..Len(trail) : i = pages[c].page_index + 1
  <2>1. pages[c].page_index + 1 \in 1..Len(trail)
    BY <1>1, <1>2
  <2>2. QED
    BY <2>1
<1>4. pages[c].leaf = Last(trail[i])
  BY <1>2, <1>3, PageHas DEF PageWith
<1>5. Editable(trail[i])
  <2>1. c \in Slots(pages, pages[c].page_index)
    BY DEF Slots
  <2>2. QED
    BY <1>1, <1>2, <1>3, <2>1 DEF Reported
<1>6. trail[i] \in PathFrom(Types, Root)
  BY <1>1, ElementOfSeq
<1>7. QED
  BY <1>2, <1>3, <1>4, <1>5, <1>6

(* Every page still has usable boxes.                                       *)
LEMMA PagesStayEditable ==
  ASSUME NEW list, NEW trail, Revising(list, trail), NEW c \in 1..Len(pages)
  PROVE  \E i \in 1..Len(trail) :
           /\ i = pages[c].page_index + 1 /\ pages[c].page_index \in Nat
           /\ pages[c].leaf = Last(trail[i])
           /\ Editable(trail[i]) /\ Editable(trail[i])'
<1>1. PICK i \in 1..Len(trail) :
        /\ i = pages[c].page_index + 1 /\ pages[c].page_index \in Nat
        /\ pages[c].leaf = Last(trail[i])
        /\ Editable(trail[i]) /\ trail[i] \in PathFrom(Types, Root)
  BY PageStands
<1>2. PICK path \in PathFrom(Types, Root) : path = trail[i]
  BY <1>1
<1>3. Rewrites(tree, tree', list) /\ Leafs(list) /\ RootIsNoLeaf
  BY DEF Revising
<1>4. CASE \A j \in 1..Len(list) : list[j].leaf # Last(path)
  <2>1. Editable(path)'
    BY <1>1, <1>2, <1>3, <1>4, UntouchedAsEditable
  <2>2. QED
    BY <1>1, <1>2, <2>1
<1>5. CASE \E j \in 1..Len(list) : list[j].leaf = Last(path)
  <2>1. PICK j \in 1..Len(list) : list[j].leaf = Last(path)
    BY <1>5
  <2>2. list[j].media \in Rects \cup {Absent} /\ list[j].crop \in Rects \cup {Absent}
    BY DEF Revising
  <2>3. Editable(path)
    BY <1>1, <1>2
  <2>4. Editable(path)'
    BY <1>3, <2>1, <2>2, <2>3, RewrittenStaysEditable
  <2>5. QED
    BY <1>1, <1>2, <2>4
<1>6. QED
  BY <1>4, <1>5

(* A place with usable boxes after the revision, and the only one of its    *)
(* leaf, is the place of a page.                                            *)
LEMMA OnlyPlacesHavePages ==
  ASSUME NEW list, NEW trail, Revising(list, trail), NEW i \in 1..Len(trail), NEW n \in Nat, i = n + 1,
         Editable(trail[i])', OnlyUse(trail, i)'
  PROVE  \E c \in 1..Len(pages) : pages[c].page_index = n /\ pages[c].leaf = Last(trail[i])
<1>1. Rewrites(tree, tree', list) /\ Leafs(list) /\ RootIsNoLeaf /\ Reported(pages, trail)
      /\ Len(trail) \in Nat /\ trail[i] \in PathFrom(Types, Root)
  BY ElementOfSeq DEF Revising
<1>2. n < Len(trail)
  BY <1>1
<1>3. Slots(pages, n) # {}
  <2>1. CASE \A j \in 1..Len(list) : list[j].leaf # Last(trail[i])
    <3>1. PICK path \in PathFrom(Types, Root) : path = trail[i]
      BY <1>1
    <3>2. Editable(path)'
      BY <3>1
    <3>3. Editable(path)
      BY <1>1, <2>1, <3>1, <3>2, UntouchedAsEditable
    <3>4. QED
      BY <1>1, <1>2, <3>1, <3>3 DEF Reported
  <2>2. CASE \E j \in 1..Len(list) : list[j].leaf = Last(trail[i])
    <3>1. PICK j \in 1..Len(list) : list[j].leaf = Last(trail[i])
      BY <2>2
    <3>2. PICK c \in PagesOf(pages, list[j].leaf) : TRUE
      BY DEF Revising
    <3>3. c \in 1..Len(pages) /\ pages[c].leaf = Last(trail[i])
      BY <3>1, <3>2 DEF PagesOf
    <3>4. PICK x \in 1..Len(trail) :
            /\ x = pages[c].page_index + 1 /\ pages[c].page_index \in Nat
            /\ pages[c].leaf = Last(trail[x]) /\ Editable(trail[x])'
      BY <3>3, PagesStayEditable
    <3>5. x = i
      BY <3>3, <3>4 DEF OnlyUse
    <3>6. pages[c].page_index = n
      BY <3>4, <3>5
    <3>7. QED
      BY <3>3, <3>6 DEF Slots
  <2>3. QED
    BY <2>1, <2>2
<1>4. PICK c \in Slots(pages, n) : TRUE
  BY <1>3
<1>5. c \in 1..Len(pages) /\ pages[c].page_index = n
  BY <1>4 DEF Slots
<1>6. pages[c].leaf = Last(trail[i])
  <2>1. PICK x \in 1..Len(trail) : x = pages[c].page_index + 1 /\ pages[c].leaf = Last(trail[x])
    BY <1>5, PageStands
  <2>2. QED
    BY <1>5, <2>1
<1>7. QED
  BY <1>5, <1>6

(* And a leaf of one page only.                                             *)
LEMMA OnlyPlacesAreOwned ==
  ASSUME NEW list, NEW trail, Revising(list, trail), NEW i \in 1..Len(trail), NEW c \in 1..Len(pages),
         i = pages[c].page_index + 1, pages[c].leaf = Last(trail[i]), OnlyUse(trail, i)'
  PROVE  Cardinality(PagesOf(pages, pages[c].leaf)) = 1
<1>1. ASSUME NEW d \in PagesOf(pages, pages[c].leaf)
      PROVE  d = c
  <2>1. d \in 1..Len(pages) /\ pages[d].leaf = pages[c].leaf
    BY DEF PagesOf
  <2>2. PICK x \in 1..Len(trail) :
          /\ x = pages[d].page_index + 1 /\ pages[d].page_index \in Nat
          /\ pages[d].leaf = Last(trail[x]) /\ Editable(trail[x])'
    BY <2>1, PagesStayEditable
  <2>3. x = i
    BY <2>1, <2>2 DEF OnlyUse
  <2>4. pages[c].page_index \in Nat
    BY PageStands
  <2>5. pages[d].page_index = pages[c].page_index
    BY <2>2, <2>3, <2>4
  <2>6. QED
    BY <2>1, <2>5 DEF Revising, Apart
<1>2. c \in PagesOf(pages, pages[c].leaf)
  BY DEF PagesOf
<1>3. PagesOf(pages, pages[c].leaf) = {c}
  BY <1>1, <1>2
<1>4. QED
  BY <1>3, FS_Singleton

LEMMA WriteRevises ==
  ASSUME CallsInv, EditsInv, EditsInv', ReopenInv, RepeatInv, Write, NoCollision, RootIsNoLeaf'
  PROVE  \E trail : Revising(edited, trail) /\ Ended(trail) /\ Ended(trail)'
<1>1. op = "plan"
  BY DEF Write
<1>2. /\ tree = before /\ \A j \in 1..Len(edited) : ~Collides(edited[j])
      /\ tree' \in TreeShape
  BY <1>1 DEF CallsInv, EditsInv, NoCollision
<1>3. /\ tree \in TreeShape /\ BoxesInv /\ Len(pages) \in Nat
      /\ \A i \in 1..Len(edited) : PlannedFor(tree, pages, edited[i], dirty[i])
  BY <1>1, LenProperties DEF EditsInv, BoxesInv
<1>4. BoxTrips /\ boxPhase = "done" /\ \A i \in 1..Len(edited) : FitsMedia(pages, edited[i])
  BY <1>1 DEF ReopenInv, RepeatInv
<1>5. Rewrites(tree, tree', edited)
  BY <1>2, RevisionRewrites
<1>6. RootIsNoLeaf
  BY <1>5, RootIsObject DEF Rewrites, SameNode, RootIsNoLeaf
<1>7. PICK trail : Ended(trail) /\ Reported(pages, trail)
  BY <1>4, DoneIsEnded
<1>8. Apart(pages)
  BY <1>4 DEF BoxTrips
<1>9. Ended(trail)'
  <2>1. Branches' = Branches /\ Types' = Types /\ Opening' = Opening
    BY <1>5, TreeRevised
  <2>2. PICK seen : Arrives(<<>>, seen, trail)
    BY <1>7 DEF Ended
  <2>3. Arrives(<<>>, seen, trail)'
    BY <2>1, <2>2 DEF Arrives
  <2>4. trail \in Seq(PathFrom(Types', Root))
    BY <1>7, <2>1 DEF Ended
  <2>5. QED
    BY <2>3, <2>4 DEF Ended
<1>10. trail \in Seq(PathFrom(Types, Root)) /\ Len(trail) \in Nat
  BY <1>7, LenProperties DEF Ended
<1>11. ASSUME NEW j \in 1..Len(edited)
       PROVE  /\ Cardinality(PagesOf(pages, edited[j].leaf)) = 1
              /\ edited[j].media \in Rects \cup {Absent} /\ edited[j].crop \in Rects \cup {Absent}
              /\ \E c \in PagesOf(pages, edited[j].leaf) : pages[c].page_index = edited[j].page_index
  BY <1>3, <1>4 DEF PlannedFor, FitsMedia
<1>12. Leafs(edited)
  <2>1. ASSUME NEW j \in 1..Len(edited)
        PROVE  NodeType(edited[j].leaf) = "Page" /\ edited[j].leaf \in Objects
    <3>1. PICK c \in PagesOf(pages, edited[j].leaf) : TRUE
      BY <1>11
    <3>2. c \in 1..Len(pages) /\ pages[c].leaf = edited[j].leaf
      BY <3>1 DEF PagesOf
    <3>3. /\ pages[c].page_index \in Nat /\ pages[c].page_index < Len(trail)
          /\ pages[c] = PageFor(trail[pages[c].page_index + 1], pages[c].page_index)
      BY <1>7, <3>2 DEF Reported
    <3>4. PICK path \in PathFrom(Types, Root) : path = trail[pages[c].page_index + 1]
      <4>1. pages[c].page_index + 1 \in 1..Len(trail)
        BY <1>10, <3>3
      <4>2. trail[pages[c].page_index + 1] \in PathFrom(Types, Root)
        BY <1>10, <4>1, ElementOfSeq
      <4>3. QED
        BY <4>2
    <3>5. edited[j].leaf = path[Len(path)]
      BY <3>2, <3>3, <3>4, PageHas DEF PageWith, Last
    <3>6. edited[j].leaf \in Objects /\ Types[edited[j].leaf] = "Page"
      <4>1. edited[j].leaf \in Objects
        BY <1>3 DEF PlannedFor
      <4>2. QED
        BY <3>4, <3>5, <4>1 DEF PathFrom
    <3>7. QED
      BY <3>6 DEF Types
  <2>2. QED
    BY <2>1 DEF Leafs
<1>13. Revising(edited, trail)
  BY <1>3, <1>5, <1>6, <1>7, <1>8, <1>10, <1>11, <1>12 DEF Revising
<1>14. QED
  BY <1>7, <1>9, <1>13

(* Whatever became of it, an edit asked for is settled by the revision.     *)
LEMMA EditSettles ==
  ASSUME NEW trail, Revising(edited, trail), Write, NEW edit, edit.page_index \in Nat, EditMade(edit)
  PROVE  Settled(edit, trail)'
<1> DEFINE index == edit.page_index
           k == index + 1
           leaf == Last(trail[k])
<1>1. SUFFICES ASSUME k \in 1..Len(trail), Editable(trail[k])', OnlyUse(trail, k)',
                      tree'[leaf].parent # Absent
               PROVE  StatesRequest(tree'[leaf].dict, edit)
  BY DEF Settled, StatesRequest, NormalizedOption, Normalized
<1>2. PICK i \in 1..Len(trail) : i = k
  BY <1>1
<1>3. PICK c \in 1..Len(pages) : pages[c].page_index = index /\ pages[c].leaf = leaf
  <2>1. Editable(trail[i])' /\ OnlyUse(trail, i)'
    BY <1>1, <1>2
  <2>2. \E c \in 1..Len(pages) : pages[c].page_index = index /\ pages[c].leaf = Last(trail[i])
    BY <1>2, <2>1, OnlyPlacesHavePages
  <2>3. QED
    BY <1>2, <2>2
<1>4. c \in PagesAt(index)
  BY <1>3 DEF PagesAt
<1>5. ASSUME NEW d \in PagesAt(index), ~Owned(pages[d].leaf)
      PROVE  FALSE
  <2>1. d = c
    BY <1>3 DEF PagesAt, Revising, Apart
  <2>2. Cardinality(PagesOf(pages, pages[c].leaf)) = 1
    <3>1. i = pages[c].page_index + 1 /\ pages[c].leaf = Last(trail[i]) /\ OnlyUse(trail, i)'
      BY <1>1, <1>2, <1>3
    <3>2. QED
      BY <3>1, OnlyPlacesAreOwned
  <2>3. leaf \in Objects /\ tree \in TreeShape
    <3>1. Reported(pages, trail) /\ Rewrites(tree, tree', edited)
      BY DEF Revising
    <3>2. pages[c] \in PageReport
      BY <3>1, ElementOfSeq DEF Reported
    <3>3. QED
      BY <1>3, <3>1, <3>2 DEF PageReport, Rewrites
  <2>4. tree[leaf].parent # Absent
    BY <1>1, <2>3, ParentsKept
  <2>5. Owned(pages[c].leaf)
    BY <1>3, <2>2, <2>4 DEF Owned, PagesOf
  <2>6. QED
    BY <1>5, <2>1, <2>5
<1>6. PICK j \in 1..Len(edited) : Answering(edit, edited[j])
  BY <1>4, <1>5 DEF EditMade
<1>7. /\ edited[j].page_index = index
      /\ edited[j].media = NormalizedOption(edit.media) /\ edited[j].crop = NormalizedOption(edit.crop)
      /\ edit.media # Absent => edited[j].media # Absent
      /\ edit.crop # Absent => edited[j].crop # Absent
  <2> DEFINE e == edited[j]
             same == EntryOf(edit, e.leaf)
  <2>1. e = same
    BY <1>6 DEF Answering
  <2>2. /\ same.page_index = index /\ same.media = NormalizedOption(edit.media)
        /\ same.crop = NormalizedOption(edit.crop)
    BY DEF EntryOf
  <2> HIDE DEF same
  <2>3. QED
    BY <1>6, <2>1, <2>2 DEF Answering
<1>8. edited[j].leaf = leaf
  <2>1. PICK d \in PagesOf(pages, edited[j].leaf) : pages[d].page_index = edited[j].page_index
    BY DEF Revising
  <2>2. d = c
    BY <1>3, <1>7, <2>1 DEF PagesOf, Revising, Apart
  <2>3. QED
    BY <1>3, <2>1, <2>2 DEF PagesOf
<1>9. BodyHolds(tree[leaf].dict, tree'[leaf].dict, edited[j])
  BY <1>8 DEF Revising, Rewrites
<1>10. "MediaBox" \in BoxKinds /\ "CropBox" \in BoxKinds
  BY DEF BoxKinds
<1>11. /\ edited[j].media # Absent => OwnBox(tree'[leaf].dict, "MediaBox") = edited[j].media
       /\ edited[j].crop # Absent => OwnBox(tree'[leaf].dict, "CropBox") = edited[j].crop
  BY <1>9, <1>10 DEF BodyHolds, RequestedKinds, Requested
<1>12. QED
  BY <1>7, <1>11 DEF StatesRequest

LEMMA WriteSettles ==
  ASSUME CallsInv, EditsInv, EditsInv', ReopenInv, RepeatInv, Write
  PROVE  RepeatInv'
<1>1. /\ op = "plan" /\ op' = "idle" /\ Planned = Len(request)
      /\ repeated' = IF NoCollision THEN request ELSE <<>>
  BY DEF Write
<1>2. ASSUME repeated' # <<>>, RootIsNoLeaf'
      PROVE  \E trail : Ended(trail)' /\ \A k \in 1..Len(repeated') : Settled(repeated[k], trail)'
  <2>1. NoCollision /\ repeated' = request
    BY <1>1, <1>2
  <2>2. PICK trail : Revising(edited, trail) /\ Ended(trail)'
    BY <1>2, <2>1, WriteRevises
  <2>3. ASSUME NEW k \in 1..Len(request)
        PROVE  Settled(repeated[k], trail)'
    <3>1. PICK edit : edit = request[k] /\ EditMade(edit)
      BY <1>1 DEF RepeatInv
    <3>2. edit.page_index \in Nat
      BY <3>1 DEF CallsInv, CallTypes
    <3>3. Settled(edit, trail)'
      BY <2>2, <3>1, <3>2, EditSettles
    <3>4. edit = repeated'[k]
      BY <2>1, <3>1
    <3>5. QED
      BY <3>3, <3>4 DEF Settled, StatesRequest
  <2>4. QED
    BY <2>1, <2>2, <2>3
<1>3. (repeated # <<>> /\ RootIsNoLeaf =>
         \E trail : Ended(trail) /\ \A k \in 1..Len(repeated) : Settled(repeated[k], trail))'
  BY <1>2
<1>4. QED
  BY <1>1, <1>3 DEF RepeatInv

(* Steps that neither plan an edit nor write.                               *)
LEMMA RepeatGoesOn ==
  ASSUME RepeatInv, tree' = tree, repeated' = repeated, op' # "idle" => BoxTrips',
         op' = "inspect" => Planned' = 0,
         op' # "idle" => \A i \in 1..Planned' : EditMade(request[i])',
         op' = "plan" => \/ op = "plan" /\ request' = request /\ dirty' = dirty
                         \/ Len(dirty') = 0
  PROVE  RepeatInv'
<1>1. (repeated # <<>> /\ RootIsNoLeaf =>
         \E trail : Ended(trail) /\ \A k \in 1..Len(repeated) : Settled(repeated[k], trail))'
  BY SettledGoesOn
<1>2. RootIsNoLeaf' <=> RootIsNoLeaf
  BY DEF RootIsNoLeaf
<1>3. (op = "plan" /\ request = repeated /\ RootIsNoLeaf =>
         \A i \in 1..Len(dirty) : dirty[i].body = tree[dirty[i].leaf].dict)'
  <2>1. ASSUME op' = "plan", request' = repeated', RootIsNoLeaf', NEW i \in 1..Len(dirty')
        PROVE  dirty'[i].body = tree'[dirty'[i].leaf].dict
    <3>1. CASE op = "plan" /\ request' = request /\ dirty' = dirty
      BY <1>2, <2>1, <3>1 DEF RepeatInv
    <3>2. CASE Len(dirty') = 0
      BY <2>1, <3>2
    <3>3. QED
      BY <2>1, <3>1, <3>2
  <2>2. QED
    BY <2>1
<1>4. QED
  BY <1>1, <1>3 DEF RepeatInv

LEMMA SkipsRepeat ==
  ASSUME CallsInv, RepeatInv, SkipUnreported \/ SkipUnowned
  PROVE  RepeatInv'
<1>1. PICK edit, reason :
        /\ Planning(edit) /\ Skip(edit, reason)
        /\ \/ PagesAt(edit.page_index) = {}
           \/ PagesAt(edit.page_index) # {} /\ ~Owned(PageAt(edit.page_index).leaf)
  <2>1. CASE SkipUnreported
    <3>1. PICK edit : /\ Planning(edit) /\ PagesAt(edit.page_index) = {}
                      /\ Skip(edit, InspectionSkip(edit.page_index))
      BY <2>1 DEF SkipUnreported
    <3>2. QED
      BY <3>1
  <2>2. CASE SkipUnowned
    <3>1. PICK edit : /\ Planning(edit) /\ Skip(edit, "OwnershipNotProven")
                      /\ PagesAt(edit.page_index) # {} /\ ~Owned(PageAt(edit.page_index).leaf)
      BY <2>2 DEF SkipUnowned
    <3>2. QED
      BY <3>1
  <2>3. QED
    BY <2>1, <2>2
<1>2. /\ op = "plan" /\ edit = request[Planned + 1]
      /\ skipped' = Append(skipped, [page_index |-> edit.page_index, reason |-> reason])
      /\ UNCHANGED <<op, request, edited, dirty, repeated, tree, pages, boxVars>>
  BY <1>1 DEF Planning, Skip, vars, boxVars
<1>3. BoxTrips' /\ \A i \in 1..Planned : EditMade(request[i])
  BY <1>2, TripStays DEF RepeatInv
<1>4. Planned' = Planned + 1 /\ Planned \in Nat /\ Len(edited) \in Nat
  <2>1. PICK S : skipped \in Seq(S)
    BY DEF CallsInv, CallTypes
  <2>2. Len(edited) \in Nat
    BY LenProperties DEF CallsInv, CallTypes
  <2>3. Len(skipped) \in Nat /\ Len(skipped') = Len(skipped) + 1
    BY <1>2, <2>1, OneMore
  <2>4. QED
    BY <1>2, <2>2, <2>3 DEF Planned
<1>5. EditMade(edit)
  <2>1. CASE PagesAt(edit.page_index) = {}
    BY <2>1 DEF EditMade
  <2>2. CASE PagesAt(edit.page_index) # {} /\ ~Owned(PageAt(edit.page_index).leaf)
    <3>1. PICK c \in PagesAt(edit.page_index) : PageAt(edit.page_index) = pages[c]
      BY <2>2 DEF PageAt
    <3>2. ~Owned(pages[c].leaf)
      BY <2>2, <3>1
    <3>3. QED
      BY <3>1, <3>2 DEF EditMade
  <2>3. QED
    BY <1>1, <2>1, <2>2
<1>6. ASSUME NEW i \in 1..Planned'
      PROVE  EditMade(request[i])'
  <2>1. PICK asked : asked = request[i] /\ EditMade(asked)
    <3>1. CASE i \in 1..Planned
      BY <1>3, <3>1
    <3>2. CASE i = Planned + 1
      BY <1>2, <1>5, <3>2
    <3>3. QED
      BY <1>4, <3>1, <3>2
  <2>2. EditMade(asked)'
    BY <1>2, <1>4, <2>1, EditsStayMade
  <2>3. asked = request'[i]
    BY <1>2, <2>1
  <2>4. QED
    BY <2>2, <2>3 DEF EditMade, Answering, EntryOf
<1>7. QED
  BY <1>2, <1>3, <1>6, RepeatGoesOn

LEMMA RepeatStarts ==
  ASSUME RepeatInv, Call
  PROVE  RepeatInv'
<1>1. /\ ForgetWalks /\ edited' = <<>> /\ skipped' = <<>> /\ op' \in {"idle", "inspect"}
      /\ tree' = tree /\ repeated' = repeated
  BY DEF Call
<1>2. BoxTrips'
  <2>1. /\ boxPhase' = "idle" /\ boxFrames' = <<>> /\ boxVisited' = {} /\ page_index' = 0 /\ pages' = <<>>
    BY <1>1 DEF ForgetWalks
  <2>2. QED
    BY <2>1 DEF BoxTrips, Apart
<1>3. Planned' = 0
  BY <1>1 DEF Planned
<1>4. QED
  BY <1>1, <1>2, <1>3, RepeatGoesOn

LEMMA RepeatInvariant == SetSpec => []RepeatInv
<1>1. SetInit => RepeatInv
  BY DEF SetInit, RepeatInv
<1>2. ASSUME CallsInv, EditsInv, EditsInv', ReopenInv, RepeatInv, [SetNext]_setVars
      PROVE  RepeatInv'
  <2>1. ASSUME tree' = tree, UNCHANGED boxVars, op' # "idle" => op # "idle"
        PROVE  op' # "idle" => BoxTrips'
    BY <1>2, <2>1, TripStays DEF RepeatInv
  <2>2. CASE Call
    BY <1>2, <2>2, RepeatStarts
  <2>3. CASE Inspect
    <3>1. op = "inspect" /\ UNCHANGED callVars
      BY <2>3 DEF Inspect
    <3>2. UNCHANGED <<op, edited, skipped, repeated>> /\ BoxTrips /\ BoxesInv /\ Planned = 0
      BY <1>2, <3>1 DEF callVars, RepeatInv, EditsInv
    <3>3. Planned' = 0
      BY <3>2 DEF Planned
    <3>4. tree' = tree /\ BoxTrips'
      <4>1. CASE EnumerateLeaves
        <5>1. tree' = tree /\ UNCHANGED boxVars
          BY <4>1 DEF EnumerateLeaves, LeafStep, StartLeaves, EmitLeaf, SkipKid,
             StopDescent, Descend, ReturnFromNode
        <5>2. QED
          BY <3>2, <5>1, TripStays
      <4>2. CASE InspectBoxes
        <5>1. BoxStep
          BY <4>2 DEF InspectBoxes
        <5>2. QED
          BY <3>2, <5>1, TripStepsGoOn, BoxStepsState
      <4>3. QED
        BY <2>3, <4>1, <4>2 DEF Inspect
    <3>5. \A i \in 1..Planned' : EditMade(request[i])'
      BY <3>3
    <3>6. QED
      BY <1>2, <3>1, <3>2, <3>3, <3>4, <3>5, RepeatGoesOn
  <2>4. CASE StartPlanning
    <3>1. op = "inspect" /\ op' = "plan" /\ UNCHANGED <<edited, skipped, dirty, repeated, tree, boxVars>>
      BY <2>4 DEF StartPlanning, vars
    <3>2. Planned = 0 /\ edited = <<>> /\ Len(dirty) = Len(edited)
      BY <1>2, <3>1 DEF RepeatInv, EditsInv, CallsInv, Answers
    <3>3. Planned' = 0 /\ Len(dirty') = 0
      BY <3>1, <3>2 DEF Planned
    <3>4. BoxTrips'
      BY <2>1, <3>1
    <3>5. \A i \in 1..Planned' : EditMade(request[i])'
      BY <3>3
    <3>6. QED
      BY <1>2, <3>1, <3>3, <3>4, <3>5, RepeatGoesOn
  <2>5. ASSUME NEW reason, Fail(reason)
        PROVE  RepeatInv'
    <3>1. op' = "idle" /\ UNCHANGED <<repeated, tree>>
      BY <2>5 DEF Fail, vars
    <3>2. QED
      BY <1>2, <3>1, RepeatGoesOn
  <2>6. CASE FailInspection \/ RefuseWrite
    BY <2>5, <2>6 DEF FailInspection, RefuseWrite
  <2>7. CASE FailPlan
    BY <2>5, <2>7 DEF FailPlan
  <2>8. CASE SkipUnreported \/ SkipUnowned
    BY <1>2, <2>8, SkipsRepeat
  <2>9. CASE PlanEdit
    BY <1>2, <2>9, PlansRepeat
  <2>10. CASE Write
    BY <1>2, <2>10, WriteSettles
  <2>11. CASE UNCHANGED setVars
    <3>1. /\ UNCHANGED <<op, request, edited, skipped, dirty, repeated, tree, boxVars>>
          /\ pages' = pages
      BY <2>11 DEF setVars, callVars, vars, boxVars
    <3>2. op' # "idle" => BoxTrips'
      BY <2>1, <3>1
    <3>3. Planned' = Planned
      BY <3>1 DEF Planned
    <3>4. \A edit : EditMade(edit)' <=> EditMade(edit)
      <4>1. \A leaf : Owned(leaf)' <=> Owned(leaf)
        BY <3>1 DEF Owned
      <4>2. QED
        BY <3>1, <4>1 DEF EditMade, Answering, EntryOf, NormalizedOption, Normalized, PagesAt
    <3>5. op' # "idle" => \A i \in 1..Planned' : EditMade(request[i])'
      BY <1>2, <3>1, <3>3, <3>4 DEF RepeatInv
    <3>6. op' = "inspect" => Planned' = 0
      BY <1>2, <3>1, <3>3 DEF RepeatInv
    <3>7. op' = "plan" => op = "plan" /\ request' = request /\ dirty' = dirty
      BY <3>1
    <3>8. QED
      BY <1>2, <3>1, <3>2, <3>5, <3>6, <3>7, RepeatGoesOn
  <2>12. QED
    BY <1>2, <2>2, <2>3, <2>4, <2>6, <2>7, <2>8, <2>9, <2>10, <2>11 DEF SetNext, Progress
<1>3. QED
  BY <1>1, <1>2, CallsInvariant, EditsInvariant, ReopenInvariant, PTL DEF SetSpec

(***************************************************************************)
(* For every document whose page-tree root is no leaf, and every request   *)
(* whose edits did not collide when it was first made: making it again, of *)
(* the document as its revision left it, writes every leaf as it is.       *)
(***************************************************************************)
THEOREM SecondCallAlwaysChangesNothing == SetSpec => SecondCallChangesNothing
<1> DEFINE Same == op = "plan" /\ result' = "ok" /\ request = repeated /\ RootIsNoLeaf => tree' = tree
<1>1. ASSUME CallsInv, EditsInv, RepeatInv, [SetNext]_setVars
      PROVE  [Same]_setVars
  <2>1. SUFFICES ASSUME op = "plan", result' = "ok", request = repeated, RootIsNoLeaf
                 PROVE  tree' = tree
    OBVIOUS
  <2>2. result = "none"
    BY <1>1, <2>1 DEF CallsInv
  <2>3. CASE Write
    <3>1. /\ tree \in TreeShape /\ tree' = [object \in Objects |-> Revised(object)]
          /\ \A i \in 1..Len(dirty) : dirty[i].body = tree[dirty[i].leaf].dict
      BY <1>1, <2>1, <2>3 DEF EditsInv, RepeatInv, Write
    <3>2. ASSUME NEW object \in Objects
          PROVE  Revised(object) = tree[object]
      <4> DEFINE rewritten == {i \in 1..Len(dirty) : dirty[i].leaf = object}
      <4>1. CASE rewritten = {}
        BY <4>1 DEF Revised
      <4>2. CASE rewritten # {}
        <5>1. PICK n \in Nat : n = Len(dirty)
          BY <1>1, LenProperties DEF CallsInv, CallTypes
        <5>2. rewritten \in SUBSET Nat /\ \A i \in rewritten : i <= n
          BY <5>1
        <5>3. Max(rewritten) \in rewritten
          <6> HIDE DEF rewritten
          <6>1. \E i \in rewritten : \A j \in rewritten : j <= i
            BY <4>2, <5>2, GreatestElement
          <6>2. \E i \in rewritten : \A j \in rewritten : i >= j
            BY <5>2, <6>1
          <6>3. QED
            BY <6>2 DEF Max
        <5>4. dirty[Max(rewritten)].body = tree[object].dict
          BY <3>1, <5>3
        <5>5. Revised(object) = [tree[object] EXCEPT !.dict = dirty[Max(rewritten)].body]
          BY <4>2 DEF Revised
        <5>6. tree[object] \in ObjectShape
          BY <3>1 DEF TreeShape
        <5>7. PICK node : node = tree[object]
          OBVIOUS
        <5>8. [node EXCEPT !.dict = node.dict] = node
          BY <5>6, <5>7 DEF ObjectShape
        <5>9. QED
          BY <5>4, <5>5, <5>7, <5>8
      <4>3. QED
        BY <4>1, <4>2
    <3>3. tree = [object \in Objects |-> tree[object]]
      BY <3>1 DEF TreeShape
    <3>4. QED
      BY <3>1, <3>2, <3>3
  <2>4. CASE Inspect \/ Call \/ StartPlanning
    BY <2>1, <2>4 DEF Inspect, Call, StartPlanning
  <2>5. CASE FailInspection \/ RefuseWrite \/ FailPlan
    BY <2>5 DEF FailInspection, RefuseWrite, FailPlan, Fail, vars
  <2>6. CASE SkipUnreported \/ SkipUnowned
    BY <2>6 DEF SkipUnreported, SkipUnowned, Skip, vars
  <2>7. CASE PlanEdit
    BY <2>7 DEF PlanEdit, vars
  <2>8. CASE UNCHANGED setVars
    BY <2>8 DEF setVars, vars
  <2>9. QED
    BY <1>1, <2>3, <2>4, <2>5, <2>6, <2>7, <2>8 DEF SetNext, Progress
<1>2. QED
  BY <1>1, CallsInvariant, EditsInvariant, RepeatInvariant, PTL DEF SetSpec, SecondCallChangesNothing

=============================================================================
