------------------------------ MODULE MCPlanners ------------------------------
(***************************************************************************)
(* Small inputs for TLC of the two planners.  Recipes: every stream of up  *)
(* to four operators from six, longer ones with nested saves, text modes,  *)
(* matrices and errors, and documents of several calls on two pages whose  *)
(* forms share a name.  Transforms: each resolver meets every short        *)
(* sequence of what it tells apart, under each of its policies; links and  *)
(* profiles are crossed so that two requests have every mix of equal and   *)
(* different transforms.                                                   *)
(***************************************************************************)
EXTENDS RecipePlan, TransformPlan

CONSTANTS Fm, Im, m, n

Plain(op) == [op |-> op]
q == Plain("q")
Q == Plain("Q")
Rg(v) == [op |-> "nonstroking", space |-> "DeviceRgb", components |-> <<v, 0, 0>>]
G(v) == [op |-> "stroking", space |-> "DeviceGray", components |-> <<v>>]
Cm(matrix) == [op |-> "cm", matrix |-> matrix]
Tr(value) == [op |-> "Tr", value |-> value]
Do(name) == [op |-> "Do", name |-> name]

Call(page, scope, stream, records) ==
  [page |-> page, scope |-> scope, records |-> records, stream |-> stream,
   image_names |-> {Im}, form_names |-> {Fm}]
OnePage(records) == <<Call(0, PageScope, "page", records)>>

ShortStreams ==
  {OnePage(records) : records \in
     UNION {[1..k -> {q, Q, Rg(1), G(2), Plain("B"), Plain("Tj")}] : k \in 0..4}}

LongStreams ==
  {OnePage(prefix \o <<q, Cm(n)>> \o middle \o <<Q, Plain("S"), Plain("Tj")>> \o suffix) :
     prefix \in {<<>>, <<Rg(1), G(1), Cm(m)>>, <<Tr(2), Rg(0)>>},
     middle \in {<<>>, <<q, G(3), Tr(1), Plain("B"), Q>>, <<Rg(2), Tr(3), q, Plain("f")>>,
                 <<G(0), Plain("n"), Do(Im), Plain("other"), Do(Fm)>>},
     suffix \in {<<>>, <<Q>>, <<Q, Plain("f")>>, <<Tr(7), Plain("Tj")>>,
                 <<Plain("malformed")>>}}

(* A page, the form it invokes, and a form that this one invokes.           *)
Documents ==
  {<<Call(0, PageScope, "page", <<Rg(1), Plain("f"), Do(Fm)>>),
     Call(0, Fm, "outer", first),
     Call(0, Fm, "inner", second),
     Call(1, PageScope, "second page", <<Rg(1), Plain("f"), G(1), Plain("S")>>)>> :
     first \in {<<Rg(1), Plain("f")>>, <<Plain("f"), Rg(1), Do(Fm)>>},
     second \in {<<Rg(1), Plain("f")>>, <<Rg(2), Plain("Tj"), Plain("malformed")>>}}

MCContents == {<<>>} \cup ShortStreams \cup LongStreams \cup Documents

Step(action, select) == [action |-> action, select |-> select]
All == <<[op |-> "All"]>>
Components3(v, usage, tolerance) ==
  [op |-> "ColorComponents", space |-> "DeviceRgb", usage |-> usage,
   components |-> <<v, 0, 0>>, tolerance |-> tolerance]

MCRecipes ==
  {<<Step("ConvertColor", All)>>,
   <<Step("SpreadText", <<[op |-> "ObjectKind", kind |-> "Vector"], [op |-> "Not", expr |-> 1]>>),
     Step("SetPageBox", All),
     Step("MinimumStrokeWidth", <<[op |-> "ColorUsage", usage |-> "Stroke"]>>)>>,
   <<Step("ConvertColor",
       <<Components3(0, AnyUsage, 1), [op |-> "Scope", scope |-> PageScope],
         [op |-> "Page", page |-> 1], [op |-> "Not", expr |-> 3],
         [op |-> "And", exprs |-> {1, 2, 4}]>>),
     Step("ConvertColor",
       <<Components3(1, "Fill", AnyTolerance), [op |-> "Editable", capability |-> "ReadOnly"],
         [op |-> "Parity", parity |-> "Even"], [op |-> "Or", exprs |-> {1, 2, 3}]>>),
     Step("SpreadText",
       <<[op |-> "Range", start |-> 0, end |-> 0], [op |-> "Pages", pages |-> {1}],
         [op |-> "ColorSpace", space |-> "DeviceGray"], [op |-> "Or", exprs |-> {1, 2}],
         [op |-> "And", exprs |-> {3, 4}]>>)>>,
   <<>>}

-----------------------------------------------------------------------------
(* Requests for transforms.                                                 *)

Upto(S, longest) == UNION {[1..len -> S] : len \in 0..longest}

PlainRequest ==
  [source |-> "DeviceRgb", destination |-> "DeviceCmyk", device_link |-> "Prefer",
   source_profile |-> "none", destination_profile |-> "none", links |-> <<>>,
   output_intent |-> [policy |-> "Preserve"], intents |-> <<>>,
   spot |-> "Preserve", spots |-> <<>>, overprint |-> "Preserve", interactions |-> <<>>]

Link(id, source, destination) == [id |-> id, source |-> source, destination |-> destination]
Links == {Link("a", "DeviceRgb", "DeviceCmyk"), Link("b", "DeviceRgb", "DeviceCmyk"),
          Link("a", "DeviceGray", "DeviceCmyk")}

LinkRequests ==
  {[PlainRequest EXCEPT !.source = source, !.destination = destination, !.device_link = policy,
                 !.links = links, !.source_profile = from, !.destination_profile = to] :
     source \in {"DeviceRgb", "DeviceGray"}, destination \in {"DeviceCmyk", "DeviceGray"},
     policy \in {"Require", "Prefer", "Forbid"},
     links \in {<<>>} \cup {<<l>> : l \in Links} \cup {<<k, l>> : k, l \in Links},
     from \in {"none", "p"}, to \in {"none", "p", "q"}}

Intent(subtype, identifier) == [subtype |-> subtype, identifier |-> identifier]
Intents == {Intent("pdfx", "here"), Intent("pdfx", "there"), Intent("pdfx", "elsewhere"),
            Intent("pdfa", "here")}
IntentRequests ==
  {[PlainRequest EXCEPT !.output_intent = policy, !.intents = intents] :
     policy \in {[policy |-> "RequireExisting"],
                 [policy |-> "EnsureTarget", target |-> Intent("pdfx", "here")]},
     intents \in Upto(Intents, 3)}

Spots == {[name |-> "s", alternate |-> "DeviceCmyk"], [name |-> "t", alternate |-> "Lab"],
          [name |-> "u", alternate |-> "DeviceGray"]}
SpotRequests ==
  {[PlainRequest EXCEPT !.spot = policy, !.spots = spots] :
     policy \in {"Reject", "ConvertAlternate"}, spots \in Upto(Spots, 3)}

Interactions ==
  {[id |-> "i", sensitivity |-> s] :
     s \in {"Safe", "ProcessColorantExpansion", "SpotColorantConversion", "Unsupported"}}
OverprintRequests ==
  {[PlainRequest EXCEPT !.overprint = policy, !.interactions = interactions] :
     policy \in {"RejectUnsafe", "Mitigate"}, interactions \in Upto(Interactions, 3)}

MCRequests == LinkRequests \cup IntentRequests \cup SpotRequests \cup OverprintRequests

-----------------------------------------------------------------------------
(* The planners share no state.  So as not to multiply their states, a      *)
(* caller resolves transforms beside an empty document and recipe only.     *)
NothingToPlan == calls = <<>> /\ recipe = <<>>

PlannersInit == Init /\ TransformInit

PlannersNext ==
  \/ ~ NothingToPlan /\ Next /\ UNCHANGED transformVars
  \/ NothingToPlan /\ TransformNext /\ UNCHANGED vars

PlannersSpec == PlannersInit /\ [][PlannersNext]_<<vars, transformVars>>

=============================================================================
