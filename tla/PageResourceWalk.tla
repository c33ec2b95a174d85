-------------------------- MODULE PageResourceWalk --------------------------
(***************************************************************************)
(* XObjectResourceWalk: a walk over the page tree that gives every leaf    *)
(* the XObject resources of its own or its nearest ancestor's dictionary.  *)
(* It reads objects at their file offsets only, so a tree object in an     *)
(* object stream does not resolve for it.                                  *)
(***************************************************************************)
EXTENDS PageTreeLeaves

CONSTANTS
  Unusable,   \* model value: a /Resources or /XObject that is duplicated, of
              \* another kind, or cannot be scanned or resolved
  Names       \* resource names

ASSUME UnusableIsPresent == Unusable # Absent

VARIABLES
  resources,      \* what each object's dictionary says of /Resources
  resPhase,       \* "idle", "walking" or "done"
  resFrames,      \* open process_node calls, [node, next, context]
  resVisited,
  resNodeCount,
  resTruncated,
  resTreeSkips,   \* page_tree_skipped: [kid, parent, reason]
  resPages        \* PageXObjectResourcesInspection: [leaf, images, forms, skipped]

resVars ==
  <<resPhase, resFrames, resVisited, resNodeCount, resTruncated, resTreeSkips, resPages>>

(***************************************************************************)
(* What the target of an /XObject entry turns out to be.  The form of an   *)
(* "OpaqueForm" is one whose expansion leaves a skip; "Unclassified" is    *)
(* every entry that is no reference to an object with a known /Subtype.    *)
(***************************************************************************)
Targets == {"Image", "Form", "OpaqueForm", "Unclassified"}
XObjectEntries == Seq([name : Names, target : Targets])

(* The /XObject of a resource dictionary.                                   *)
Dictionary == [xobject : XObjectEntries \cup {Absent, Unusable}]

(* A present /Resources: Unusable or the dictionary.                        *)
Statement == Dictionary \cup {Absent, Unusable}

ResourceSkipReasons ==
  {"UnusableResources", "MissingResources", "MissingXObject", "UnusableXObject",
   "DuplicateXObjectName", "UnclassifiedXObject"}

Context == [resources : Dictionary \cup {Absent}, skips : Seq(ResourceSkipReasons)]
Report == [leaf : Objects, images : SUBSET Names, forms : SUBSET (Names \X BOOLEAN),
           skipped : Seq(ResourceSkipReasons)]

ResourceTypeOK ==
  /\ resources \in [Objects -> Statement]
  /\ resPhase \in {"idle", "walking", "done"}
  /\ resFrames \in Seq([node : Objects, next : Nat \ {0}, context : Context])
  /\ resVisited \subseteq Objects
  /\ resNodeCount \in Nat
  /\ resTruncated \in Bounds \cup {Absent}
  /\ resTreeSkips \in Seq([kid : Objects, parent : Objects, reason : LeafSkipReasons])
  /\ resPages \in Seq(Report)

ResourceInit ==
  /\ resPhase = "idle" /\ resFrames = <<>> /\ resVisited = {} /\ resNodeCount = 0
  /\ resTruncated = Absent /\ resTreeSkips = <<>> /\ resPages = <<>>

(***************************************************************************)
(* The tree as resolution by file offset sees it.                          *)
(***************************************************************************)
OffsetTree ==
  [o \in Objects |->
     IF tree[o].compressed THEN [tree[o] EXCEPT !.type = "Unresolved", !.kids = Absent]
     ELSE tree[o]]
OffsetType(node) == IF tree[node].compressed THEN "Unresolved" ELSE NodeType(node)
OffsetExpands(node) == ~tree[node].compressed /\ Expands(node)

NoContext == [resources |-> Absent, skips |-> <<>>]

(***************************************************************************)
(* ResourceContext::from_dictionary: a present /Resources replaces the     *)
(* inherited one, also when it is unusable; the skips pile up.             *)
(***************************************************************************)
FromDictionary(node, inherited) ==
  CASE resources[node] = Absent -> inherited
    [] resources[node] = Unusable ->
         [resources |-> Absent, skips |-> Append(inherited.skips, "UnusableResources")]
    [] OTHER -> [inherited EXCEPT !.resources = resources[node]]

(***************************************************************************)
(* classify_xobject_entries: the first entry of a name counts, classified  *)
(* or not.                                                                 *)
(***************************************************************************)
First(entries, i) == \A j \in 1..(i - 1) : entries[j].name # entries[i].name

EntrySkips(entries) ==
  LET skip(i) == IF ~First(entries, i) THEN <<"DuplicateXObjectName">>
                 ELSE IF entries[i].target = "Unclassified" THEN <<"UnclassifiedXObject">>
                 ELSE <<>>
  IN  FlattenSeq([i \in 1..Len(entries) |-> skip(i)])

Classified(entries, target) ==
  {entries[i].name : i \in {j \in 1..Len(entries) :
                              First(entries, j) /\ entries[j].target = target}}

(***************************************************************************)
(* inspect_effective_xobjects.  A form comes with whether its expansion    *)
(* will succeed.                                                           *)
(***************************************************************************)
ReportOf(leaf, context) ==
  LET empty(reason) == [leaf |-> leaf, images |-> {}, forms |-> {},
                        skipped |-> Append(context.skips, reason)]
      entries == context.resources.xobject
  IN  CASE context.resources = Absent -> empty("MissingResources")
        [] context.resources # Absent /\ entries = Absent -> empty("MissingXObject")
        [] context.resources # Absent /\ entries = Unusable -> empty("UnusableXObject")
        [] OTHER ->
             [leaf |-> leaf, images |-> Classified(entries, "Image"),
              forms |-> (Classified(entries, "Form") \X {TRUE})
                          \cup (Classified(entries, "OpaqueForm") \X {FALSE}),
              skipped |-> context.skips \o EntrySkips(entries)]

(***************************************************************************)
(* inspect_document_page_xobject_resources_with_lookup, on a root that was *)
(* expanded by the content pass just before.                               *)
(***************************************************************************)
StartResources ==
  /\ resPhase = "idle"
  /\ resPhase' = "walking"
  /\ resFrames' = <<[node |-> Root, next |-> 1, context |-> FromDictionary(Root, NoContext)]>>
  /\ resVisited' = {Root} /\ resNodeCount' = 1
  /\ UNCHANGED <<tree, resources, resTruncated, resTreeSkips, resPages>>

AtResourceKid(kid) ==
  /\ resPhase = "walking" /\ resFrames # <<>> /\ ~Exhausted(resFrames)
  /\ kid = Kids(Top(resFrames).node)[Top(resFrames).next]

(* The kid's own dictionary was read when the kid was classified, so it     *)
(* reads again here.                                                        *)
InspectPage ==
  \E leaf \in Objects :
    /\ AtResourceKid(leaf) /\ OffsetType(leaf) = "Page"
    /\ resPages' = Append(resPages,
                          ReportOf(leaf, FromDictionary(leaf, Top(resFrames).context)))
    /\ resFrames' = Advanced(resFrames)
    /\ UNCHANGED <<tree, resources, resPhase, resVisited, resNodeCount, resTruncated,
                   resTreeSkips>>

ResourceSkip(kid, reason) ==
  resTreeSkips' = Append(resTreeSkips, [kid |-> kid, parent |-> Top(resFrames).node,
                                        reason |-> reason])

SkipResourceKid ==
  \E kid \in Objects :
    /\ AtResourceKid(kid) /\ OffsetType(kid) \in {"Other", "Unresolved"}
    /\ ResourceSkip(kid, OffsetType(kid))
    /\ resFrames' = Advanced(resFrames)
    /\ UNCHANGED <<tree, resources, resPhase, resVisited, resNodeCount, resTruncated, resPages>>

ResourceBound(kid) ==
  IF kid \in resVisited THEN "Cycle"
  ELSE IF Len(resFrames) > MaxDepth THEN "MaxDepth"
  ELSE IF resNodeCount >= MaxNodes THEN "MaxVisitedNodes"
  ELSE Absent

(* A node is remembered when it is first met, entered or not.               *)
RememberedAtOnce(kid) == resVisited \cup {kid}

(* A node that a bound refuses is not remembered.                           *)
Remembered(kid) == IF ResourceBound(kid) = Absent THEN resVisited \cup {kid} ELSE resVisited

StopResourceDescent ==
  \E kid \in Objects :
    /\ AtResourceKid(kid) /\ OffsetType(kid) = "Pages" /\ ResourceBound(kid) # Absent
    /\ resTruncated' = IF resTruncated = Absent THEN ResourceBound(kid) ELSE resTruncated
    /\ resVisited' = Remembered(kid)
    /\ ResourceSkip(kid, ResourceBound(kid))
    /\ resFrames' = Advanced(resFrames)
    /\ UNCHANGED <<tree, resources, resPhase, resNodeCount, resPages>>

DescendResources ==
  \E kid \in Objects :
    /\ AtResourceKid(kid) /\ OffsetType(kid) = "Pages" /\ ResourceBound(kid) = Absent
    /\ resVisited' = Remembered(kid) /\ resNodeCount' = resNodeCount + 1
    /\ IF OffsetExpands(kid)
       THEN /\ resFrames' = Append(Advanced(resFrames),
                 [node |-> kid, next |-> 1,
                  context |-> FromDictionary(kid, Top(resFrames).context)])
            /\ UNCHANGED resTreeSkips
       ELSE ResourceSkip(kid, "NodeExpansionFailed") /\ resFrames' = Advanced(resFrames)
    /\ UNCHANGED <<tree, resources, resPhase, resTruncated, resPages>>

ReturnFromResources ==
  /\ resPhase = "walking" /\ Exhausted(resFrames)
  /\ resFrames' = Front(resFrames)
  /\ resPhase' = IF Len(resFrames) = 1 THEN "done" ELSE "walking"
  /\ UNCHANGED <<tree, resources, resVisited, resNodeCount, resTruncated, resTreeSkips,
                 resPages>>

ResourceStep ==
  StartResources \/ InspectPage \/ SkipResourceKid \/ StopResourceDescent
    \/ DescendResources \/ ReturnFromResources

=============================================================================
